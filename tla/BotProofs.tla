-------------------------------- MODULE BotProofs --------------------------------
(***************************************************************************)
(* Theorems about two parts of the bot process.  What /start promises for any     *)
(* number of commands, owners, tools and paths and any administration between its   *)
(* steps (StartCommand): the quota holds, a ready session's workspace was allowed, a   *)
(* live session's tool is only missing after an overlap, and no thread is left without   *)
(* a session.  And the typing indicator's counter for any number of messages            *)
(* (TypingTracker).                                                         *)
(***************************************************************************)
EXTENDS StartCommand, TypingTracker, FiniteSetTheorems, TLAPS

\* What the stage of a handler says about its variables.
StageInv ==
    \A c \in Commands :
        /\ stage[c] = "resolved" => cwd[c] \in Paths
        /\ stage[c] \in {"new", "mapped", "resolved", "canonical", "allowed", "checked"}
             => thread[c] = "none"
        /\ job[c] # "none" => stage[c] \in {"undo", "done", "lost"}

\* The runner's checks passed only for a workspace allowed at some time since.
AllowedInv ==
    \A c \in Commands :
        /\ job[c] # "none" /\ Valid(cwd[c]) => c \in allowed
        /\ job[c] \in {"checked", "adapted"} => c \in allowed

\* A tool is missing, or about to be, only for commands that overlapped.
ToolInv ==
    \A c \in Commands :
        /\ session[c] \notin {"none", "failed"}
             /\ (tool[ToolOf[c]] = "absent" \/ removing = ToolOf[c]) => c \in raced
        /\ stage[c] = "opened" /\ tool[ToolOf[c]] = "absent" => c \in raced

Owners == {Owner[c] : c \in Commands}
QuotaInv ==
    \A o \in Owners : IsFiniteSet(ActiveOf(o)) /\ Cardinality(ActiveOf(o)) <= Quota

SafeInv == TypeOK /\ StageInv

\* Commands start new, with neither thread nor session.
LEMMA StartSafeInit == Init => SafeInv
<1> SUFFICES ASSUME Init PROVE SafeInv
  OBVIOUS
<1> USE StartAssumption DEF StartAssumption, Init
<1>1. 0 \in 0..MaxAdmin /\ 0 \in 0..MaxCrashes
  OBVIOUS
<1>2. alias \in [Aliases -> Paths \cup {Nothing}]
  OBVIOUS
<1> QED
  BY <1>1, <1>2 DEF SafeInv, TypeOK, StageInv, Stages

\* Administration changes neither handlers nor sessions.
LEMMA AdminSafe == SafeInv /\ Admin => SafeInv'
<1> SUFFICES ASSUME SafeInv, Admin PROVE SafeInv'
  OBVIOUS
<1> USE StartAssumption DEF StartAssumption, SafeInv, TypeOK, StageInv, Stages, startVars, jobVars
<1>1. ASSUME NEW t \in Tools, RegisterTool(t) \/ SetEnabled(t) \/ CountSessions(t) \/ MapTool(t)
      PROVE SafeInv'
  BY <1>1 DEF RegisterTool, SetEnabled, CountSessions, MapTool, Change
<1>2. CASE DeleteTool
  BY <1>2 DEF DeleteTool
<1>3. ASSUME NEW p \in Paths, AddRoot(p) \/ RemoveRoot(p) PROVE SafeInv'
  BY <1>3 DEF AddRoot, RemoveRoot, Change, Recheck
<1>4. ASSUME NEW a \in Aliases, RemoveAlias(a) PROVE SafeInv'
  BY <1>4 DEF RemoveAlias, Change
<1>5. ASSUME NEW a \in Aliases, NEW p \in Paths, SetAlias(a, p) PROVE SafeInv'
  BY <1>5 DEF SetAlias, Change, Recheck
<1>6. ASSUME NEW p \in Paths, NEW q \in Paths, SwapLink(p, q) PROVE SafeInv'
  BY <1>6 DEF SwapLink, Change, Recheck
<1> QED
  BY <1>1, <1>2, <1>3, <1>4, <1>5, <1>6 DEF Admin

\* Every step keeps the types and what a stage says.
LEMMA StartSafeStep == SafeInv /\ [Next]_vars => SafeInv'
<1> SUFFICES ASSUME SafeInv, [Next]_vars PROVE SafeInv'
  OBVIOUS
<1> USE StartAssumption DEF StartAssumption, SafeInv, TypeOK, StageInv, Stages
<1>1. CASE Admin
  BY <1>1, AdminSafe
<1>2. ASSUME NEW c \in Commands, Refuse(c) \/ ResolveChannel(c) \/ FindRoot(c) \/ PreCheck(c)
                                 \/ OpenSaga(c) \/ Fail(c) \/ CompensateFails(c)
      PROVE SafeInv'
  BY <1>2 DEF Refuse, ResolveChannel, FindRoot, PreCheck, OpenSaga, Fail, CompensateFails,
              Go, Calm, adminVars, jobVars, history
<1>3. ASSUME NEW c \in Commands, ResolveCwd(c) PROVE SafeInv'
  BY <1>3 DEF ResolveCwd, Go, Calm, adminVars, jobVars, history
<1>4. ASSUME NEW c \in Commands, Canonicalize(c) PROVE SafeInv'
  BY <1>4 DEF Canonicalize, Go, Calm, adminVars, jobVars, history
<1>5. ASSUME NEW c \in Commands, CreateThread(c) \/ Compensate(c) PROVE SafeInv'
  BY <1>5 DEF CreateThread, Compensate, Go, Calm, adminVars, jobVars, history
<1>6. ASSUME NEW c \in Commands, Commit(c) PROVE SafeInv'
  BY <1>6 DEF Commit, Insert, Go, adminVars
<1>7. ASSUME NEW c \in Commands, CheckRoot(c) \/ FetchAdapter(c) \/ MarkRunning(c) \/ FailSession(c)
      PROVE SafeInv'
  BY <1>7 DEF CheckRoot, FetchAdapter, MarkRunning, FailSession, Runner,
              adminVars, startVars, history
<1>8. ASSUME NEW c \in Commands, Watchdog(c) \/ Stop(c) \/ StopJob(c) PROVE SafeInv'
  BY <1>8 DEF Watchdog, Stop, StopJob, Runner, adminVars, startVars, history
<1>9. CASE BotCrash
  BY <1>9 DEF BotCrash, adminVars, jobVars, history
<1>10. CASE RunnerCrash
  BY <1>10 DEF RunnerCrash, Runner, adminVars, startVars, history
<1>11. CASE UNCHANGED vars
  BY <1>11 DEF vars, adminVars, startVars, jobVars, history
<1> QED
  BY <1>1, <1>2, <1>3, <1>4, <1>5, <1>6, <1>7, <1>8, <1>9, <1>10, <1>11
  DEF Next, Handler, RunnerSide

\* StartCommand is well typed for every value of the constants.
THEOREM StartTypes == Spec => []TypeOK
<1>1. SafeInv => TypeOK
  BY DEF SafeInv
<1> QED
  BY <1>1, StartSafeInit, StartSafeStep, PTL DEF Spec

\* A path that is allowed when the job exists, or becomes so, is recorded; the runner
\* checks before it starts.
LEMMA AllowedStep == SafeInv /\ AllowedInv /\ [Next]_vars => AllowedInv'
<1> SUFFICES ASSUME SafeInv, AllowedInv, [Next]_vars PROVE AllowedInv'
  OBVIOUS
<1> USE StartAssumption DEF StartAssumption, SafeInv, TypeOK, StageInv, AllowedInv, startVars, jobVars
<1>1. ASSUME NEW t \in Tools, RegisterTool(t) \/ SetEnabled(t) \/ CountSessions(t) \/ MapTool(t)
      PROVE AllowedInv'
  BY <1>1 DEF RegisterTool, SetEnabled, CountSessions, MapTool, Change, Valid
<1>2. CASE DeleteTool
  BY <1>2 DEF DeleteTool, Valid
<1>3. ASSUME NEW p \in Paths, RemoveRoot(p) PROVE AllowedInv'
  BY <1>3 DEF RemoveRoot, Change, Valid
<1>4. ASSUME NEW a \in Aliases, NEW p \in Paths, SetAlias(a, p) PROVE AllowedInv'
  <2>1. Change /\ Recheck
    BY <1>4 DEF SetAlias
  <2> QED
    BY <2>1 DEF Change, Recheck
<1>5. ASSUME NEW p \in Paths, NEW q \in Paths, AddRoot(p) \/ SwapLink(p, q) PROVE AllowedInv'
  <2>1. Change /\ Recheck
    BY <1>5 DEF AddRoot, SwapLink
  <2> QED
    BY <2>1 DEF Change, Recheck
<1>6. ASSUME NEW a \in Aliases, RemoveAlias(a) PROVE AllowedInv'
  BY <1>6 DEF RemoveAlias, Change, Valid
<1>7. ASSUME NEW c \in Commands, Handler(c), ~Commit(c) PROVE AllowedInv'
  <2>1. UNCHANGED <<roots, target, job, allowed>>
    BY <1>7 DEF Handler, Refuse, ResolveChannel, ResolveCwd, Canonicalize, FindRoot, PreCheck,
                CreateThread, OpenSaga, Fail, Compensate, CompensateFails, Calm,
                adminVars, jobVars, history
  <2>2. \A d \in Commands : job[d] # "none" => cwd'[d] = cwd[d]
    BY <1>7 DEF Handler, Refuse, ResolveChannel, ResolveCwd, Canonicalize, FindRoot, PreCheck,
                CreateThread, OpenSaga, Fail, Compensate, CompensateFails, Go
  <2> QED
    BY <2>1, <2>2 DEF Valid
<1>8. ASSUME NEW c \in Commands, Commit(c) PROVE AllowedInv'
  BY <1>8 DEF Commit, Insert, Go, adminVars, Valid
<1>9. ASSUME NEW c \in Commands, CheckRoot(c) \/ FetchAdapter(c) \/ MarkRunning(c) \/ FailSession(c)
      PROVE AllowedInv'
  BY <1>9 DEF CheckRoot, FetchAdapter, MarkRunning, FailSession, Revalidated, Runner,
              adminVars, history, Valid
<1>10. ASSUME NEW c \in Commands, Watchdog(c) \/ Stop(c) \/ StopJob(c) PROVE AllowedInv'
  BY <1>10 DEF Watchdog, Stop, StopJob, Runner, adminVars, history, Valid
<1>11. CASE BotCrash
  BY <1>11 DEF BotCrash, adminVars, history, Valid
<1>12. CASE RunnerCrash
  BY <1>12 DEF RunnerCrash, Runner, adminVars, history, Valid
<1>13. CASE UNCHANGED vars
  BY <1>13 DEF vars, adminVars, history, Valid
<1> QED
  BY <1>1, <1>2, <1>3, <1>4, <1>5, <1>6, <1>7, <1>8, <1>9, <1>10, <1>11, <1>12, <1>13
  DEF Next, Admin, RunnerSide

\* Only MarkRunning makes a session running, after the runner's own checks.
LEMMA ReadyStep ==
    ASSUME SafeInv, AllowedInv, [Next]_vars, NEW c \in Commands,
           session[c] = "creating", session'[c] = "running"
    PROVE  c \in allowed
<1> USE DEF SafeInv, TypeOK, AllowedInv
<1>1. session' # session
  OBVIOUS
<1>2. PICK d \in Commands : Commit(d) \/ RunnerSide(d)
  BY <1>1 DEF Next, Admin, RegisterTool, SetEnabled, CountSessions, MapTool, DeleteTool, AddRoot,
     RemoveRoot, RemoveAlias, SetAlias, SwapLink, Change, BotCrash, RunnerCrash, Handler, Refuse,
     ResolveChannel, ResolveCwd, Canonicalize, FindRoot, PreCheck, CreateThread, OpenSaga, Fail,
     Compensate, CompensateFails, Calm, jobVars, vars
<1>3. MarkRunning(d)
  BY <1>2 DEF Commit, Insert, RunnerSide, CheckRoot, FetchAdapter, FailSession, Watchdog, Stop, StopJob
<1>4. d = c
  BY <1>3 DEF MarkRunning
<1> QED
  BY <1>3, <1>4 DEF MarkRunning

\* A session becomes ready only if its workspace was allowed after it was queued,
\* whatever roots, aliases and links change between the bot's check and the runner's.
THEOREM ReadyIsAllowed == Spec => ReadyWasAllowed
<1>1. Init => AllowedInv
  BY DEF Init, AllowedInv
<1>2. ASSUME SafeInv, AllowedInv, [Next]_vars
      PROVE  [\A c \in Commands : session[c] = "creating" /\ session'[c] = "running"
                                    => c \in allowed]_vars
  BY <1>2, ReadyStep
<1> QED
  BY <1>1, <1>2, StartSafeInit, StartSafeStep, AllowedStep, PTL DEF Spec, ReadyWasAllowed

\* A tool is deleted after a count of no sessions, or the overlap is recorded.
LEMMA ToolStep == SafeInv /\ ToolInv /\ [Next]_vars => ToolInv'
<1> SUFFICES ASSUME SafeInv, ToolInv, [Next]_vars PROVE ToolInv'
  OBVIOUS
<1> USE StartAssumption DEF StartAssumption, SafeInv, TypeOK, StageInv, ToolInv, startVars, jobVars
<1>1. ASSUME NEW t \in Tools, RegisterTool(t) \/ SetEnabled(t) \/ MapTool(t) PROVE ToolInv'
  BY <1>1 DEF RegisterTool, SetEnabled, MapTool, Change
<1>2. ASSUME NEW t \in Tools, CountSessions(t) PROVE ToolInv'
  BY <1>2 DEF CountSessions, Referenced, Change
<1>3. CASE DeleteTool
  BY <1>3 DEF DeleteTool
<1>4. ASSUME NEW p \in Paths, AddRoot(p) \/ RemoveRoot(p) PROVE ToolInv'
  BY <1>4 DEF AddRoot, RemoveRoot, Change
<1>5. ASSUME NEW a \in Aliases, RemoveAlias(a) PROVE ToolInv'
  BY <1>5 DEF RemoveAlias, Change
<1>6. ASSUME NEW a \in Aliases, NEW p \in Paths, SetAlias(a, p) PROVE ToolInv'
  BY <1>6 DEF SetAlias, Change
<1>7. ASSUME NEW p \in Paths, NEW q \in Paths, SwapLink(p, q) PROVE ToolInv'
  BY <1>7 DEF SwapLink, Change
<1>8. ASSUME NEW c \in Commands, Handler(c), ~Commit(c) PROVE ToolInv'
  <2>1. UNCHANGED <<tool, removing, session, raced>>
    BY <1>8 DEF Handler, Refuse, ResolveChannel, ResolveCwd, Canonicalize, FindRoot, PreCheck,
                CreateThread, OpenSaga, Fail, Compensate, CompensateFails, Calm,
                adminVars, jobVars, history
  <2>2. \A d \in Commands :
          stage'[d] = "opened" => stage[d] = "opened" \/ tool[ToolOf[d]] = "enabled"
    BY <1>8 DEF Handler, Refuse, ResolveChannel, ResolveCwd, Canonicalize, FindRoot, PreCheck,
                CreateThread, OpenSaga, Fail, Compensate, CompensateFails, Go
  <2> QED
    BY <2>1, <2>2
<1>9. ASSUME NEW c \in Commands, Commit(c) PROVE ToolInv'
  BY <1>9 DEF Commit, Insert, Go, adminVars
<1>10. ASSUME NEW c \in Commands, RunnerSide(c) PROVE ToolInv'
  BY <1>10 DEF RunnerSide, CheckRoot, FetchAdapter, MarkRunning, Watchdog, Stop, StopJob, FailSession,
               Runner, adminVars, history
<1>11. CASE BotCrash
  BY <1>11 DEF BotCrash, adminVars, history
<1>12. CASE RunnerCrash
  BY <1>12 DEF RunnerCrash, Runner, adminVars, history
<1>13. CASE UNCHANGED vars
  BY <1>13 DEF vars, adminVars, history
<1> QED
  BY <1>1, <1>2, <1>3, <1>4, <1>5, <1>6, <1>7, <1>8, <1>9, <1>10, <1>11, <1>12, <1>13
  DEF Next, Admin

\* A session that may run has its tool, unless a removal overlapped with its creation.
THEOREM LiveToolStays == Spec => []LiveToolExists
<1>1. Init => ToolInv
  BY StartAssumption DEF StartAssumption, Init, ToolInv
<1>2. ToolInv => LiveToolExists
  BY DEF ToolInv, LiveToolExists
<1> QED
  BY <1>1, <1>2, StartSafeInit, StartSafeStep, ToolStep, PTL DEF Spec

\* A handler is done only without a thread, after its compensation, or with a session.
LEMMA ThreadStep == SafeInv /\ NoThreadLeft /\ [Next]_vars => NoThreadLeft'
<1> SUFFICES ASSUME SafeInv, NoThreadLeft, [Next]_vars PROVE NoThreadLeft'
  OBVIOUS
<1> USE DEF SafeInv, TypeOK, StageInv, NoThreadLeft, startVars, jobVars
<1>1. CASE Admin
  BY <1>1 DEF Admin, RegisterTool, SetEnabled, CountSessions, MapTool, DeleteTool, AddRoot,
              RemoveRoot, RemoveAlias, SetAlias, SwapLink, Change
<1>2. ASSUME NEW c \in Commands, Handler(c), ~Commit(c) PROVE NoThreadLeft'
  BY <1>2 DEF Handler, Refuse, ResolveChannel, ResolveCwd, Canonicalize, FindRoot, PreCheck,
              CreateThread, OpenSaga, Fail, Compensate, CompensateFails, Go, Calm
<1>3. ASSUME NEW c \in Commands, Commit(c) PROVE NoThreadLeft'
  BY <1>3 DEF Commit, Insert, Go
<1>4. ASSUME NEW c \in Commands, RunnerSide(c) PROVE NoThreadLeft'
  BY <1>4 DEF RunnerSide, CheckRoot, FetchAdapter, MarkRunning, Watchdog, Stop, StopJob, FailSession, Runner
<1>5. CASE BotCrash \/ RunnerCrash
  BY <1>5 DEF BotCrash, RunnerCrash, Runner
<1>6. CASE UNCHANGED vars
  BY <1>6 DEF vars
<1> QED
  BY <1>1, <1>2, <1>3, <1>4, <1>5, <1>6 DEF Next

\* A command that is over without a session has no open thread, however it was refused,
\* unless the bot crashed or Discord refused the deletion.
THEOREM ThreadsAreUndone == Spec => []NoThreadLeft
<1>1. Init => NoThreadLeft
  BY DEF Init, NoThreadLeft
<1> QED
  BY <1>1, StartSafeInit, StartSafeStep, ThreadStep, PTL DEF Spec

\* Only a commit makes a session active; every other step only ends some.
LEMMA OnlyCommitAdds ==
    ASSUME SafeInv, [Next]_vars, NEW o \in Owners
    PROVE  \/ ActiveOf(o)' \subseteq ActiveOf(o)
           \/ \E c \in Commands : /\ Owner[c] = o /\ Cardinality(ActiveOf(o)) < Quota
                                  /\ ActiveOf(o)' \subseteq ActiveOf(o) \cup {c}
<1> USE DEF SafeInv, TypeOK, ActiveOf, Active, startVars, jobVars
<1>1. CASE Admin \/ BotCrash \/ RunnerCrash \/ UNCHANGED vars
  <2>1. UNCHANGED session
    BY <1>1 DEF Admin, RegisterTool, SetEnabled, CountSessions, MapTool, DeleteTool, AddRoot,
                RemoveRoot, RemoveAlias, SetAlias, SwapLink, Change, BotCrash, RunnerCrash, vars
  <2> QED
    BY <2>1
<1>2. ASSUME NEW c \in Commands, Handler(c), ~Commit(c) PROVE ActiveOf(o)' \subseteq ActiveOf(o)
  <2>1. UNCHANGED session
    BY <1>2 DEF Handler, Refuse, ResolveChannel, ResolveCwd, Canonicalize, FindRoot, PreCheck,
                CreateThread, OpenSaga, Fail, Compensate, CompensateFails, Calm
  <2> QED
    BY <2>1
<1>3. ASSUME NEW c \in Commands, RunnerSide(c) PROVE ActiveOf(o)' \subseteq ActiveOf(o)
  <2>1. \A d \in Commands : session'[d] = session[d]
          \/ session'[d] = "failed" \/ session'[d] = "stopped"
          \/ (session[d] = "creating" /\ session'[d] = "running")
          \/ (session[d] \in {"creating", "running"} /\ session'[d] = "stopping")
    BY <1>3 DEF RunnerSide, CheckRoot, FetchAdapter, MarkRunning, Watchdog, Stop, StopJob, FailSession
  <2> QED
    BY <2>1
<1>4. ASSUME NEW c \in Commands, Commit(c)
      PROVE  \/ ActiveOf(o)' \subseteq ActiveOf(o)
             \/ /\ Owner[c] = o /\ Cardinality(ActiveOf(o)) < Quota
                /\ ActiveOf(o)' \subseteq ActiveOf(o) \cup {c}
  <2>1. session' = [session EXCEPT ![c] = "creating"] /\ BelowQuota(c)
    BY <1>4 DEF Commit, Insert
  <2>2. CASE Owner[c] = o
    BY <2>1, <2>2 DEF BelowQuota
  <2>3. CASE Owner[c] # o
    BY <2>1, <2>3
  <2> QED
    BY <2>2, <2>3
<1> QED
  BY <1>1, <1>2, <1>3, <1>4 DEF Next

\* One session more below the quota is at most the quota.
LEMMA QuotaStep == SafeInv /\ QuotaInv /\ [Next]_vars => QuotaInv'
<1> SUFFICES ASSUME SafeInv, QuotaInv, [Next]_vars, NEW o \in Owners
             PROVE  IsFiniteSet(ActiveOf(o)') /\ Cardinality(ActiveOf(o)') <= Quota
  BY DEF QuotaInv
<1>1. IsFiniteSet(ActiveOf(o)) /\ Cardinality(ActiveOf(o)) <= Quota /\ Quota \in Nat
      /\ Cardinality(ActiveOf(o)) \in Nat
  BY StartAssumption, FS_CardinalityType DEF QuotaInv, StartAssumption
<1>2. CASE ActiveOf(o)' \subseteq ActiveOf(o)
  <2>1. IsFiniteSet(ActiveOf(o)') /\ Cardinality(ActiveOf(o)') <= Cardinality(ActiveOf(o))
    BY <1>1, <1>2, FS_Subset
  <2> QED
    BY <1>1, <2>1, FS_CardinalityType
<1>3. ASSUME NEW c \in Commands, Cardinality(ActiveOf(o)) < Quota,
             ActiveOf(o)' \subseteq ActiveOf(o) \cup {c}
      PROVE  IsFiniteSet(ActiveOf(o)') /\ Cardinality(ActiveOf(o)') <= Quota
  <2>1. IsFiniteSet(ActiveOf(o) \cup {c})
        /\ Cardinality(ActiveOf(o) \cup {c}) <= Cardinality(ActiveOf(o)) + 1
    <3>1. /\ IsFiniteSet(ActiveOf(o) \cup {c})
          /\ Cardinality(ActiveOf(o) \cup {c}) =
               IF c \in ActiveOf(o) THEN Cardinality(ActiveOf(o)) ELSE Cardinality(ActiveOf(o)) + 1
      BY <1>1, FS_AddElement
    <3> QED
      BY <1>1, <3>1
  <2>2. IsFiniteSet(ActiveOf(o)')
        /\ Cardinality(ActiveOf(o)') <= Cardinality(ActiveOf(o) \cup {c})
    BY <1>3, <2>1, FS_Subset
  <2> QED
    BY <1>1, <1>3, <2>1, <2>2, FS_CardinalityType
<1> QED
  BY <1>2, <1>3, OnlyCommitAdds

\* However many /start commands pass the advisory check together, their transactions
\* keep each owner within MAX_ACTIVE_SESSIONS_PER_USER.
THEOREM QuotaIsKept == Spec => []QuotaHolds
<1>1. ASSUME Init PROVE QuotaInv
  <2>1. \A o \in Owners : ActiveOf(o) = {}
    BY <1>1 DEF Init, ActiveOf, Active
  <2> QED
    BY <2>1, FS_EmptySet, StartAssumption DEF QuotaInv, StartAssumption
<1>2. QuotaInv => QuotaHolds
  BY DEF QuotaInv, QuotaHolds, Owners
<1> QED
  BY <1>1, <1>2, StartSafeInit, StartSafeStep, QuotaStep, PTL DEF Spec

-----------------------------------------------------------------------------
(* The typing indicator.                                                   *)

Noted == {t \in Turns : turn[t] # "new"}

\* Whoever will take a count back is counted, or its count was wiped.
OwedInv ==
    \A t \in Turns :
        /\ turn[t] = "new" => t \notin counted
        /\ turn[t] \in {"new", "saga"} => watcher[t] = "none"
        /\ turn[t] = "saga" \/ watcher[t] = "waiting" => t \in counted \cup late

\* A watcher of a wiped message may take a count too many, never one too few.
CountInv ==
    /\ count <= Cardinality(counted)
    /\ count > 0 <=> current # 0
    /\ ~stolen => count = Cardinality(counted)
    /\ started <= Cardinality(Noted)

TypingInv == TypingTypeOK /\ OwedInv /\ CountInv

\* The cardinalities of what is counted and noted.
LEMMA CountsAreFinite ==
    ASSUME TypingTypeOK
    PROVE  /\ IsFiniteSet(counted) /\ IsFiniteSet(Noted)
           /\ Cardinality(Turns) \in Nat /\ Cardinality(counted) \in Nat /\ Cardinality(Noted) \in Nat
           /\ Cardinality(counted) <= Cardinality(Turns) /\ Cardinality(Noted) <= Cardinality(Turns)
           /\ (counted = {} <=> Cardinality(counted) = 0)
           /\ \A t \in Turns \ counted : Cardinality(counted \cup {t}) = Cardinality(counted) + 1
           /\ \A t \in counted : Cardinality(counted \ {t}) = Cardinality(counted) - 1
           /\ \A t \in Turns \ Noted : Cardinality(Noted \cup {t}) = Cardinality(Noted) + 1
<1>1. counted \subseteq Turns /\ Noted \subseteq Turns
  BY DEF TypingTypeOK, Noted
<1>2. IsFiniteSet(Turns) /\ IsFiniteSet(counted) /\ IsFiniteSet(Noted)
  BY <1>1, TypingAssumption, FS_Subset
<1>3. /\ Cardinality(Turns) \in Nat /\ Cardinality(counted) \in Nat /\ Cardinality(Noted) \in Nat
  BY <1>2, FS_CardinalityType
<1>4. Cardinality(counted) <= Cardinality(Turns) /\ Cardinality(Noted) <= Cardinality(Turns)
  BY <1>1, <1>2, TypingAssumption, FS_Subset
<1>5. counted = {} <=> Cardinality(counted) = 0
  BY <1>2, FS_EmptySet
<1>6. \A t \in Turns \ counted : Cardinality(counted \cup {t}) = Cardinality(counted) + 1
  BY <1>2, FS_AddElement
<1>7. \A t \in counted : Cardinality(counted \ {t}) = Cardinality(counted) - 1
  BY <1>2, FS_RemoveElement
<1>8. \A t \in Turns \ Noted : Cardinality(Noted \cup {t}) = Cardinality(Noted) + 1
  BY <1>2, FS_AddElement
<1>9. QED  BY <1>2, <1>3, <1>4, <1>5, <1>6, <1>7, <1>8

LEMMA TypingStarts == TypingInit => TypingInv
<1> SUFFICES ASSUME TypingInit PROVE TypingInv
  OBVIOUS
<1>1. Cardinality({}) = 0 /\ Cardinality(Turns) \in Nat
  BY FS_EmptySet, TypingAssumption, FS_CardinalityType
<1>2. counted = {} /\ Noted = {}
  BY DEF TypingInit, Noted
<1>3. /\ turn \in [Turns -> {"new", "saga", "pending", "finished", "refused"}]
      /\ watcher \in [Turns -> {"none", "waiting", "over"}]
  BY DEF TypingInit
<1>8. /\ count \in 0..Cardinality(Turns) /\ started \in 0..Cardinality(Turns) /\ current \in 0..started
      /\ typing \subseteq 1..started /\ told \subseteq 1..started /\ timer \in {0, current}
  BY <1>1 DEF TypingInit
<1>7. TypingTypeOK
  BY <1>3, <1>8 DEF TypingInit, TypingTypeOK
<1>4. OwedInv
  BY DEF TypingInit, OwedInv
<1>5. CountInv
  BY <1>1, <1>2 DEF TypingInit, CountInv
<1>6. QED  BY <1>7, <1>4, <1>5 DEF TypingInv

\* note_user_message for a message that is new.
LEMMA CountsUser ==
    ASSUME TypingInv, NEW t \in Turns, turn[t] = "new", NoteUser(t),
           turn' \in [Turns -> {"new", "saga", "pending", "finished", "refused"}],
           turn'[t] # "new", \A u \in Turns \ {t} : turn'[u] = turn[u], UNCHANGED stolen
    PROVE  /\ CountInv' /\ counted' = counted \cup {t} /\ UNCHANGED late
           /\ count' \in 0..Cardinality(Turns) /\ started' \in 0..Cardinality(Turns)
           /\ current' \in 0..started' /\ typing' \subseteq 1..started' /\ told' \subseteq 1..started'
           /\ timer' \in {0, current'}
<1>1. t \notin counted /\ t \notin Noted
  BY DEF TypingInv, OwedInv, Noted
<1>2. Noted' = Noted \cup {t}
  BY DEF Noted, TypingInv, TypingTypeOK
<1>3. counted' = counted \cup {t} /\ UNCHANGED late
  BY DEF NoteUser
<1>4. Cardinality(counted') = Cardinality(counted) + 1 /\ Cardinality(Noted') = Cardinality(Noted) + 1
  BY <1>1, <1>2, <1>3, CountsAreFinite DEF TypingInv
<1>5. counted' \subseteq Turns /\ Noted' \subseteq Turns
  BY <1>3 DEF Noted, TypingInv, TypingTypeOK
<1>6. Cardinality(counted') <= Cardinality(Turns) /\ Cardinality(Noted') <= Cardinality(Turns)
  BY <1>5, TypingAssumption, FS_Subset
<1>7. /\ count \in Nat /\ started \in Nat /\ current \in 0..started /\ timer \in {0, current}
      /\ typing \subseteq 1..started /\ told \subseteq 1..started
      /\ Cardinality(counted) \in Nat /\ Cardinality(Noted) \in Nat /\ Cardinality(Turns) \in Nat
  BY CountsAreFinite DEF TypingInv, TypingTypeOK
<1>8. CASE current = 0
  <2>1. count' = 1 /\ started' = started + 1 /\ current' = started + 1 /\ timer' = started + 1
        /\ typing' = typing \cup {started + 1} /\ told' = told
    BY <1>7, <1>8 DEF NoteUser, TypingInv, CountInv
  <2>2. CountInv'
    BY <2>1, <1>4, <1>7, <1>8 DEF TypingInv, CountInv, NoteUser
  <2>3. QED  BY <2>1, <2>2, <1>3, <1>4, <1>6, <1>7 DEF TypingInv, CountInv
<1>9. CASE current # 0
  <2>1. count' = count + 1 /\ UNCHANGED <<started, current, timer, typing, told>>
    BY <1>9 DEF NoteUser
  <2>2. CountInv'
    BY <2>1, <1>4, <1>7, <1>9 DEF TypingInv, CountInv
  <2>3. count' \in 0..Cardinality(Turns)
    BY <2>1, <1>4, <1>6, <1>7 DEF TypingInv, CountInv
  <2>4. started' \in 0..Cardinality(Turns)
    BY <2>1, <1>4, <1>6, <1>7 DEF TypingInv, CountInv
  <2>5. QED  BY <2>1, <2>2, <2>3, <2>4, <1>3, <1>7
<1>10. QED  BY <1>8, <1>9

\* note_bot_message, whose caller remembers a count that it took for a wiped message.
LEMMA CountsBot ==
    ASSUME TypingInv, NEW t \in counted \cup late, NoteBot(t),
           stolen' = (stolen \/ (t \in late /\ count > 0)), UNCHANGED <<started, late>>, Noted' = Noted
    PROVE  /\ CountInv' /\ counted' = counted \ {t}
           /\ count' \in 0..Cardinality(Turns) /\ current' \in 0..started
           /\ told' \subseteq 1..started /\ timer' \in {0, current'}
<1>1. /\ count \in Nat /\ started \in Nat /\ current \in 0..started /\ timer \in {0, current}
      /\ told \subseteq 1..started /\ Cardinality(counted) \in Nat /\ Cardinality(Noted) \in Nat
      /\ Cardinality(Turns) \in Nat /\ Cardinality(counted) <= Cardinality(Turns)
  BY CountsAreFinite DEF TypingInv, TypingTypeOK
<1>2. counted' = counted \ {t}
  BY DEF NoteBot
<1>3. t \in counted => Cardinality(counted') = Cardinality(counted) - 1
  BY <1>2, CountsAreFinite DEF TypingInv
<1>4. t \notin counted => counted' = counted
  BY <1>2
<1>5. counted = {} <=> Cardinality(counted) = 0
  BY CountsAreFinite DEF TypingInv
<1>10. ~stolen' => ~stolen /\ (t \in late => ~(count > 0))
  BY Zenon
<1>11. Cardinality(counted') <= Cardinality(counted) /\ Cardinality(counted') >= Cardinality(counted) - 1
  BY <1>1, <1>3, <1>4
<1>12. ~stolen' /\ count > 0 => Cardinality(counted') = Cardinality(counted) - 1
  BY <1>3, <1>10
<1> USE DEF TypingInv, CountInv
<1>6. CASE count = 0 /\ UNCHANGED <<count, current, timer, told>>
  BY <1>1, <1>2, <1>3, <1>4, <1>5, <1>10, <1>11, <1>12, <1>6
<1>13. Cardinality(counted') \in Nat
  BY <1>1, <1>3, <1>4, <1>5
<1>7. CASE count = 1 /\ Stopping
  <2>1. /\ count' = 0 /\ current' = 0 /\ timer' = 0 /\ told' = told \cup ({current} \ {0})
    BY <1>7 DEF Stopping
  <2>2. CountInv'
    BY <2>1, <1>1, <1>7, <1>10, <1>12, <1>13
  <2>3. told' \subseteq 1..started
    BY <2>1, <1>1
  <2>4. QED  BY <2>1, <2>2, <2>3, <1>1, <1>2
<1>8. CASE count > 1 /\ count' = count - 1 /\ UNCHANGED <<current, timer, told>>
  <2>1. CountInv'
    BY <1>1, <1>8, <1>10, <1>11, <1>12, <1>13
  <2>2. QED  BY <2>1, <1>1, <1>2, <1>8
<1>9. QED  BY <1>6, <1>7, <1>8 DEF NoteBot

\* Every step keeps the counter's invariant.
LEMMA TypingStep == TypingInv /\ [TypingNext]_typingVars => TypingInv'
<1> SUFFICES ASSUME TypingInv, [TypingNext]_typingVars PROVE TypingInv'
  OBVIOUS
<1>1. CASE UNCHANGED typingVars
  BY <1>1 DEF typingVars, TypingInv, TypingTypeOK, OwedInv, CountInv, Noted
<1>2. ASSUME NEW t \in Turns, Message(t) PROVE TypingInv'
  <2>1. /\ turn' = [turn EXCEPT ![t] = "saga"] /\ turn[t] = "new" /\ NoteUser(t)
        /\ UNCHANGED <<watcher, stolen, bot>>
    BY <1>2 DEF Message
  <2>2. /\ turn' \in [Turns -> {"new", "saga", "pending", "finished", "refused"}]
        /\ turn'[t] = "saga" /\ \A u \in Turns \ {t} : turn'[u] = turn[u]
    BY <2>1 DEF TypingInv, TypingTypeOK
  <2>3. /\ CountInv' /\ counted' = counted \cup {t} /\ UNCHANGED late
        /\ count' \in 0..Cardinality(Turns) /\ started' \in 0..Cardinality(Turns)
        /\ current' \in 0..started' /\ typing' \subseteq 1..started' /\ told' \subseteq 1..started'
        /\ timer' \in {0, current'}
    BY <2>1, <2>2, CountsUser
  <2>4. OwedInv'
    BY <2>1, <2>2, <2>3 DEF TypingInv, OwedInv
  <2>5. TypingTypeOK'
    BY <2>1, <2>2, <2>3 DEF TypingInv, TypingTypeOK
  <2>6. QED  BY <2>3, <2>4, <2>5 DEF TypingInv
<1>3. ASSUME NEW t \in Turns, Send(t) PROVE TypingInv'
  <2>1. /\ turn' = [turn EXCEPT ![t] = "pending"] /\ turn[t] = "new" /\ NoteUser(t)
        /\ watcher' = [watcher EXCEPT ![t] = "waiting"] /\ UNCHANGED <<stolen, bot>>
    BY <1>3 DEF Send
  <2>2. /\ turn' \in [Turns -> {"new", "saga", "pending", "finished", "refused"}]
        /\ turn'[t] = "pending" /\ \A u \in Turns \ {t} : turn'[u] = turn[u]
        /\ watcher' \in [Turns -> {"none", "waiting", "over"}]
        /\ \A u \in Turns \ {t} : watcher'[u] = watcher[u]
    BY <2>1 DEF TypingInv, TypingTypeOK
  <2>3. /\ CountInv' /\ counted' = counted \cup {t} /\ UNCHANGED late
        /\ count' \in 0..Cardinality(Turns) /\ started' \in 0..Cardinality(Turns)
        /\ current' \in 0..started' /\ typing' \subseteq 1..started' /\ told' \subseteq 1..started'
        /\ timer' \in {0, current'}
    BY <2>1, <2>2, CountsUser
  <2>4. OwedInv'
    BY <2>1, <2>2, <2>3 DEF TypingInv, OwedInv
  <2>5. TypingTypeOK'
    BY <2>1, <2>2, <2>3 DEF TypingInv, TypingTypeOK
  <2>6. QED  BY <2>3, <2>4, <2>5 DEF TypingInv
<1>4. ASSUME NEW t \in Turns, Queued(t) \/ Finish(t) PROVE TypingInv'
  <2>1. /\ UNCHANGED <<counted, count, current, started, typing, told, timer, late, stolen, bot>>
        /\ Noted' = Noted
    BY <1>4 DEF Queued, Finish, Noted, TypingInv, TypingTypeOK
  <2>2. TypingTypeOK'
    BY <1>4, <2>1 DEF Queued, Finish, TypingInv, TypingTypeOK
  <2>3. OwedInv'
    BY <1>4, <2>1 DEF Queued, Finish, TypingInv, TypingTypeOK, OwedInv
  <2>4. QED  BY <2>1, <2>2, <2>3 DEF TypingInv, CountInv
<1>5. ASSUME NEW t \in Turns, SagaRefuses(t) \/ WatcherEnds(t) PROVE TypingInv'
  <2>1. t \in counted \cup late /\ NoteBot(t) /\ UNCHANGED <<started, typing, late, bot>>
        /\ stolen' = (stolen \/ (t \in late /\ count > 0))
    BY <1>5 DEF SagaRefuses, WatcherEnds, TypingInv, OwedInv
  <2>2. /\ turn' \in [Turns -> {"new", "saga", "pending", "finished", "refused"}]
        /\ watcher' \in [Turns -> {"none", "waiting", "over"}]
        /\ turn'[t] # "saga" /\ watcher'[t] # "waiting" /\ turn'[t] # "new" /\ turn[t] # "new"
        /\ \A u \in Turns \ {t} : turn'[u] = turn[u] /\ watcher'[u] = watcher[u]
    BY <1>5 DEF SagaRefuses, WatcherEnds, TypingInv, TypingTypeOK, OwedInv
  <2>3. Noted' = Noted
    BY <2>2 DEF Noted
  <2>4. /\ CountInv' /\ counted' = counted \ {t}
        /\ count' \in 0..Cardinality(Turns) /\ current' \in 0..started
        /\ told' \subseteq 1..started /\ timer' \in {0, current'}
    BY <2>1, <2>3, CountsBot
  <2>5. OwedInv'
    BY <2>1, <2>2, <2>4 DEF TypingInv, OwedInv
  <2>6. stolen' \in BOOLEAN
    BY <2>1, Zenon
  <2>7. TypingTypeOK'
    BY <2>1, <2>2, <2>4, <2>6 DEF TypingInv, TypingTypeOK
  <2>8. QED  BY <2>4, <2>5, <2>7 DEF TypingInv
<1>6. CASE SafetyTimeout \/ StopIndicator
  <2>1. /\ late' = late \cup counted /\ counted' = {} /\ UNCHANGED <<turn, started, typing, stolen>>
        /\ count' = 0 /\ current' = 0 /\ timer' = 0 /\ told' = told \cup ({current} \ {0})
        /\ bot' \in {"up", "closing", "stopped", "closed"} /\ UNCHANGED watcher
    BY <1>6 DEF SafetyTimeout, StopIndicator, Stopping, TypingInv, TypingTypeOK
  <2>3. Cardinality({}) = 0 /\ Cardinality(Turns) \in Nat /\ Noted' = Noted
    BY <2>1, FS_EmptySet, CountsAreFinite DEF TypingInv, Noted
  <2>4. told' \subseteq 1..started
    BY <2>1 DEF TypingInv, TypingTypeOK
  <2>5. TypingTypeOK'
    BY <2>1, <2>3, <2>4 DEF TypingInv, TypingTypeOK
  <2>6. OwedInv'
    BY <2>1 DEF TypingInv, OwedInv
  <2>7. CountInv'
    BY <2>1, <2>3 DEF TypingInv, CountInv
  <2>8. QED  BY <2>5, <2>6, <2>7 DEF TypingInv
<1>7. ASSUME NEW i \in Starts, IndicatorOver(i) PROVE TypingInv'
  BY <1>7 DEF IndicatorOver, TypingInv, TypingTypeOK, OwedInv, CountInv, Noted
<1>8. CASE Shutdown \/ Close
  <2>1. /\ UNCHANGED <<turn, counted, count, current, started, typing, told, timer, late, stolen>>
        /\ bot' \in {"up", "closing", "stopped", "closed"}
    BY <1>8 DEF Shutdown, Close
  <2>2. /\ watcher' \in [Turns -> {"none", "waiting", "over"}]
        /\ \A t \in Turns : watcher'[t] = "waiting" => watcher[t] = "waiting"
        /\ \A t \in Turns : watcher[t] = "none" => watcher'[t] = "none"
    BY <1>8 DEF Shutdown, Close, TypingInv, TypingTypeOK
  <2>3. TypingTypeOK'
    BY <2>1, <2>2 DEF TypingInv, TypingTypeOK
  <2>4. OwedInv'
    BY <2>1, <2>2 DEF TypingInv, OwedInv
  <2>5. CountInv' /\ Noted' = Noted
    BY <2>1 DEF TypingInv, CountInv, Noted
  <2>6. QED  BY <2>3, <2>4, <2>5 DEF TypingInv
<1>9. QED  BY <1>1, <1>2, <1>3, <1>4, <1>5, <1>6, <1>7, <1>8 DEF TypingNext

\* The counter and the indicator's task come and go together, and the counter is
\* the number of the messages still to be taken back, for any number of messages of
\* either command: only a count taken for a message that a timeout wiped sets it off,
\* and then it is too low, never too high.
THEOREM CounterIsNeverTooHigh ==
    TypingSpec => [](CounterIsPending /\ TypingTypeOK /\ count <= Cardinality(counted))
<1>1. TypingInv => CounterIsPending
  <2> SUFFICES ASSUME TypingInv PROVE CounterIsPending
    OBVIOUS
  <2>1. count > 0 <=> current # 0
    BY DEF TypingInv, CountInv
  <2>2. ~stolen => count = Cardinality(counted)
    BY DEF TypingInv, CountInv
  <2>3. (count > 0) = (current # 0)
    BY <2>1 DEF TypingInv, TypingTypeOK
  <2>4. QED  BY <2>2, <2>3 DEF CounterIsPending
<1>2. TypingInv => TypingTypeOK /\ count <= Cardinality(counted)
  BY DEF TypingInv, CountInv
<1>3. QED  BY <1>1, <1>2, TypingStarts, TypingStep, PTL DEF TypingSpec
=============================================================================
