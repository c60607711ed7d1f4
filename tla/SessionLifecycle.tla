--------------------------- MODULE SessionLifecycle ---------------------------
(***************************************************************************)
(* The sessions of one owner with one name, tool and workspace on one host. *)
(* The bot's sagas change rows and put runner jobs into the outbox, the     *)
(* runner's job loop works through them (late, twice, or never), and the    *)
(* janitor's sweeps move sessions that are idle, stuck or lost.             *)
(* Each action is one database transaction.                                 *)
(***************************************************************************)
EXTENDS Naturals, FiniteSets

CONSTANTS Sessions,
          NoToken,
          MaxVersion,    \* bound on lifecycle_version
          MaxTurns,      \* bound on turns in progress, those of dead processes included
          MaxReports,    \* bound on the tokens one conversation goes through
          MaxActive      \* MAX_ACTIVE_SESSIONS_PER_USER

ASSUME LifecycleAssumption ==
    /\ NoToken \notin Sessions \X Nat \X Nat
    /\ {MaxVersion, MaxTurns} \subseteq Nat
    /\ MaxReports \in Nat \ {0}
    /\ MaxActive \in Nat \ {0}

VARIABLES status, version, token,  \* columns of each sessions row
          reason,        \* status_reason, or the successor that superseded it
          jobs,          \* runner jobs published so far
          reading,       \* resume jobs between their SELECT and their UPDATE
          turns,         \* input turns executing, with the token they were given
          wanted,        \* history: what the last command or timeout asked for
          restartedAt    \* history: version of the latest /restart

vars == <<status, version, token, reason, jobs, reading, turns, wanted, restartedAt>>

Active   == {"creating", "resuming", "running", "idle"}
Ended    == {"failed", "orphaned"}
Statuses == Active \cup Ended \cup {"none", "archived", "stopping", "stopped"}

\* A resume token is named by the conversation it continues (the session and the
\* version that began it) and by how far into it: a tool reports a new token with
\* each turn.
Named    == Sessions \X (0..MaxVersion) \X (1..MaxReports)
Tokens   == Named \cup {NoToken}
Conversation(t) == <<t[1], t[2]>>
Reasons  == {"none", "start_failed", "other"}
Job      == [kind : {"create", "stop", "resume", "restart"},
             session : Sessions, version : 0..MaxVersion, token : Tokens]
Reading  == [session : Sessions, version : 0..MaxVersion, token : Tokens]

TypeOK ==
    /\ status \in [Sessions -> Statuses]
    /\ version \in [Sessions -> 0..MaxVersion]
    /\ token \in [Sessions -> Tokens]
    /\ reason \in [Sessions -> Reasons \cup Sessions]
    /\ jobs \subseteq Job
    /\ reading \subseteq Reading
    /\ turns \subseteq Reading
    /\ wanted \in [Sessions -> {"live", "down"}]
    /\ restartedAt \in [Sessions -> 0..MaxVersion]

Init ==
    /\ status = [s \in Sessions |-> "none"]
    /\ version = [s \in Sessions |-> 0]
    /\ token = [s \in Sessions |-> NoToken]
    /\ reason = [s \in Sessions |-> "none"]
    /\ jobs = {}
    /\ reading = {}
    /\ turns = {}
    /\ wanted = [s \in Sessions |-> "down"]
    /\ restartedAt = [s \in Sessions |-> 0]

-----------------------------------------------------------------------------
SetStatus(s, to) == status' = [status EXCEPT ![s] = to]
Ask(s, what)     == wanted' = [wanted EXCEPT ![s] = what]

\* The compare-and-swap every lifecycle command and timeout is made of.
Bump(s, from, to) ==
    /\ status[s] \in from /\ version[s] < MaxVersion
    /\ SetStatus(s, to)
    /\ version' = [version EXCEPT ![s] = @ + 1]

\* The outbox row written with it carries the new version.
Enqueue(kind, s) ==
    jobs' = jobs \cup {[kind |-> kind, session |-> s,
                        version |-> version[s] + 1, token |-> NoToken]}

\* Rows that count against the owner's quota.
Counted == {s \in Sessions : status[s] \in Active \cup {"stopping"}}

\* run_create_saga, serialized per owner by its advisory lock: it inherits the
\* token of an archived session of the same name and marks that superseded.
Create(s) ==
    /\ status[s] = "none"
    /\ Cardinality(Counted) < MaxActive
    /\ LET named == {p \in Sessions : status[p] = "archived" /\ reason[p] \notin Sessions}
           job(t) == [kind |-> "create", session |-> s, version |-> 0, token |-> t]
       IN IF named = {}
            THEN jobs' = jobs \cup {job(NoToken)} /\ UNCHANGED reason
            ELSE \E p \in named : /\ jobs' = jobs \cup {job(token[p])}
                                  /\ reason' = [reason EXCEPT ![p] = s]
    /\ SetStatus(s, "creating")
    /\ Ask(s, "live")
    /\ UNCHANGED <<version, token, reading, turns, restartedAt>>

\* run_stop_saga
Stop(s) ==
    /\ Bump(s, Active, "stopping")
    /\ Enqueue("stop", s) /\ Ask(s, "down")
    /\ UNCHANGED <<token, reason, reading, turns, restartedAt>>

\* run_archive_saga
Archive(s) ==
    /\ Bump(s, {"running", "idle", "stopped"}, "archived")
    /\ Enqueue("stop", s) /\ Ask(s, "down")
    /\ UNCHANGED <<token, reason, reading, turns, restartedAt>>

\* run_resume_saga
Resume(s) ==
    /\ Bump(s, {"archived"}, "resuming")
    /\ Enqueue("resume", s) /\ Ask(s, "live")
    /\ UNCHANGED <<token, reason, reading, turns, restartedAt>>

\* Mutant of Restart: the old token stays in the row.
RestartKeepingToken(s) ==
    /\ Bump(s, {"running", "idle", "stopped"}, "resuming")
    /\ Enqueue("restart", s) /\ Ask(s, "live")
    /\ restartedAt' = [restartedAt EXCEPT ![s] = version[s] + 1]
    /\ UNCHANGED <<token, reason, reading, turns>>

\* run_restart_saga
Restart(s) ==
    /\ Bump(s, {"running", "idle", "stopped"}, "resuming")
    /\ Enqueue("restart", s) /\ Ask(s, "live")
    /\ token' = [token EXCEPT ![s] = NoToken]
    /\ restartedAt' = [restartedAt EXCEPT ![s] = version[s] + 1]
    /\ UNCHANGED <<reason, reading, turns>>

-----------------------------------------------------------------------------
(* The runner.  A published job stays in jobs: it may run late, again (its XACK  *)
(* can be lost), or never (it was dead-lettered, or no runner is up).         *)

\* release_superseded: the predecessor of a session that failed to start.
Release(s, r) ==
    [p \in Sessions |-> IF status[p] = "archived" /\ r[p] = s THEN "none" ELSE r[p]]

StartFailed(s) ==
    /\ SetStatus(s, "failed")
    /\ reason' = Release(s, [reason EXCEPT ![s] = "start_failed"])

\* A tool either takes a caller-assigned token, which begins a conversation, or
\* reports one with a turn.
Minted(s, v, t) ==
    IF t = NoToken THEN {NoToken, <<s, v, 1>>} ELSE {t}

\* What a tool that was given t reports with a turn: nothing (it failed, timed out or
\* was revoked), the token it was given, or the next one of the same conversation.
Reported(s, v, t) ==
    Minted(s, v, t) \cup {NoToken}
      \cup {u \in Named : t # NoToken /\ Conversation(u) = Conversation(t) /\ u[3] = t[3] + 1}

\* run_create_job: only a session still being created starts, or fails to.
CreateJob(j) ==
    LET s == j.session IN
    /\ j.kind = "create"
    /\ IF status[s] # "creating"
         THEN UNCHANGED <<status, token, reason>>
         ELSE \/ /\ SetStatus(s, "running")
                 /\ \E t \in Minted(s, version[s], j.token) : token' = [token EXCEPT ![s] = t]
                 /\ UNCHANGED reason
              \/ StartFailed(s) /\ UNCHANGED token
    /\ UNCHANGED <<version, jobs, reading, turns, wanted, restartedAt>>

\* Mutant of StopJob: the row's version is not compared with the job's.
StopJobUnfenced(j) ==
    LET s == j.session IN
    /\ j.kind = "stop"
    /\ status' = IF status[s] \in Active \cup {"stopping"}
                   THEN [status EXCEPT ![s] = "stopped"] ELSE status
    /\ UNCHANGED <<version, token, reason, jobs, reading, turns, wanted, restartedAt>>

\* Stop jobs of an older version find another row version and do nothing.
StopJob(j) ==
    LET s == j.session IN
    /\ j.kind = "stop"
    /\ status' = IF status[s] = "stopping" /\ version[s] = j.version
                   THEN [status EXCEPT ![s] = "stopped"] ELSE status
    /\ UNCHANGED <<version, token, reason, jobs, reading, turns, wanted, restartedAt>>

\* run_resume_job (also the second half of a restart job) reads the row; the runner
\* may die before it writes...
ResumeRead(j) ==
    LET s == j.session IN
    /\ j.kind \in {"resume", "restart"}
    /\ reading' = IF status[s] = "resuming" /\ version[s] = j.version
                    THEN reading \cup {[session |-> s, version |-> j.version,
                                        token |-> token[s]]}
                    ELSE reading
    /\ UNCHANGED <<status, version, token, reason, jobs, turns, wanted, restartedAt>>

Unchanged(x) == status[x.session] = "resuming" /\ version[x.session] = x.version

\* ...and later either writes it back with a token, or gives up: the workspace
\* is no longer allowed (failed) or the update raised (orphaned).
ResumeWrite(x) ==
    /\ reading' = reading \ {x}
    /\ IF Unchanged(x)
         THEN \/ /\ SetStatus(x.session, "running")
                 /\ \E t \in Minted(x.session, x.version, x.token) :
                      token' = [token EXCEPT ![x.session] = t]
                 /\ UNCHANGED reason
              \/ /\ \E e \in Ended : SetStatus(x.session, e)
                 /\ reason' = [reason EXCEPT ![x.session] = "other"]
                 /\ UNCHANGED token
         ELSE UNCHANGED <<status, token, reason>>
    /\ UNCHANGED <<version, jobs, turns, wanted, restartedAt>>

\* Admission of an input turn: the session wakes, and the tool is given the token of
\* the row.  An unsettled turn holds back the next of its version, also when its
\* process died; a turn of an older version may still be executing, for the session
\* lock is lost with the connection that holds it.
TurnStart(s) ==
    /\ status[s] \in {"running", "idle"}
    /\ Cardinality(turns) < MaxTurns
    /\ \A y \in turns : y.session = s => y.version # version[s]
    /\ SetStatus(s, "running")
    /\ turns' = turns \cup {[session |-> s, version |-> version[s], token |-> token[s]]}
    /\ UNCHANGED <<version, token, reason, jobs, reading, wanted, restartedAt>>

\* Mutant of TurnEnd: the row's version is not compared with the turn's.
TurnEndUnfenced(y) ==
    LET s == y.session IN
    /\ turns' = turns \ {y}
    /\ \E t \in Reported(s, y.version, y.token) :
         token' = IF t # NoToken /\ status[s] \in {"running", "idle"}
                    THEN [token EXCEPT ![s] = t] ELSE token
    /\ UNCHANGED <<status, version, reason, jobs, reading, wanted, restartedAt>>

\* The tool ended: what it reported replaces the row's token (COALESCE keeps that if
\* nothing was reported), provided the session is live and still at the turn's version.
TurnEnd(y) ==
    LET s == y.session IN
    /\ turns' = turns \ {y}
    /\ \E t \in Reported(s, y.version, y.token) :
         token' = IF /\ t # NoToken
                     /\ status[s] \in {"running", "idle"} /\ version[s] = y.version
                    THEN [token EXCEPT ![s] = t] ELSE token
    /\ UNCHANGED <<status, version, reason, jobs, reading, wanted, restartedAt>>

\* recover_sessions at runner start: the workspace is gone (failed) or
\* checking it raised (orphaned).
RecoverFails(s) ==
    /\ status[s] \in {"running", "idle", "resuming"}
    /\ \E e \in Ended : SetStatus(s, e)
    /\ reason' = [reason EXCEPT ![s] = "other"]
    /\ UNCHANGED <<version, token, jobs, reading, turns, wanted, restartedAt>>

-----------------------------------------------------------------------------
(* The janitor.  Whether a row is old enough is left open, and so is whether  *)
(* a turn holds a sweep back: queued and executing ones do, uncertain ones not. *)

\* sweep_creating_watchdog
CreatingWatchdog(s) ==
    /\ status[s] = "creating"
    /\ StartFailed(s)
    /\ UNCHANGED <<version, token, jobs, reading, turns, wanted, restartedAt>>

\* sweep_resuming_watchdog
ResumingWatchdog(s) ==
    /\ status[s] = "resuming"
    /\ SetStatus(s, "orphaned")
    /\ reason' = [reason EXCEPT ![s] = "other"]
    /\ UNCHANGED <<version, token, jobs, reading, turns, wanted, restartedAt>>

\* sweep_idle_timeout
IdleTimeout(s) ==
    /\ status[s] = "running"
    /\ SetStatus(s, "idle")
    /\ UNCHANGED <<version, token, reason, jobs, reading, turns, wanted, restartedAt>>

\* sweep_archive_timeout
ArchiveTimeout(s) ==
    /\ Bump(s, {"idle"}, "archived")
    /\ Enqueue("stop", s) /\ Ask(s, "down")
    /\ UNCHANGED <<token, reason, reading, turns, restartedAt>>

\* sweep_stop_timeout; it also retires archived rows and rewrites the reason.
StopTimeout(s) ==
    /\ Bump(s, {"running", "idle", "archived"}, "stopping")
    /\ reason' = [reason EXCEPT ![s] = "other"]
    /\ Enqueue("stop", s) /\ Ask(s, "down")
    /\ UNCHANGED <<token, reading, turns, restartedAt>>

\* Mutant of StoppingWatchdog: only rows without a reason are swept.
StoppingWatchdogWithoutReason(s) ==
    /\ reason[s] = "none"
    /\ Bump(s, {"stopping"}, "stopped")
    /\ reason' = [reason EXCEPT ![s] = "other"]
    /\ UNCHANGED <<token, jobs, reading, turns, wanted, restartedAt>>

\* sweep_stopping_watchdog; it keeps a reason that is already there.
StoppingWatchdog(s) ==
    /\ Bump(s, {"stopping"}, "stopped")
    /\ reason' = [reason EXCEPT ![s] = IF @ = "none" THEN "other" ELSE @]
    /\ UNCHANGED <<token, jobs, reading, turns, wanted, restartedAt>>

\* sweep_runner_heartbeat_orphans: the host is gone, with all its sessions.
HostLost ==
    LET lost == {s \in Sessions : status[s] \in {"running", "idle", "resuming"}} IN
    /\ lost # {}
    /\ status' = [s \in Sessions |-> IF s \in lost THEN "failed" ELSE status[s]]
    /\ reason' = [s \in Sessions |-> IF s \in lost THEN "other" ELSE reason[s]]
    /\ UNCHANGED <<version, token, jobs, reading, turns, wanted, restartedAt>>

-----------------------------------------------------------------------------
Command(s) == Create(s) \/ Stop(s) \/ Archive(s) \/ Resume(s) \/ Restart(s)
RunJob(j)  == CreateJob(j) \/ StopJob(j) \/ ResumeRead(j)
Watchdog(s) == CreatingWatchdog(s) \/ ResumingWatchdog(s) \/ StoppingWatchdog(s)
Timeout(s) == IdleTimeout(s) \/ ArchiveTimeout(s) \/ StopTimeout(s)

Next ==
    \/ \E s \in Sessions :
         Command(s) \/ TurnStart(s) \/ RecoverFails(s) \/ Watchdog(s) \/ Timeout(s)
    \/ \E y \in turns : TurnEnd(y)
    \/ \E j \in jobs : RunJob(j)
    \/ \E x \in reading : ResumeWrite(x)
    \/ HostLost

Spec == Init /\ [][Next]_vars

\* The janitor sweeps for as long as it runs; nothing is assumed of the runner.
FairSpec == Spec /\ \A s \in Sessions : WF_vars(Watchdog(s))

-----------------------------------------------------------------------------
(* Properties.                                                             *)

\* Late, repeated and lost jobs never overturn what was asked for last: a
\* session stopped or archived does not come back to life by itself, and one
\* created, resumed or restarted is not stopped by an older stop job.
AsLastAsked ==
    \A s \in Sessions :
        /\ wanted[s] = "down" => status[s] \notin Active
        /\ wanted[s] = "live" => status[s] \in Active \cup Ended

\* /restart starts a new conversation: neither the session's earlier token nor
\* one inherited from a predecessor returns, whatever resume job is in flight.
RestartIsFresh ==
    \A s \in Sessions :
        restartedAt[s] > 0 /\ token[s] # NoToken =>
            token[s][1] = s /\ token[s][2] >= restartedAt[s]

\* Archiving, stopping, resuming, failing and recovering keep the conversation, and a
\* turn takes it further: a token is cleared by a restart only, and replaced only by a
\* later one of the same conversation, whatever turns and resume jobs end late.
Continues(t, u) == Conversation(u) = Conversation(t) /\ t[3] < u[3]
ConversationKept ==
    [][\A s \in Sessions :
         token[s] # NoToken /\ token'[s] # token[s] =>
            IF token'[s] = NoToken THEN restartedAt'[s] = version'[s]
                                   ELSE Continues(token[s], token'[s])]_vars

\* failed and orphaned are final: no command, job or sweep moves them again.
EndedIsFinal ==
    [][\A s \in Sessions :
         status[s] \in Ended => status'[s] = status[s] /\ version'[s] = version[s]]_vars

\* With the janitor running nobody waits forever on a session being created,
\* resumed or stopped, even if the runner is down and every job is lost.
TransientEnds ==
    \A s \in Sessions : \A t \in {"creating", "resuming", "stopping"} :
        status[s] = t /\ version[s] < MaxVersion ~> status[s] # t \/ version[s] = MaxVersion

-----------------------------------------------------------------------------
(* What the repository says of sessions and the code does not keep.         *)

\* STATE_TRANSITIONS, the "frozen registry of valid session state transitions".
Registry ==
    [t \in Statuses |->
       CASE t = "none" -> {"creating"}
         [] t = "creating" -> {"running", "failed"}
         [] t = "running"  -> {"idle", "stopping", "failed", "orphaned"}
         [] t = "idle"     -> {"running", "archived", "stopping", "orphaned"}
         [] t = "archived" -> {"resuming"}
         [] t = "resuming" -> {"running", "orphaned", "failed"}
         [] t = "stopping" -> {"stopped", "failed", "orphaned"}
         [] OTHER -> {}]
RegisteredTransitions ==
    [][\A s \in Sessions :
         status'[s] # status[s] => status'[s] \in Registry[status[s]]]_vars

\* "Sessions that count toward MAX_ACTIVE_SESSIONS_PER_USER" stay within it.
QuotaKept == Cardinality(Counted) <= MaxActive

\* "Explicit-token tools keep separate conversation identities": two sessions
\* that can both take input do not continue the same conversation.
SeparateConversations ==
    \A s, t \in Sessions :
        /\ s # t /\ NoToken \notin {token[s], token[t]}
        /\ Conversation(token[s]) = Conversation(token[t])
        => ~({status[s], status[t]} \subseteq {"running", "idle"})

\* "Make a predecessor resumable again when its successor failed to start."
FailedStartReleases ==
    \A p, s \in Sessions :
        status[p] = "archived" /\ reason[p] = s => reason[s] # "start_failed"
=============================================================================
