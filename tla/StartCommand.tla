------------------------------ MODULE StartCommand ------------------------------
(***************************************************************************)
(* /start from the interaction to a ready session: the handler's checks, the    *)
(* Discord thread, the create transaction and the runner's own checks, while      *)
(* administrators change tools, channel maps, aliases and allowed roots.  Every     *)
(* await of the handler is a step of its own.  A refusal that depends on nothing      *)
(* modelled here (permissions, hosts, names, the emergency stop) may come at any       *)
(* step before the thread.                                                      *)
(***************************************************************************)
EXTENDS Integers, FiniteSets

CONSTANTS Commands, Owner, ToolOf,   \* the interactions, who sent them, their tool
          Cwd,                       \* the cwd argument of each: a path or an alias
          Paths, Aliases, Tools,
          Denied,                    \* paths the denylist refuses
          Quota,                     \* MAX_ACTIVE_SESSIONS_PER_USER
          MaxAdmin,                  \* bound on administrative changes
          MaxCrashes,                \* bound on crashes of the bot or the runner
          Nothing

ASSUME StartAssumption ==
    /\ ToolOf \in [Commands -> Tools] /\ Cwd \in [Commands -> Paths \cup Aliases]
    /\ Paths \cap Aliases = {} /\ Nothing \notin Paths \cup Tools
    /\ Denied \subseteq Paths /\ Quota \in Nat /\ MaxAdmin \in Nat /\ MaxCrashes \in Nat

VARIABLES
    tool,       \* tool_definitions: absent, disabled or enabled
    removing,   \* the tool a /tool remove has counted no sessions for
    mapped,     \* tools with a channel in guild_tool_channel_map
    alias,      \* path_aliases: alias -> realpath
    roots,      \* allowed_roots of the host, guild-wide
    target,     \* the file system: what a path resolves to
    stage,      \* where each handler stands
    cwd,        \* its resolved cwd
    thread,     \* its Discord thread: none, open or deleted
    session,    \* the status of its session, none before it is inserted
    job,        \* the runner's work on it: none, queued, checked, adapted, refused, over
    changes, crashes,
    \* history
    allowed,    \* roots that covered the command's cwd at its queueing or later
    raced       \* commands whose create transaction overlapped with a removal of the tool

adminVars == <<tool, removing, mapped, alias, roots, target, changes>>
startVars == <<stage, cwd, thread>>
jobVars   == <<session, job>>
history   == <<allowed, raced>>
vars == <<adminVars, startVars, jobVars, crashes, history>>

Stages == {"new", "mapped", "resolved", "canonical", "allowed", "checked", "threaded",
           "opened", "undo", "done", "lost"}

TypeOK ==
    /\ tool \in [Tools -> {"absent", "disabled", "enabled"}]
    /\ removing \in Tools \cup {Nothing} /\ mapped \subseteq Tools
    /\ alias \in [Aliases -> Paths \cup {Nothing}]
    /\ roots \subseteq Paths \ Denied /\ target \in [Paths -> Paths]
    /\ stage \in [Commands -> Stages]
    /\ cwd \in [Commands -> Paths \cup {Nothing}]
    /\ thread \in [Commands -> {"none", "open", "deleted"}]
    /\ session \in [Commands -> {"none", "creating", "running", "stopping", "stopped", "failed"}]
    /\ job \in [Commands -> {"none", "queued", "checked", "adapted", "refused", "over"}]
    /\ changes \in 0..MaxAdmin /\ crashes \in 0..MaxCrashes
    /\ allowed \subseteq Commands /\ raced \subseteq Commands
    /\ \A c \in Commands : (session[c] = "none") = (job[c] = "none")

Init ==
    /\ tool = [t \in Tools |-> "enabled"] /\ removing = Nothing /\ mapped = Tools
    /\ roots \in SUBSET (Paths \ Denied) \ {{}}
    /\ target = [p \in Paths |-> p]
    /\ alias \in [Aliases -> roots]
    /\ stage = [c \in Commands |-> "new"] /\ cwd = [c \in Commands |-> Nothing]
    /\ thread = [c \in Commands |-> "none"]
    /\ session = [c \in Commands |-> "none"] /\ job = [c \in Commands |-> "none"]
    /\ changes = 0 /\ crashes = 0 /\ allowed = {} /\ raced = {}

\* revalidate_cwd: canonical path, denylist, allowed roots.
Valid(p) == target[p] \notin Denied /\ target[p] \in roots

Active(c) == session[c] \in {"creating", "running", "stopping"}
ActiveOf(o) == {c \in Commands : Owner[c] = o /\ Active(c)}

-----------------------------------------------------------------------------
(* Administration.                                                         *)

Change == changes < MaxAdmin /\ changes' = changes + 1
          /\ UNCHANGED <<startVars, jobVars, crashes, raced>>
Recheck == allowed' = allowed \cup {c \in Commands : job[c] # "none" /\ Valid(cwd[c])'}

RegisterTool(t) ==
    /\ Change /\ tool[t] = "absent"
    /\ tool' = [tool EXCEPT ![t] = "disabled"]
    /\ UNCHANGED <<removing, mapped, alias, roots, target, allowed>>

SetEnabled(t) ==
    /\ Change /\ tool[t] # "absent"
    /\ \E e \in {"enabled", "disabled"} : tool' = [tool EXCEPT ![t] = e]
    /\ UNCHANGED <<removing, mapped, alias, roots, target, allowed>>

\* Mutant of Referenced: only running sessions keep the tool.
ReferencedByRunning(t) == \E c \in Commands : ToolOf[c] = t /\ session[c] = "running"
\* Sessions that are neither failed nor orphaned.
Referenced(t) == \E c \in Commands :
                    ToolOf[c] = t /\ session[c] \notin {"none", "failed"}

\* remove_tool counts the sessions in one statement ...
CountSessions(t) ==
    /\ Change /\ removing = Nothing /\ tool[t] # "absent" /\ ~Referenced(t)
    /\ removing' = t
    /\ UNCHANGED <<tool, mapped, alias, roots, target, allowed>>

\* ... and deletes the tool at the end of the transaction.
DeleteTool ==
    /\ removing # Nothing
    /\ tool' = [tool EXCEPT ![removing] = "absent"] /\ removing' = Nothing
    /\ raced' = raced \cup {c \in Commands : ToolOf[c] = removing /\ stage[c] = "opened"}
    /\ UNCHANGED <<mapped, alias, roots, target, changes, startVars, jobVars, crashes, allowed>>

MapTool(t) ==
    /\ Change /\ mapped' \in {mapped \cup {t}, mapped \ {t}}
    /\ UNCHANGED <<tool, removing, alias, roots, target, allowed>>

AddRoot(p) ==
    /\ Change /\ target[p] \notin Denied
    /\ roots' = roots \cup {target[p]}
    /\ UNCHANGED <<tool, removing, mapped, alias, target>> /\ Recheck

RemoveRoot(p) ==
    /\ Change /\ p \in roots /\ roots' = roots \ {p}
    /\ UNCHANGED <<tool, removing, mapped, alias, target, allowed>>

\* An alias also allows its path; removing it leaves the root.
SetAlias(a, p) ==
    /\ Change /\ target[p] \notin Denied
    /\ alias' = [alias EXCEPT ![a] = target[p]]
    /\ roots' = roots \cup {target[p]}
    /\ UNCHANGED <<tool, removing, mapped, target>> /\ Recheck

RemoveAlias(a) ==
    /\ Change /\ alias[a] # Nothing
    /\ alias' = [alias EXCEPT ![a] = Nothing]
    /\ UNCHANGED <<tool, removing, mapped, roots, target, allowed>>

\* Someone replaces a directory of the host by a symbolic link.
SwapLink(p, q) ==
    /\ Change /\ p # q /\ target[q] = q
    /\ target' = [x \in Paths |-> IF target[x] = p THEN q ELSE target[x]]
    /\ UNCHANGED <<tool, removing, mapped, alias, roots>> /\ Recheck

-----------------------------------------------------------------------------
(* _start_handler.                                                         *)

Go(c, from, to) == stage[c] = from /\ stage' = [stage EXCEPT ![c] = to]
Calm == UNCHANGED <<adminVars, jobVars, crashes, history>>

Refuse(c) ==
    /\ stage[c] \in {"new", "mapped", "resolved", "canonical", "allowed", "checked"}
    /\ stage' = [stage EXCEPT ![c] = "done"]
    /\ UNCHANGED <<cwd, thread>> /\ Calm

ResolveChannel(c) ==
    /\ ToolOf[c] \in mapped /\ Go(c, "new", "mapped")
    /\ UNCHANGED <<cwd, thread>> /\ Calm

\* resolve_alias_or_path.
ResolveCwd(c) ==
    /\ Go(c, "mapped", "resolved")
    /\ LET p == IF Cwd[c] \in Aliases THEN alias[Cwd[c]] ELSE Cwd[c]
       IN  p # Nothing /\ cwd' = [cwd EXCEPT ![c] = p]
    /\ UNCHANGED thread /\ Calm

\* The runner answers with the real path.
Canonicalize(c) ==
    /\ Go(c, "resolved", "canonical")
    /\ target[cwd[c]] \notin Denied
    /\ cwd' = [cwd EXCEPT ![c] = target[cwd[c]]]
    /\ UNCHANGED thread /\ Calm

FindRoot(c) ==
    /\ cwd[c] \in roots /\ Go(c, "canonical", "allowed")
    /\ UNCHANGED <<cwd, thread>> /\ Calm

\* The tool is enabled and the owner below the quota: advisory.
PreCheck(c) ==
    /\ Go(c, "allowed", "checked")
    /\ tool[ToolOf[c]] = "enabled" /\ Cardinality(ActiveOf(Owner[c])) < Quota
    /\ UNCHANGED <<cwd, thread>> /\ Calm

CreateThread(c) ==
    /\ Go(c, "checked", "threaded")
    /\ thread' = [thread EXCEPT ![c] = "open"]
    /\ UNCHANGED cwd /\ Calm

\* run_create_saga reads the tool; what it sees may be deleted before it commits.
OpenSaga(c) ==
    /\ tool[ToolOf[c]] = "enabled" /\ Go(c, "threaded", "opened")
    /\ UNCHANGED <<cwd, thread>> /\ Calm

\* Mutant of BelowQuota: the count is not repeated under the lock.
BelowQuotaBefore(c) == TRUE
\* active_session_count under the owner's advisory lock, held to the commit.
BelowQuota(c) == Cardinality(ActiveOf(Owner[c])) < Quota

\* The session, and its create job in the outbox.
Insert(c) ==
    /\ session' = [session EXCEPT ![c] = "creating"]
    /\ job' = [job EXCEPT ![c] = "queued"]
    /\ allowed' = IF Valid(cwd[c]) THEN allowed \cup {c} ELSE allowed

\* The transaction commits and the handler hears of it, or loses the answer.
Commit(c) ==
    /\ (Go(c, "opened", "done") \/ Go(c, "opened", "undo"))
    /\ BelowQuota(c) /\ Insert(c)
    /\ raced' = IF removing = ToolOf[c] THEN raced \cup {c} ELSE raced
    /\ UNCHANGED <<adminVars, cwd, thread, crashes>>

\* Mutant of Fail: no compensation.
FailSilently(c) ==
    /\ Go(c, "threaded", "done") \/ Go(c, "opened", "done")
    /\ UNCHANGED <<cwd, thread>> /\ Calm
\* The saga raises: a check fails or the database does.
Fail(c) ==
    /\ Go(c, "threaded", "undo") \/ Go(c, "opened", "undo")
    /\ UNCHANGED <<cwd, thread>> /\ Calm

\* Best effort: Discord may refuse the deletion.
Compensate(c) ==
    /\ Go(c, "undo", "done")
    /\ thread' = [thread EXCEPT ![c] = "deleted"]
    /\ UNCHANGED cwd /\ Calm
CompensateFails(c) ==
    /\ Go(c, "undo", "lost")
    /\ UNCHANGED <<cwd, thread>> /\ Calm

BotCrash ==
    /\ crashes < MaxCrashes /\ crashes' = crashes + 1
    /\ stage' = [c \in Commands |->
                   IF stage[c] \in {"new", "done"} THEN stage[c] ELSE "lost"]
    /\ UNCHANGED <<adminVars, cwd, thread, jobVars, history>>

-----------------------------------------------------------------------------
(* run_create_job and the ends of a session.                               *)

Runner == UNCHANGED <<adminVars, startVars, history>>

\* Mutant of Revalidated: the runner trusts the stored path.
RevalidatedByBot(c) == TRUE
Revalidated(c) == Valid(cwd[c])

CheckRoot(c) ==
    /\ job[c] = "queued" /\ UNCHANGED <<session, crashes>> /\ Runner
    /\ job' = [job EXCEPT ![c] =
                 CASE session[c] # "creating" -> "over"
                   [] session[c] = "creating" /\ Revalidated(c) -> "checked"
                   [] session[c] = "creating" /\ ~Revalidated(c) -> "refused"]

FetchAdapter(c) ==
    /\ job[c] = "checked" /\ UNCHANGED <<session, crashes>> /\ Runner
    /\ job' = [job EXCEPT ![c] =
                 IF tool[ToolOf[c]] = "enabled" THEN "adapted" ELSE "refused"]

\* _fail_and_notify: a transaction of its own, guarded by the status.
FailSession(c) ==
    /\ job[c] = "refused" /\ UNCHANGED crashes /\ Runner
    /\ job' = [job EXCEPT ![c] = "over"]
    /\ session' = [session EXCEPT ![c] = IF @ = "creating" THEN "failed" ELSE @]

MarkRunning(c) ==
    /\ job[c] = "adapted" /\ Runner /\ UNCHANGED crashes
    /\ job' = [job EXCEPT ![c] = "over"]
    /\ session' = [session EXCEPT ![c] = IF @ = "creating" THEN "running" ELSE @]

\* The runner stops; the job is claimed again later.
RunnerCrash ==
    /\ crashes < MaxCrashes /\ crashes' = crashes + 1
    /\ job' = [c \in Commands |-> IF job[c] \in {"checked", "adapted", "refused"} THEN "queued" ELSE job[c]]
    /\ UNCHANGED session /\ Runner

\* The creation watchdog.
Watchdog(c) ==
    /\ session[c] = "creating" /\ session' = [session EXCEPT ![c] = "failed"]
    /\ UNCHANGED <<job, crashes>> /\ Runner

\* run_stop_saga: the session is stopping until the runner, or the watchdog, ends it.
Stop(c) ==
    /\ session[c] \in {"creating", "running"}
    /\ session' = [session EXCEPT ![c] = "stopping"]
    /\ UNCHANGED <<job, crashes>> /\ Runner
StopJob(c) ==
    /\ session[c] = "stopping" /\ session' = [session EXCEPT ![c] = "stopped"]
    /\ UNCHANGED <<job, crashes>> /\ Runner

Admin ==
    \/ \E t \in Tools : RegisterTool(t) \/ SetEnabled(t) \/ CountSessions(t) \/ MapTool(t)
    \/ DeleteTool
    \/ \E p \in Paths : AddRoot(p) \/ RemoveRoot(p)
    \/ \E a \in Aliases : RemoveAlias(a) \/ \E p \in Paths : SetAlias(a, p)
    \/ \E p, q \in Paths : SwapLink(p, q)

Handler(c) ==
    \/ Refuse(c) \/ ResolveChannel(c) \/ ResolveCwd(c) \/ Canonicalize(c) \/ FindRoot(c)
    \/ PreCheck(c) \/ CreateThread(c) \/ OpenSaga(c) \/ Commit(c) \/ Fail(c)
    \/ Compensate(c) \/ CompensateFails(c)

RunnerSide(c) ==
    \/ CheckRoot(c) \/ FetchAdapter(c) \/ FailSession(c) \/ MarkRunning(c)
    \/ Watchdog(c) \/ Stop(c) \/ StopJob(c)

Next ==
    \/ Admin \/ BotCrash \/ RunnerCrash
    \/ \E c \in Commands : Handler(c) \/ RunnerSide(c)

Spec == Init /\ [][Next]_vars

-----------------------------------------------------------------------------
(* Correctness.                                                            *)

\* The advisory check admits any number of commands; the transaction does not.
QuotaHolds == \A o \in {Owner[c] : c \in Commands} : Cardinality(ActiveOf(o)) <= Quota

\* A session becomes ready only if its workspace was still allowed at some time
\* after it was queued: what the bot found before creating the thread, and any root
\* or link changed since, is not relied on.
ReadyWasAllowed ==
    [][\A c \in Commands : session[c] = "creating" /\ session'[c] = "running"
                             => c \in allowed]_vars

\* A session that may still run has its tool, unless a removal of the tool that
\* counted no sessions overlapped with the transaction or came after its count.
LiveToolExists ==
    \A c \in Commands :
        /\ session[c] \notin {"none", "failed"}
        /\ tool[ToolOf[c]] = "absent"
        => c \in raced

\* "Remove a tool (rejects if sessions exist)".
RemoveRejects ==
    [][\A t \in Tools : tool[t] # "absent" /\ tool'[t] = "absent" => ~Referenced(t)]_vars

\* When a command is over without a session its thread is deleted too, unless the
\* bot crashed or Discord refused.
NoThreadLeft ==
    \A c \in Commands :
        stage[c] = "done" /\ thread[c] = "open" => session[c] # "none"

\* "Compensate thread creation on a failed transaction": and on no other.
ThreadOfSessionStays ==
    \A c \in Commands : thread[c] = "deleted" => session[c] = "none"
=============================================================================
