------------------------------ MODULE HostPresence ------------------------------
(***************************************************************************)
(* One runner host as the database sees it: the heartbeats of the runner        *)
(* processes that serve it, one after the other or overlapping, and the janitors'  *)
(* sweeps, which take turns by an advisory lock, mark a silent host offline and      *)
(* fail its sessions when it has been silent for the recovery time.                *)
(***************************************************************************)
EXTENDS Naturals, FiniteSets

CONSTANTS Janitors, Runners,
          MaxDrops,     \* bound on lost lock connections
          Nobody

ASSUME PresenceAssumption == MaxDrops \in Nat /\ Nobody \notin Janitors

Recent  == 0     \* last_heartbeat_at is recent
Silent == 1     \* older than RUNNER_HEARTBEAT_STALE_SECONDS
Lost   == 2     \* older than ORPHAN_RECOVERY_TTL_HOURS

VARIABLES
    lock,       \* the janitor whose connection has the advisory lock
    pooled,     \* a connection that went back to the pool with the lock
    janitor,    \* of each janitor: idle, sweeping or ending (its finally block)
    drops,      \* connections lost so far
    host,       \* runner_hosts.status: online or offline
    age,        \* of last_heartbeat_at
    runner,     \* of each process: off, recovering, up, leaving or over
    beaten,     \* history: processes that sent a heartbeat
    session     \* a session of the host: live or failed (runner_lost)

lockVars == <<lock, pooled, janitor, drops>>
hostVars == <<host, age, runner, beaten, session>>
presenceVars == <<lockVars, hostVars>>

PresenceTypeOK ==
    /\ lock \in Janitors \cup {Nobody} /\ pooled \in BOOLEAN
    /\ janitor \in [Janitors -> {"idle", "sweeping", "ending"}]
    /\ drops \in 0..MaxDrops
    /\ host \in {"online", "offline"} /\ age \in Recent..Lost
    /\ runner \in [Runners -> {"off", "recovering", "up", "leaving", "over"}]
    /\ beaten \subseteq {r \in Runners : runner[r] # "off"}
    /\ session \in {"live", "failed"}

\* A host row exists once a runner has served it, however long ago.
PresenceInit ==
    /\ lock = Nobody /\ pooled = FALSE /\ janitor = [j \in Janitors |-> "idle"] /\ drops = 0
    /\ host \in {"online", "offline"} /\ age \in Recent..Lost
    /\ runner = [r \in Runners |-> "off"] /\ beaten = {} /\ session = "live"

-----------------------------------------------------------------------------
(* Runner processes.                                                       *)

SetRunner(r, from, to) == runner[r] = from /\ runner' = [runner EXCEPT ![r] = to]

\* recover_sessions runs before the first heartbeat; failed sessions stay failed.
Launch(r)  == SetRunner(r, "off", "recovering") /\ UNCHANGED <<lockVars, host, age, beaten, session>>
Recover(r) == SetRunner(r, "recovering", "up") /\ UNCHANGED <<lockVars, host, age, beaten, session>>

\* The upsert of _heartbeat_loop.
Beat(r) ==
    /\ runner[r] = "up" /\ host' = "online" /\ age' = Recent /\ beaten' = beaten \cup {r}
    /\ UNCHANGED <<lockVars, runner, session>>

\* The services are cancelled, then _mark_runner_offline writes, or fails to.
Leave(r) == SetRunner(r, "up", "leaving") /\ UNCHANGED <<lockVars, host, age, beaten, session>>
MarkOffline(r) ==
    /\ SetRunner(r, "leaving", "over") /\ host' \in {"offline", host}
    /\ UNCHANGED <<lockVars, age, beaten, session>>

RunnerCrash(r) ==
    /\ runner[r] \in {"recovering", "up", "leaving"}
    /\ runner' = [runner EXCEPT ![r] = "over"]
    /\ UNCHANGED <<lockVars, host, age, beaten, session>>

\* Heartbeats may be late; hours pass without one only when no loop runs that has
\* reached the database.
Serving(r) == runner[r] = "up" /\ r \in beaten
Age ==
    /\ age < Lost /\ age' = age + 1
    /\ age = Silent => \A r \in Runners : ~Serving(r)
    /\ UNCHANGED <<lockVars, host, runner, beaten, session>>

-----------------------------------------------------------------------------
(* Janitors.                                                               *)

Acquire(j) ==
    /\ janitor[j] = "idle" /\ lock = Nobody /\ ~pooled
    /\ lock' = j /\ janitor' = [janitor EXCEPT ![j] = "sweeping"]
    /\ UNCHANGED <<pooled, drops, hostVars>>

\* Mutant of Fails: a silent host's sessions fail at once.
FailsWhenSilent == session = "live" /\ age >= Silent
\* The host is offline and its heartbeat older than the recovery time.
Fails == session = "live" /\ age = Lost

\* sweep_runner_heartbeat_orphans, one transaction of the sweep.
SweepOrphans(j) ==
    /\ janitor[j] = "sweeping"
    /\ host' = IF host = "online" /\ age >= Silent THEN "offline" ELSE host
    /\ session' = IF Fails /\ host' = "offline" THEN "failed" ELSE session
    /\ UNCHANGED <<lockVars, age, runner, beaten>>

\* The body returns or is cancelled.
EndSweep(j) ==
    /\ janitor[j] = "sweeping" /\ janitor' = [janitor EXCEPT ![j] = "ending"]
    /\ UNCHANGED <<lock, pooled, drops, hostVars>>

Unlock(j) == lock' = IF lock = j THEN Nobody ELSE lock
Release(j) ==
    /\ janitor[j] = "ending" /\ janitor' = [janitor EXCEPT ![j] = "idle"]
    /\ Unlock(j) /\ UNCHANGED <<pooled, drops, hostVars>>

\* Mutant of ReleaseFails: the connection goes back to the pool as it is.
ReleaseFailsPooling(j) ==
    /\ janitor[j] = "ending" /\ janitor' = [janitor EXCEPT ![j] = "idle"]
    /\ Unlock(j) /\ pooled' = (pooled \/ lock = j)
    /\ UNCHANGED <<drops, hostVars>>
\* The unlock raises: the connection is invalidated, and the lock goes with it.
ReleaseFails(j) ==
    /\ janitor[j] = "ending" /\ janitor' = [janitor EXCEPT ![j] = "idle"]
    /\ Unlock(j) /\ UNCHANGED <<pooled, drops, hostVars>>

\* The lock's connection breaks; the sweep uses others and goes on.
DropLock(j) ==
    /\ lock = j /\ drops < MaxDrops
    /\ lock' = Nobody /\ drops' = drops + 1
    /\ UNCHANGED <<pooled, janitor, hostVars>>

PresenceNext ==
    \/ \E r \in Runners : Launch(r) \/ Recover(r) \/ Beat(r) \/ Leave(r) \/ MarkOffline(r)
                          \/ RunnerCrash(r)
    \/ Age
    \/ \E j \in Janitors : Acquire(j) \/ SweepOrphans(j) \/ EndSweep(j) \/ Release(j)
                           \/ ReleaseFails(j) \/ DropLock(j)

PresenceSpec == PresenceInit /\ [][PresenceNext]_presenceVars

\* Processes run their loops.
PresenceFairSpec ==
    /\ PresenceSpec
    /\ \A r \in Runners : WF_presenceVars(Recover(r)) /\ WF_presenceVars(Beat(r)) /\ WF_presenceVars(MarkOffline(r))
    /\ \A j \in Janitors : WF_presenceVars(EndSweep(j)) /\ WF_presenceVars(Release(j) \/ ReleaseFails(j))

-----------------------------------------------------------------------------
(* Correctness.                                                            *)

\* No session is failed as lost while a runner that has sent a heartbeat is up: not by
\* a late heartbeat, nor by the offline mark of an older process of the host.
LiveRunnerKeepsSessions ==
    [][session = "live" /\ session' = "failed" => ~ \E r \in Runners : Serving(r)]_presenceVars

\* And every sweep makes way for the next one.
LockComesFree == []<>(lock = Nobody /\ ~pooled)
=============================================================================
