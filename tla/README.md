# discode: a verification development

discode runs command-line coding agents on runner hosts and talks to their users in
Discord threads: `/start` opens a thread and a session, every message in the thread
becomes one run of the tool, and the tool's reply is posted back. This directory holds
TLA+ models of the protocols that make this reliable, the TLC runs that check them, and
TLAPS proofs about all of them. Paths below are relative to `src/src/discode` unless they
start with `src/`.

## 1. The system

Five kinds of processes share one PostgreSQL database and one Redis server; nothing else is
shared, and each may be restarted at any time.

| Process | What it does | Talks to |
|---|---|---|
| bot (`bot/`) | Discord interactions and messages; sagas change rows and add outbox rows in one transaction | database, Discord; its relay to Redis |
| relay loop (`queues/relay.py`), one in each producing process | copies due outbox rows to Redis streams | database, Redis |
| runner (`runner/`), one per host, two during a handover | job loops for create/stop/resume and for input; runs tools; control API that posts replies | Redis, database, tool processes, Discord |
| dispatcher (`dispatcher/`), any number | terminal notices, system notices, archive orders | Redis, database, Discord |
| janitor (`janitor/`), any number | periodic sweeps under advisory locks | database, Redis |

A message takes this way: bot (`run_input_saga`: turn row and outbox row) → relay (XADD to
the host's input stream) → the runner's input loop (admission, one session's tasks in a chain) →
`run_input_job` (advisory lock, turn ledger, tool, result) → control API (`post_reply`) →
Discord. A lifecycle command takes the way bot saga → outbox → `runner:jobs:<host>` → the runner's
create/stop/resume handler. Notices take the way outbox → `discord:outbound` → dispatcher →
Discord. Every hop is at-least-once, may be late, and may overtake another.

### Components

For each: state; operations; what is hard; what makes it correct.

**Turn ledger and session lock** (`bot/sagas/input.py`, `runner/saga_input.py`).
`input_turns` rows (status, acceptance number, lifecycle version, result, token) and one
advisory lock per session. Operations: accept, redeliver, admit, complete, post, retire.
Hard: redelivery, reordering, crashes between the admission and the result, two runner
processes, a restart under a running turn. Correct when a tool starts at most once per
message and in acceptance order, the thread sees one truthful outcome, and no turn of before
a restart restores its conversation.

**Session lifecycle** (`bot/session_service.py`, `bot/sagas/create.py`, `runner/saga_create.py`,
`runner/resume_runner.py`, `janitor/timeouts.py`, `db/accessors/supersede.py`). The
`sessions` row: status, `lifecycle_version`, tool token, superseded-by. Operations: create
(also by name, taking over an archived conversation), stop, archive, resume, restart, the
runner's jobs for them, watchdogs and idle sweeps. Hard: jobs late, repeated or lost, and a resume job
that reads in one transaction and writes in another. Correct when the last command wins,
restart is fresh, everything else keeps the conversation, and no state in between lasts.

**Outbox, relay and job streams** (`db/models/redis_outbox.py`, `queues/`, `runner/main.py`).
Outbox rows, stream entries, consumer-group pending lists, a dead-letter hash in Redis. Operations:
write, select a batch with row locks, XADD, commit; read, reclaim, handle, acknowledge,
park; trim and retention. Hard: XADD before commit, failures with or without effect, a
handler that always fails, a trim beside readers. Correct when nothing is lost or dropped
silently and everything is handled or retained in the end.

**Input scheduler** (`runner/main.py:_consume_input_stream`). Tasks, a map of the last task of
each session, a capacity bound, a slot semaphore, the stop flag. Hard: reclaimed entries whose
first task still runs, tails that are forgotten, stop and cancellation at any await. Correct
when the turns of a session run one by one and every entry is done, retained or pending.

**Runner supervision and presence** (`runner/main.py`, `janitor/lifecycle.py`,
`janitor/main.py`, `db/advisory_lock.py`). Host row, heartbeat age, sweep locks on
connections. Hard: an old process marking a host offline under its successor; a lock's
release failing. Correct when a serving host keeps its sessions and sweep locks come free.

**Dispatcher and Discord delivery** (`dispatcher/`). `idempotency_keys` rows locked across
the Discord call; stages `post` and `archive`. Hard: a crash between Discord and the commit,
two dispatchers, one stage of two failing, recovery of dead notices. Correct when a post
shows once per nonce window and nothing is acknowledged undone.

**Reply endpoint** (`runner/control_api.py:post_reply`, `runner/reply_client.py`). A row per chunk: lease,
nonce, outcome; the session's output quota. Hard: a client that gives up while its request goes on,
leases that run out, a session that moves on between check and send. Correct when chunks come in
order, once per nonce window, and `delivered` means all of them.

**Tool execution** (`tools/exec_session.py`). A process group, two bounded readers, a deadline, cancellation.
Hard: descendants that keep the pipe open or leave the group, output past the caps, a second cancellation
in the middle of the cleanup. Correct when nothing of the group survives and a returned result is
whole and true.

**/start, tools, maps, aliases, roots** (`bot/main.py`, `bot/tool_service.py`,
`bot/setup_service.py`, `bot/start_validation.py`). The awaits of one handler against concurrent
administration and the runner's own checks. Correct when quotas hold, workspaces are
checked again, tools stay while referenced, and failed starts leave no thread.

**Typing indicator** (`bot/typing_tracker.py`, `bot/typing_indicator.py`, `bot/turn_tracking.py`). A
counter, a task and a safety timeout per thread, one watcher per turn. Correct when indicator
and counter agree and nothing runs for ever.

**Execution of one turn** (`runner/saga_input.py`: `build_exec_session`, `_deliver`). The run's task and the monitor's, the answer. Hard: the tool's end, a
poll that finds the session gone, a poll that fails, the deadline and a cancellation of the job race, and whichever comes first cancels
the others. Correct when both tasks are over before the turn is, nothing of the tool survives, only a revoked run is discarded, and
a revoked turn ends.

**Administration** (`bot/policies/admin_auth.py`, `bot/session_config_service.py`, `bot/tool_service.py`, `bot/setup_service.py`, the gates in
`bot/main.py`). The guild's role policy, a session's members, a tool's definition, the overrides of a session and the keys that encrypt
them. Operations: every command's permission check, bootstrap and admin role, invitation, override set and clear, tool update,
and the turn that reads what they store. Hard: a check is several lookups with the roles of an earlier moment; bootstrap and role change overlap; two updates are each
validated alone; definition and overrides are read one after the other, and the bot's and the runner's keys rotate apart. Correct when
nobody passes a check who never was permitted, a role is not forgotten, the definition stays valid, and a turn never falls back
on another credential than the session's.

**Without a model**: the adapters and the environment (`tools/`), the registration of commands, redaction,
audit, gauges and metrics, configuration, migrations. Section 7 says why.

## 2. The modules

Every action is one handler or one stretch of a coroutine between two awaits that let another
actor in; a database transaction is one step, and a call to Redis or Discord is a step that may
also fail, with or without effect. `PROJECT.json` ("map") gives the source lines of each definition.

| Module | Models | State ↔ code | Actions ↔ code |
|---|---|---|---|
| `TurnPromise` | what a turn promises until its session's lock is lost | rows of `input_turns`, tool starts, lost locks | accept, start, outcome |
| `TurnLedger` | one session's turns, the relay, its stream and two runner processes | `status`, `version`, `token`: the `sessions` row; `turn*`: `input_turns`; `outbox`, `stream`: messages unpublished, and with an entry not acknowledged; `lock`: the advisory lock; `drops`: how often a job lost it; `pc`, `key`: the place of each `run_input_job` | `Accept` = `run_input_saga`; `Take` … `Ack` = `run_input_job`, `_run_locked`, one action per transaction or post; `Interrupt` = a crash, an exception or a lost runner; `DropLock` = the lock's connection dies; `Stop` … `Fail` = sagas, the runner's stop job and sweeps |
| `SessionLifecycle` | the sessions of one name through every command, job and sweep | columns of `sessions`; `jobs`: published runner jobs, each of which may come again after it ran; `reading`: resume jobs between their two transactions; `turns`: turns from the read of the row to the storing of the result, with the token they were given | `Create` … `Restart` = the bot's sagas; `CreateJob`, `StopJob`, `ResumeRead`, `ResumeWrite` = the runner's handlers; `TurnStart`, `TurnEnd` = `_run_locked`; the rest = the janitor |
| `DeliveryPromise` | what the outbox promises its writers | accepted, handled, parked, closed rows | |
| `JobStream` | outbox row, relays, stream, consumer group, trim | `outbox`, `attempts`: `redis_outbox`; `log`, `lastRead`, `pending`, `deliveries`, `dead`: Redis; `worker`, `local`: `_consume_runner_stream`; `trim`: `trim_acknowledged` between its calls | `SelectBatch`, `Publish`, `CommitBatch`, `AbortBatch` = `_drain_batch`; `ReadNew`, `ClaimPending`, `Handle`, `Ack`, `Park`, `LeavePending` = `_process_runner_message`; `Trim`, `DeletePublished` = the sweeps; `RetryExhausted` = `recover_outbox.py` |
| `InputScheduler` | `_consume_input_stream` and its tasks | `tails`, `inflight`, `stop`: its locals; `state`, `job`, `previous`: the tasks | `ReadNew`, `ClaimPending`, `Admit`, `Park`, `AwaitRoom`, `FindRoom`, `EndBatch`, `LeaveLoop`, `CancelAll`, `EndDrain` = the loop; `Start`, `Succeed`, `Defer`, `GiveUp` = `process` |
| `HostPresence` | runner start-up, heartbeat, offline mark; the janitors' lock and orphan sweep | `host`, `age`: `runner_hosts`; `lock`, `pooled`: the advisory lock and a pooled connection that has it | `Recover`, `Beat`, `MarkOffline` = `_run_runner`, `_heartbeat_loop`; `Acquire` … `Release` = `run_sweep_once`; `SweepOrphans` = `sweep_runner_heartbeat_orphans` |
| `DispatcherDelivery` | notices of one session, their stages and the thread | `finished`, `owner`: `idempotency_keys` and its row lock; `shown`, `known`: what Discord posted and which nonces it remembers | `Take`, `LookAtSession`, `Claim`, `Act`, `Finalize`, `Ack`, `Fail` = the handlers; `ExpireKey` = `sweep_idempotency_keys`; `Replay` = `recover_dispatcher.py` |
| `ReplyPromise` | what `post_reply` promises a turn | visible chunks, the answer | |
| `ReplyDelivery` | requests for one reply | `outcome`, `owner`, `leased`: the chunk's `idempotency_keys` row; `charged`: the quota window | `Claim`, `Check`, `Charge`, `Send`, `Record`, `Finish` = `_send_checkpointed` and its loop; `Release`, `Raise` = its error paths |
| `ExecSession` | one tool process, its descendants and `run()` | `where`, `holds`: process group and descriptors; `pipe`, `seen`, `kept`: each stream; `phase`, `reaper`: where `run()` and `_reap` stand | `Fork`, `Leave`, `CloseFd`, `Write`, `Exit` = the tool; `Connected`, `CancelStart` = the two ends of `create_subprocess_exec`; the rest = `run`, `_read_bounded`, `_reap` |
| `TurnExecution` | `_deliver` around `ExecSession`, whose variables it extends | `turn`, `raised`, `answer`: where `_deliver` stands and what leaves it; `monitor`: the monitor's task; `valid`: what its poll would find | `BuildFails`, `StartRun` = `build_exec_session` and the two tasks; `RunStep` = the run's own steps; `PollRevoked` = the monitor; `FirstCompleted`, `Return` = the wait and the cleanup; `CancelJob` = the drain; `LeaveVersion` = a lifecycle command |
| `StartCommand` | `/start` and administration | `stage`, `cwd`, `thread`: the handler's locals; `tool`, `mapped`, `alias`, `roots`: tables; `target`: the file system | `ResolveChannel` … `Commit` = the handler between its awaits; `Compensate` = its undo; `CheckRoot`, `FetchAdapter`, `MarkRunning`, `FailSession` = `run_create_job`; `Stop`, `StopJob` = the stop saga and its job |
| `Administration` | one guild's permissions, tool definition and session configuration, and a turn that uses them | `policy`: `guild_admin_role_policy`; `invited`: `session_members`; `tool`: `tool_definitions`; `override`: `session_config`; `calls`: the commands between their transactions, with the roles Discord sent; `sealKey`, `openKeys`: `DEPLOYMENT_SECRET_KEY` of bot and runner; `turn`: `build_exec_session` between its reads | `Give`, `Resolve`, `LookUp`, `AskAdmin`, `Admit` = the gates, one action per lookup; `InitPolicy` … `ApplyUpdate` = the services; `FetchAdapter`, `LoadOverrides`, `StartRun` = `build_exec_session`; `ChangeRole`, `DeployBot`, `DeployRunner` = Discord and the operator |
| `TypingTracker` | one thread's indicator | `count`, `current`, `timer`: the tracker's maps; `watcher`: the completion tasks | `NoteUser`, `NoteBot`, `SafetyTimeout` = its methods; `Shutdown`, `StopIndicator`, `Close` = the bot's `close`, while messages still come |

`MC*` modules give TLC small constants, definitions a `.cfg` cannot write, and symmetry. `*Proofs`
modules hold the theorems, three of them for two components each: `SessionProofs`, `RunnerProofs`, `BotProofs`. Where two components meet in one such module,
the second names its specification with a prefix (`DispatchSpec`, `PresenceSpec`, `TypingSpec` and the like for `Init`, `Next`, `TypeOK`). History variables (named so where they are declared) record the past for a
property and are read by no guard of the modelled code. Definitions whose comment starts with
"Mutant of" are plausible mistakes in the definition that follows; no specification uses them.

How the modules meet: `TurnLedger` uses the stream as `JobStream` shows it to be (every accepted row
becomes one or more entries, each delivered again until acknowledged, in any order); it takes
`_deliver` as one step that ends with a token or without (`Reported`), which `TurnExecution` spells out over `ExecSession` (every behaviour of a turn
is one of `ExecSession`: `TurnRunsExecSession`), and the reply endpoint
as posts that succeed, are refused for good, or fail with or without effect, which `ReplyDelivery`
refines. `SessionLifecycle` gives `TurnLedger` the moves of its session (`Lifecycle`), and
`StartCommand` and `HostPresence` the ends of a session's life. What these modules take as an arbitrary refusal of a command, a failing `build_exec_session`
or a change of a tool is decided in `Administration`.

## 3. The runs

`tlc -config <cfg> <module>` with the names below. Every run below passes.

| Run (cfg) | Properties | Bounds, and why they are enough |
|---|---|---|
| `turn_ledger` (`MCTurnLedger`) | `RerunsNeedLostLocks`, `StartedInOrder`, `ReplyIsBacked`, `RestartForgets` | Two messages (order needs two), two runner processes (the lock excludes one), one lifecycle change (a turn is of before or after it; more of them in the next run), one lost lock, after which both processes may work. Entries are repeated without a bound: a message in the stream is one whose entries are not all acknowledged. |
| `turn_progress` (`MCTurnLedgerLive`) | `KeepsPromise`, `QueuedIsSettled` | Two messages, three lifecycle changes, so that archive and resume can come on both sides of a restart; one process, since the lock leaves one at work; it may be lost. No lock is lost: a lost lock lets a second process work, and there is none; the promise binds only until then. |
| `session_lifecycle` (`MCSessionLifecycle`) | `AsLastAsked`, `RestartIsFresh`, `ConversationKept`, `TransientEnds` | Two sessions of one name, so that one inherits from the other; two lifecycle changes each: a command and the one that overtakes its job; two turns at a time, so that one of before a restart ends after it began anew; two tokens a conversation, so that a turn may replace one. |
| `job_stream` (`MCJobStream`) | `UnfinishedIsKept`, `OutageSpendsNothing`, `KeepsPromise`, `RowIsSettled` | One row added twice (a commit that failed), one attempt and two deliveries before it is given up or parked, under fairness; the consumer's crash and the reclaim of its own entry take the place of a second consumer, and the proofs cover any number of rows, relays and consumers. |
| `input_scheduler` (`MCInputScheduler`) | `SerialPerSession`, `NothingLost`, `EveryEntryIsDone` | Four entries: two of one session, one of another, one unreadable; two slots and capacity two, so that the loop meets its bound. The second signal cancels at any await and a new process starts with the pending entries, as after a crash. |
| `dispatcher` (`MCDispatcherDelivery`) | `NothingDropped`, `DoneStaysDone` | A terminal notice (two stages) and an archive order, two dispatchers, duplicated entries, two deliveries, one forgotten nonce; its key may be swept after that. |
| `reply` (`MCReplyDelivery`) | `ShownOncePerWindow`, `OneLateChunk`, `KeepsPromise` | Two chunks (order), two requests (a retry beside its predecessor), a quota of one chunk a window (it refuses the second), one forgotten nonce a chunk. |
| `turn_execution` (`MCTurnExecution`) | `NothingRunsOn`, `NothingDropped`, `DiscardedWasRevoked`, `ReplyIsOwn`, `RevokedEnds`, `TurnEnds` | A leader and a descendant, two streams, pipe of one unit, three units written, kept up to one, killed past two: each cap is met and passed; one cancellation of the job, at any await from the start of the process on, beside the one the cleanup makes. |
| `start_command` (`MCStartCommand`) | `QuotaHolds`, `LiveToolExists`, `NoThreadLeft`, `ReadyWasAllowed` | Two commands of one owner with a quota of one, by path and by alias, two paths, two administrative changes, one crash. No path is denied: one that is can never be an allowed root, which the check needs anyway. A session may be stopped at any time after its creation and counts until its job has run. |
| `typing_tracker` (`MCTypingTracker`) | `CounterIsPending`, `NeverStuck` | Three messages: one whose count is wiped, one counted anew, one more; any of them may come between the start of the shutdown and the end of the connection. |
| `host_presence` (`MCHostPresence`) | `LiveRunnerKeepsSessions`, `LockComesFree` | Two processes of one host, three janitors (one whose lock broke, its successor, one that waits). |
| `administration` (`MCAdministration`) | `ActsWereEntitled`, `StoredToolIsValid`, `GivenWasOffered`, `RoleIsKept` | A manager who is platform administrator, a session's owner, a helper with a role: one for each way to be permitted. Two commands (each race is between two), one change from outside (a role taken away or a key deployed under a command or turn), two override keys (one encrypted, one the resolver may refuse). |

What they show: `RerunsNeedLostLocks`, `StartedInOrder`, `ReplyIsBacked` and the promise together are
the guarantee of the turn ledger: however entries are repeated, reordered or interrupted, a
message's tool runs at most once, in the order of acceptance, and the thread never gets a reply
that the row does not back; if the connection that holds the session's lock is lost under a job that goes on, once more for each such loss at most. `QueuedIsSettled` is its counterpart: a queued turn is settled
unless the session has left its version or an uncertain turn blocks it. `AsLastAsked` says that no late job overturns
the last command. `UnfinishedIsKept` and `NothingLost` say that trim, stop and cancellation drop nothing.
`ShownOncePerWindow` bounds the copies of a reply's chunk by the times Discord forgot its nonce,
which the code cannot exclude. `NothingDropped` of the dispatcher says that an acknowledged notice had all
its stages done, was skipped for a live session, or is retained, and `DoneStaysDone` that entries left over from before a post was recorded, or replayed after, do not
repeat it even once Discord forgot its nonce; only the sweep of the key, a week later, lets a replay post it again. `DiscardedWasRevoked` and `RevokedEnds` are the two sides of the revocation monitor: it stops
nothing that may go on and lets nothing go on that may not. `OutageSpendsNothing` says that an attempt is charged only for an XADD of that very row which Redis refused.
`ActsWereEntitled` is what can be said of a check made of several lookups: at one moment since the command was given the sender was permitted by the roles held in Discord
at that moment, not at each. A command carries the roles of the moment it was given; if its sender has lost one under way, the carried roles may become enough only then, and the
property says no more than that they were (`deprived`, `credible`; section 6 has the case). `GivenWasOffered` says the same of a turn's overrides, and that an unreadable one ends the turn.

`CHECK_DEADLOCK FALSE` is set because each of these systems may come to rest: messages,
commands, administrative changes and crashes are finite here.

State constraints are not used: every bound is a guard on an environment's
action or on a counter (`MaxVersion`, `MaxCopies`, `MaxEntries`, `MaxForgets`, `MaxAdmin`, `MaxCrashes`, `MaxDrops`,
`MaxCancels`, `MaxOuter`, `MaxWrites`, `MaxTurns`, `MaxReports`, `MaxCalls`, `MaxOutside`). A counter that is capped where the code goes on counting (delivery counts) is capped at
the value from which the code no longer tells values apart.

### Fairness

Weak fairness stands for a loop or a task that the event loop goes on running: relays, job loops,
handlers, watchdogs, heartbeats, sweeps, timers with a deadline. Strong fairness stands for something
that is tried again and again and would otherwise have to fail each time: reclaiming a pending entry,
getting a lock that others give back, a call to Redis, Discord or the database in a retried
handler. It is never assumed
- that a handler succeeds, in `RowIsSettled`: the delivery budget must end it, from the local count alone;
- that a delivered lifecycle job arrives, in `TransientEnds`: the watchdogs alone must do;
- that the deadline comes, in `TurnEnds` and `RevokedEnds`, or that descendants exit or close their descriptors; that the leader exits, in `RevokedEnds`
  (`TurnEnds` supposes it in its own antecedent, `ToolGoesOn`: a leader that writes while there is room and exits once it has written);
- that a turn ends, in `NeverStuck`.

`RowIsSettled` supposes that crashes of consumers and aborted commits stop at some time; the code does not tolerate
an unbounded number of them.

`QueuedIsSettled` supposes the same of the runner's failures. `EveryEntryIsDone` asks only
that the process is not told to stop for ever.

## 4. What is proved

`tlapm <module>` checks each of these for every value of the constants that satisfies the
module's named assumption (`ConstantsAssumption`, `LifecycleAssumption`, …): any number of messages, sessions,
processes, chunks, commands and bounds. The run that checks a property and the theorem about it name the same definition.

**`TurnLedgerProofs`.** `LostLockCostsOneRun` holds with any number of lost locks; section 6 has the
run that violates `ExecutedAtMostOnce` with one. Its invariant `LostInv` counts: the jobs that went on without their lock (`Strays`) are no more than the locks lost,
all jobs past the lock are strays but one, and so the starts of a message and the jobs about to start it (`Admitting`), which all read its row as queued
before the first start changed it, are together one more than the losses at most. `StartsInOrder` and `ShowsTheOutcome` hold
in every state until the first loss, and so does the promise of `Implements`: `TurnPromise` binds up to there. None of these is inductive either: a job acts on what it read
transactions ago. `LedgerInv` adds what makes that sound: a job between its lock and its end
holds the lock (`LockHeld`), what it has read of its turn is therefore still so, and no earlier turn
is open (`ReadIsFresh`), entries and outbox rows belong to accepted turns with smaller numbers than the next
(`RowsFirst`), and the row's status says whether the tool ran and what was shown (`RowIsHonest`). `Implements` maps
each step under `LedgerInv` to a step of `TurnPromise` or to a stutter (`RowStep`, `PromiseStep`). `OldTurnsCannotRestoreTokens` needs no lock: `TokenInv`
rests on the version in the UPDATE alone. `TypeCorrect` is the type invariant.

**`SessionProofs`.** `LastCommandStands` is inductive with the types: every transaction compares the status it found.
`RestartStartsFresh` needs `FreshInv`: a resume job between its SELECT and its UPDATE has a version not above the row's, and if the row is
unchanged by the UPDATE's own comparison, also the row's token. `EndIsFinal` is an action property: no transaction selects
a failed or orphaned row. `ConversationStays` is one too: a resume job writes back the token it read, and a turn stores one that continues the token
it was given; both compare the version, and under it `FreshInv` says that the token read is still the row's: only one turn of a session has the row's version, and no resume job is reading then. A session that was
not started has no token to lose (`UnstartedIsBlank`). `TypeCorrect`. About the dispatcher: `PostsAreNotRepeated` rests on `PostsCounted` (a post was shown as often as its nonce was
forgotten, and once more while it is remembered) and needs no lock; `DonePostsStay` rests on the lock, `RowHeld`: between claim and commit
a handler holds the row of its key, and that row is not done. `NoNoticeIsDropped` needs to know what a handler has behind it (`HandlerInv`): one at the archive stage of
a terminal notice has the post done, one at its XACK has a settled notice, and what is settled stays so (`SettledStays`) although keys expire, entries return and
sessions are resumed; `RowsHonest` ties the recorded archive to the mark on the session. `DispatchTypeCorrect`.

**`ReplyDeliveryProofs`.** `ReplyKeepsPromise` (refinement of `ReplyPromise`) rests on `Ordered`: whatever a request's place, the chunks
before it are shown, a chunk recorded as sent is shown, and a shown chunk has all before it. `LateChunkBounded` rests on
`Fence` (a request cleared while the session was open has at most one post to go), `ShownOnce` on
`Deduplicated` (a chunk whose nonce Discord does not remember was shown at most as often as it was forgotten).

**`ExecSessionProofs`.** `GroupIsKilled`: once the group was killed nobody joins it, as only a member forks one (`KilledInv`), and a run that is over has killed it unless a cancellation came during the
start or while the cancelled readers were awaited (`MissedInv`). `OutputIsWhole`:
until `_reap` discards, what was written is what was read and what is buffered, and a stream at its end
is empty with no writer (`DataInv`). `SuccessIsOwn`: a success is the leader's own exit, since whatever kills the group is recorded
before the exit code is looked at (`OwnInv`). `ReadersAreDone`, `ExecTypes`. About `TurnExecution`: `TurnRunsExecSession` carries all of this over to the
turn; `TurnLeavesNothing`, `OnlyRevokedIsDiscarded` and `RepliesAreOwn` rest on `TurnInv`, which relates the place of `_deliver` to that of its two tasks.

**`JobStreamProofs`.** `StreamKeepsPromise` (refinement of `DeliveryPromise`) and `PublishedWasAdded` rest on `AddedInv`: what a relay marks as added is in
the stream although its batch is cut or rolled back. `OutagesAreFree` rests on `RefusedInv`: a row a relay is about to charge was refused to that relay, and its lock
keeps the others away. `NothingUnfinishedIsTrimmed` rests on `TrimInv`: between the sweep's calls the last delivered id only grows and no pending entry appears
below the point the trim will use. `StreamTypes`.

**`RunnerProofs`.** `SessionsAreSerial`: the tasks of a session form a chain through `previous` whose end is `tails` (`ChainInv`). A task ends or starts
only without a predecessor, so it is the first of its chain, and its successor becomes the first. The name a new task gets is free because the loop has room
(`NewTaskIsFree`, a count of a finite set). `NothingIsLost` and `TypeCorrect`: no task is left without its message. About presence:
`SessionsOfServingHostLive` is `LiveRunnerKeepsSessions` for any number of processes and janitors (`ServedInv`: the heartbeat is older than the recovery time only while no
runner that has reached the database is up, whatever mark an older process of the host leaves in its row).

**`AdministrationProofs`.** `NoStranger`: each check implies `MayGive` with the roles the command carries at the step that passes it (`GrantedMayGive`). More roles permit no less (`MayGiveMore`), so the sender's roles of
that moment permit it too unless the sender has lost one, which is recorded from the step that takes it (`AdmittedMayGive`). A command past its check carries the same sender, roles and request (`Evolves`). `RoleNeverForgotten` is an action property: the bootstrap inserts and never overwrites. `TrustBootstraps` (a guild has a role only from a member with
"Manage Server") needs `TrustInv`: an admitted role change has such a member behind it. `ToolStaysValid` needs `ToolInv`: an update that waits to be written, and saw every other,
leaves the definition valid. `TurnsUseTheirOverrides` needs `TurnInv`: a definition never loses its place for a key, and what the configuration offers while the turn is prepared is
recorded. `TypeCorrect`.

**`BotProofs`.** `QuotaIsKept` (with the cardinality of finite sets; only `Commit` adds a session, under the repeated count), `LiveToolStays`
(`ToolInv`: a tool is missing, or about to be, only for commands that overlapped with its removal), `ReadyIsAllowed` (`AllowedInv`: the runner's check
passed only for a workspace allowed since the queueing), `ThreadsAreUndone`, `StartTypes`. About the typing indicator: `CounterIsNeverTooHigh` needs
`OwedInv` and `CountInv`: the watchers that wait are those of the messages counted or wiped, and the count is the size of the first set (`Cardinality` of a finite set that gains or
loses one message at a time) unless a wiped one's watcher took its share.

Every invariant, action property and refinement that a run checks is proved. Only model-checked are the liveness properties, which are outside the prover's reach, as is ENABLED:
`QueuedIsSettled`, `TransientEnds`, `RowIsSettled`, `EveryEntryIsDone`, `RevokedEnds`, `TurnEnds`, `NeverStuck`, `LockComesFree`. Induction
over data and recursive operators are out of reach too; the modules with proofs use neither.

## 5. Atomicity, and what is abstracted everywhere

- A database transaction is one step. Where the code uses `SELECT … FOR UPDATE`, an advisory
  transaction lock or a compare in the UPDATE's WHERE, the step has that guard; where it reads in one transaction and writes in
  another, there are two steps with anything in between.
- A call to Redis or Discord may fail before or after its effect. Discord's nonce suppresses a repeated post until it is forgotten, at any moment.
- Time is not measured: a timeout, lease, window or deadline may come at any moment after it starts. Properties that hold are therefore
  independent of the configured durations.
- Texts, payloads, environment, permissions (outside `Administration`) and identifiers of Discord are model values or arbitrary choices.
- Tokens are named for the turn (`TurnLedger`), or for the session and version that began the conversation and how far it has come (`SessionLifecycle`): a tool may report another
  token after every turn, and one that was given a token is taken to continue its conversation. That is the tool's part. A tool with the token source `sentinel` stores one constant text and keeps the conversation itself.
- The read of the row and the admission of a turn are one step in `SessionLifecycle`; `TurnLedger` separates them.
- `/tool update` never empties a field: Discord requires a value there.

## 6. Further configurations

These are not part of the runs of `PROJECT.json`; they are kept to be run by hand. The first group passes:
`MCDispatcherLive` (`NoticeIsSettled`),
`MCReplyLive` (`ReplyIsAnswered`).

The second group ends in a counterexample, each of one property that states what the repository says of itself.

| Configuration | Property | What the repository says | What the code does |
|---|---|---|---|
| `MCTurnLedger` with `INVARIANT ExecutedAtMostOnce` | `ExecutedAtMostOnce` | `runner/saga_input.py:373` "Fence turns per session, persist results, and retry delivery without re-execution." | The admission upsert compares `status='queued'` but its row count is ignored. A second runner process that gets the advisory lock after the first one's lock connection broke, both having read `queued`, starts the tool too. |
| `MCSessionRegistry` | `RegisteredTransitions` | `specs/state_machine.py:1` "Frozen registry of valid session state transitions." | `/stop` accepts creating and resuming sessions, archive running and stopped ones, restart goes from running, idle or stopped to resuming, and `sweep_stop_timeout` retires archived rows; the registry has none of these. |
| `MCSessionShared` | `SeparateConversations` | `src/docs/operations/incident-playbook.md:10` "Explicit-token tools keep separate conversation identities" | `run_resume_saga` resumes any archived session, also one whose token a successor of the same name already took over. |
| `MCSessionQuota` | `QuotaKept` | `bot/sagas/create.py:39` "Sessions that count toward MAX_ACTIVE_SESSIONS_PER_USER." | `/resume` and `/restart` make rows count again without a look at the limit. |
| `MCSessionRelease` | `FailedStartReleases` | `db/accessors/supersede.py:17` "Make a predecessor resumable again when its successor failed to start." | `release_superseded` matches only a predecessor that is archived at that moment; one that was resumed meanwhile keeps the mark. |
| `MCInputDrain` | `StopEnds` | `runner/main.py:286` "started turns get up to ``drain_timeout_seconds`` to finish" | At `queue_capacity` the loop waits for a task without looking at `stop`; the drain's timer starts only after it. |
| `MCDispatcherArchive` | `LiveThreadsStayOpen` | `dispatcher/handlers/archive_thread.py:28` "A delayed archive (retries can span minutes) must not archive a thread whose session was resumed or restarted in the meantime." | The status is read in a transaction of its own; a session resumed between it and the archive has its thread archived. |
| `MCExecCancel` | `CancellationSafe` | `tools/exec_session.py:47` "Run one process group with bounded output and cancellation-safe cleanup." | `create_subprocess_exec` is awaited before the `try`: a cancellation there leaves the cleanup to asyncio, which kills the leader alone. A second one that comes while the handler awaits the cancelled readers raises before the shielded `_reap` exists. Either way the group is never killed. |
| `MCAdministration` with `INVARIANT NoInvalidTool` | `NoInvalidTool` | `tools/generic.py` and `bot/tool_service.py` hold every stored definition to `validate_contract`; `/tool update` answers "resulting config invalid" otherwise | Two updates of different columns are each checked against the row they read; both columns are written, and the row that results was checked by neither. `get_adapter` refuses it from then on. |
| `MCAdministration` with `INVARIANT NoActOnLostRole` | `NoActOnLostRole` | `bot/policies/admin_auth.py` decides by the guild's admin role and the member's roles | A helper gives `/setup map`, loses a role and is checked with the roles the command carries, when a manager has just made that role the admin role; the helper was never permitted. |
| `MCStartRemove` | `RemoveRejects` | `src/README.md:160` "Remove a tool (rejects if sessions exist)" | The count and the delete are two statements without a lock, and the create transaction does not lock the tool's row. |
| `MCStartThread` | `ThreadOfSessionStays` | `bot/main.py:1568` "Compensate thread creation on a failed transaction." | Any exception of `run_create_saga` deletes the thread, also a commit whose answer was lost; the session then waits in a deleted thread. |
| `MCTypingTracker` with `INVARIANT PendingShown` | `PendingShown` | `bot/main.py:2059` "the indicator stays on while any pending user message is unreplied" | The safety timeout wipes the count but not the watchers, which later take back the count of a newer message. |

The properties of the runs are stated so that they hold beside these: `NothingRunsOn` excepts the cancelled start and the second cancellation
(`missed`), `ActsWereEntitled` a role lost under the command (`deprived`), `StoredToolIsValid` the updates that overlapped (`skewed`), `LiveToolExists` the overlap (`raced`), `NoThreadLeft` a crash and a refusal by Discord,
`CounterIsPending` a count taken for a wiped message (`stolen`).

Three places say something else than the code without a state that could show it in a run of their own. `bot/main.py:266` has `/setup init` open to "anyone with Manage Server OR when no policy exists";
the gate below it denies whoever lacks both the permission and the role, as `InitGranted` has it. `src/README.md:166` says of `base_url` that it is validated and
refused; `/session config set` looks only at its scheme and host, and the addresses are resolved when a turn is built, where a refused one is skipped (`StartRun`).
`src/README.md:96` counts `/tool …` among the commands denied until an admin role exists, and `bot/tool_service.py:4` calls its gate "admin-role gate via is_guild_admin_authorized";
the gate is `_platform_authorized` (`bot/tool_service.py:80`), which looks at `PLATFORM_ADMIN_USER_IDS` and at no role, so that a platform administrator may use `/tool` in a guild without a policy and
a guild's admin may not. `ToolGranted` and `MayGive` follow the code, which `/help` (`_HELP_PERM_TAGS`) agrees with.

## 7. What is not modelled, and why

- **Drift of thread bindings** (`janitor`): its repair needs an outbox payload whose thread differs from its row's, which no writer makes.
- **Diff, help, autocompletion, registration of commands, `/setup sync`, the list of guilds served**: user interface, I/O, or a constant of a deployment.
- **Maps, aliases and roots by owner and guild**: `StartCommand` has one of each; who may set them is in `Administration`.
- **Adapters, schema checks, environment scrubbing, redaction, text normalisation**: pure functions over strings.
- **Audit, metrics, gauges, logging, configuration, engine**: no decision of the protocol reads them.
- **Migrations**: schema history; the constraints in use are read from the models under `db/models`.
- **Retention of events and of the results of closed turns**: no component reads these back. (The other sweeps are modelled: outbox, streams, and the
  dispatcher's idempotency keys; those of reply chunks never expire.)
- **The rate limiter**: an arbitrary delay before a post.

## 8. Plan

Order of work, most important first: turn ledger, session lifecycle, outbox and streams, input scheduler, dispatcher, reply endpoint,
tool execution and the turn around it, `/start`, administration, typing, presence. All of these are written and checked; eight modules hold the proofs. What is left:

1. Composition: the ledger over `JobStream` in place of its own abstract stream, by a refinement of that stream, and over `TurnExecution` in place of its one step.
2. The binding of threads (`bind_session_thread`) and its sweep, once an outbox payload can name another thread than its row.
