----------------------------- MODULE TurnExecution -----------------------------
(***************************************************************************)
(* _deliver: one admitted turn from the construction of its ExecSession to the   *)
(* result the ledger stores.  The run of the tool is a task of its own, that of    *)
(* module ExecSession; beside it a monitor polls the session's row, and the job's     *)
(* task waits for the first of the two, cancels both and awaits both.  The session may *)
(* leave its version, a poll may fail and the job be cancelled at any moment.        *)
(***************************************************************************)
EXTENDS ExecSession

CONSTANT MaxOuter     \* bound on the cancellations of the job's own task

ASSUME TurnAssumption == MaxOuter \in Nat /\ MaxOuter < MaxCancels

VARIABLES
    turn,       \* where _deliver stands: build, running, cleanup or over
    valid,      \* the session is running or idle at the turn's lifecycle version
    monitor,    \* its task: off, watching, revoked (it raised) or cancelled
    raised,     \* the exception on its way out: none, revoked or cancelled
    outer,      \* cancellations of the job's task so far
    answer      \* what _deliver gives: a reply, the kind of a notice, or cancelled

turnVars == <<turn, valid, monitor, raised, outer, answer>>
allVars == <<vars, turnVars>>

Notices == {"prompt", "config", "failed", "exit", "timeout"}

TurnTypeOK ==
    /\ turn \in {"build", "running", "cleanup", "over"}
    /\ valid \in BOOLEAN
    /\ monitor \in {"off", "watching", "revoked", "cancelled"}
    /\ raised \in {"none", "revoked", "cancelled"}
    /\ outer \in 0..MaxOuter
    /\ answer \in {"none", "reply", "cancelled"} \cup Notices

\* The variables of ExecSession wait for the start of its process.
TurnInit ==
    /\ Init
    /\ turn = "build" /\ valid = TRUE /\ monitor = "off"
    /\ raised = "none" /\ outer = 0 /\ answer = "none"

\* The process was started, whatever became of it.
Started == monitor # "off"

-----------------------------------------------------------------------------

\* /stop, /archive, /restart or a lost host: versions only grow, so for good.
LeaveVersion ==
    /\ valid /\ valid' = FALSE
    /\ UNCHANGED <<vars, turn, monitor, raised, outer, answer>>

\* build_exec_session or create_subprocess_exec raises: an option-like prompt, an
\* override that cannot be decrypted, an unknown or disabled tool, a lost database.
BuildFails ==
    /\ turn = "build" /\ turn' = "over"
    /\ answer' \in {"prompt", "config", "failed"}
    /\ UNCHANGED <<vars, valid, monitor, raised, outer>>

\* The tasks are created; the first step of the run's takes it to the fork of the leader,
\* before anything can cancel it.
StartRun ==
    /\ turn = "build" /\ turn' = "running"
    /\ monitor' = "watching"
    /\ UNCHANGED <<vars, valid, raised, outer, answer>>

\* The tool, its readers, its deadline and its cleanup move on their own.
Runs(step) == Started /\ step /\ UNCHANGED turnVars
RunStep == Runs(Tool \/ Runner \/ Deadline)

\* Mutant of Revoked: a poll that fails counts as a revocation.
RevokedOrUnknown == TRUE
\* Mutant of Revoked: the monitor looks at a row it read before the run.
RevokedNever == FALSE
\* The poll finds no row: only a query that was answered tells.
Revoked == ~valid

PollRevoked ==
    /\ monitor = "watching" /\ Revoked
    /\ monitor' = "revoked"
    /\ UNCHANGED <<vars, turn, valid, raised, outer, answer>>

\* run_task.cancel() at whichever await the task is; nothing once it is done.
CancelRun ==
    \/ CancelStart \/ Cancel \/ CancelGather \/ CancelReap
    \/ phase = "ended" /\ UNCHANGED vars

StopMonitor == monitor' = IF monitor = "watching" THEN "cancelled" ELSE monitor

\* asyncio.wait returns: a monitor that raised goes before a run that is done.
FirstCompleted ==
    /\ turn = "running" /\ (phase = "ended" \/ monitor = "revoked")
    /\ turn' = "cleanup"
    /\ raised' = IF monitor = "revoked" THEN "revoked" ELSE "none"
    /\ CancelRun /\ StopMonitor
    /\ UNCHANGED <<valid, outer, answer>>

\* The drain's end cancels the job while it builds, waits or awaits both tasks: the
\* gather hands the cancellation on to them.
CancelJob ==
    /\ outer < MaxOuter /\ outer' = outer + 1
    /\ \/ /\ turn = "build" /\ turn' = "over" /\ answer' = "cancelled"
          /\ UNCHANGED <<vars, monitor, raised>>
       \/ /\ turn \in {"running", "cleanup"} /\ turn' = "cleanup"
          /\ raised' = "cancelled"
          /\ CancelRun /\ StopMonitor
          /\ UNCHANGED answer
    /\ UNCHANGED valid

\* Mutant of BothDone: the tasks are cancelled but not awaited.
NothingAwaited == TRUE
\* gather(run_task, monitor_task) is over.
BothDone == phase = "ended" /\ monitor # "watching"

\* What leaves the try block, and the except clause that takes it.
Answer ==
    CASE raised = "cancelled" -> "cancelled"
      [] raised = "revoked" -> "failed"
      [] raised = "none" /\ outcome = "ok" -> "reply"
      [] raised = "none" /\ outcome = "failed" -> "exit"
      [] raised = "none" /\ outcome = "timeout" -> "timeout"

Return ==
    /\ turn = "cleanup" /\ BothDone
    /\ turn' = "over" /\ answer' = Answer
    /\ UNCHANGED <<vars, valid, monitor, raised, outer>>

TurnNext ==
    \/ LeaveVersion \/ BuildFails \/ StartRun \/ RunStep
    \/ PollRevoked \/ FirstCompleted \/ CancelJob \/ Return

TurnSpec == TurnInit /\ [][TurnNext]_allVars

\* The event loop goes on, and a poll is answered at last.  Nothing makes the tool
\* exit, the deadline come or the session leave its version.
TurnFairSpec ==
    /\ TurnSpec
    /\ WF_allVars(BuildFails \/ StartRun)
    /\ WF_allVars(PollRevoked) /\ WF_allVars(FirstCompleted) /\ WF_allVars(Return)
    /\ \A s \in Streams :
         WF_allVars(Runs(Read(s))) /\ WF_allVars(Runs(Eof(s))) /\ WF_allVars(Runs(Discard(s)))
    /\ WF_allVars(Runs(Connected)) /\ WF_allVars(Runs(SeeExit))
    /\ WF_allVars(Runs(EndGrace))
    /\ WF_allVars(Runs(ReadersFinish \/ GiveUpReaders)) /\ WF_allVars(Runs(ReadersGaveUp))
    /\ WF_allVars(Runs(StartReap)) /\ WF_allVars(Runs(ReapOver)) /\ WF_allVars(Runs(Raise))

\* A tool that writes and exits when it can.
ToolGoesOn ==
    /\ \A s \in Streams : WF_allVars(Runs(Write(Leader, s)))
    /\ WF_allVars(Runs(LeaderDone /\ Exit(Leader)))

-----------------------------------------------------------------------------
(* Correctness.                                                            *)

\* When _deliver is over its run is over and nothing of the tool's group is alive,
\* whether it returned, was revoked or was cancelled; with the exceptions of NoSurvivors,
\* and the leader is dead and the answer a failure or none also when the start was cut.
NothingRunsOn ==
    turn = "over" /\ Started =>
        /\ phase = "ended"
        /\ missed = "no" => Group = {}
        /\ missed = "start" => ~Alive(Leader) /\ answer \in {"failed", "cancelled"}

\* A run that ended by itself is discarded and reported as failed only if the session
\* really had left its version: never for a poll that failed.
DiscardedWasRevoked == answer = "failed" /\ Started => ~valid

\* A reply is that of a leader that exited with status 0 by itself, within the kill
\* cap, in a run nobody cancelled.
ReplyIsOwn ==
    answer = "reply" =>
        /\ code = "zero" /\ cancels = 0
        /\ \A s \in Streams : seen[s] <= KillOutput

\* Once the session has left its version the turn ends, whatever the tool does: the
\* session's lock comes free for a restart.
RevokedEnds == ~valid ~> turn = "over"

\* A turn whose tool only needs its output taken ends without the deadline.
TurnEnds == ToolGoesOn => <>(turn = "over")

=============================================================================
