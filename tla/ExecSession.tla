------------------------------ MODULE ExecSession ------------------------------
(***************************************************************************)
(* ExecSession.run: one process group, two bounded readers of its output and    *)
(* the cleanup that follows an exit, a deadline or a cancellation.  A unit of     *)
(* data stands for a block of bytes; the pipe and the pty variants differ only in   *)
(* what carries the output.  Timers may fire at any moment: no duration is modelled. *)
(* (The pty's callback also takes data during a cleanup, whose data nobody gets.)   *)
(***************************************************************************)
EXTENDS Integers, FiniteSets

CONSTANTS Procs,        \* names for the processes the tool may have
          Leader,       \* the one started by create_subprocess_exec
          Streams,      \* stdout (or the pty) and stderr
          PipeSize,     \* units the kernel buffers for a stream
          MaxOutput,    \* max_output_bytes
          KillOutput,   \* kill_output_bytes
          MaxWrites,    \* bound on the units written to each stream
          MaxCancels    \* bound on the cancellations of the caller

ASSUME ExecAssumption ==
    /\ Leader \in Procs
    /\ PipeSize \in Nat \ {0} /\ MaxOutput \in Nat \ {0}
    /\ KillOutput \in Nat /\ KillOutput >= MaxOutput
    /\ MaxWrites \in Nat /\ MaxCancels \in Nat

VARIABLES
    where,      \* of each process: unborn, group, escaped (setsid) or dead
    holds,      \* the streams it has open for writing
    sent,       \* units written to each stream
    pipe,       \* units in the kernel's buffer
    seen,       \* units the reader took
    kept,       \* units it kept
    reader,     \* of each stream: none yet, reading, eof or cut (cancelled)
    killed,     \* _killed_for_output
    code,       \* returncode of the leader: none, zero, nonzero or signal
    phase,      \* where run() stands
    reason,     \* why the cleanup runs: none, timeout or cancelled
    outcome,    \* what run() gave its caller
    reaper,     \* the shielded _reap task: none, reaping or done
    cancels,    \* cancellations so far
    missed      \* history: the await at which a cancellation left run() without its
                \* cleanup: that of the start, or that of the cancelled readers

procVars   == <<where, holds, code>>
dataVars   == <<sent, pipe, seen, kept, killed>>
runVars    == <<phase, reason, outcome, reaper, cancels, missed>>
vars == <<procVars, dataVars, reader, runVars>>

Alive(p)  == where[p] \in {"group", "escaped"}
Group     == {p \in Procs : where[p] = "group"}
Open(s)   == \E p \in Procs : s \in holds[p]
Smaller(a, b) == IF a < b THEN a ELSE b

TypeOK ==
    /\ where \in [Procs -> {"unborn", "group", "escaped", "dead"}]
    /\ holds \in [Procs -> SUBSET Streams]
    /\ \A p \in Procs : holds[p] # {} => Alive(p)
    /\ sent \in [Streams -> 0..MaxWrites] /\ pipe \in [Streams -> 0..PipeSize]
    /\ seen \in [Streams -> Nat] /\ kept \in [Streams -> 0..MaxOutput]
    /\ reader \in [Streams -> {"none", "reading", "eof", "cut"}]
    /\ killed \in BOOLEAN
    /\ code \in {"none", "zero", "nonzero", "signal"}
    /\ (code = "none") = Alive(Leader)
    /\ phase \in {"starting", "polling", "grace", "waiting", "cutting", "gather", "reap",
                  "ended"}
    /\ reason \in {"none", "timeout", "cancelled"}
    /\ outcome \in {"none", "ok", "failed", "timeout", "cancelled"}
    /\ (outcome = "none") = (phase # "ended")
    /\ reaper \in {"none", "reaping", "done"}
    /\ cancels \in 0..MaxCancels /\ missed \in {"no", "start", "gather"}

\* create_subprocess_exec has forked the leader and awaits its pipes.
Init ==
    /\ where = [p \in Procs |-> IF p = Leader THEN "group" ELSE "unborn"]
    /\ holds = [p \in Procs |-> IF p = Leader THEN Streams ELSE {}]
    /\ sent = [s \in Streams |-> 0] /\ pipe = [s \in Streams |-> 0]
    /\ seen = [s \in Streams |-> 0] /\ kept = [s \in Streams |-> 0]
    /\ reader = [s \in Streams |-> "none"]
    /\ killed = FALSE /\ code = "none"
    /\ phase = "starting" /\ reason = "none" /\ outcome = "none"
    /\ reaper = "none" /\ cancels = 0 /\ missed = "no"

-----------------------------------------------------------------------------
(* The tool's processes.                                                   *)

Fork(p, q) ==
    /\ Alive(p) /\ where[q] = "unborn"
    /\ where' = [where EXCEPT ![q] = where[p]]
    /\ holds' = [holds EXCEPT ![q] = holds[p]]
    /\ UNCHANGED <<code, dataVars, reader, runVars>>

\* setsid: not for the leader, which already leads the group.
Leave(p) ==
    /\ p # Leader /\ where[p] = "group"
    /\ where' = [where EXCEPT ![p] = "escaped"]
    /\ UNCHANGED <<holds, code, dataVars, reader, runVars>>

CloseFd(p, s) ==
    /\ s \in holds[p]
    /\ holds' = [holds EXCEPT ![p] = @ \ {s}]
    /\ UNCHANGED <<where, code, dataVars, reader, runVars>>

\* A write blocks while the buffer is full.
Write(p, s) ==
    /\ s \in holds[p] /\ pipe[s] < PipeSize /\ sent[s] < MaxWrites
    /\ sent' = [sent EXCEPT ![s] = @ + 1]
    /\ pipe' = [pipe EXCEPT ![s] = @ + 1]
    /\ UNCHANGED <<seen, kept, killed, procVars, reader, runVars>>

\* A process is done; the leader's exit status is the run's.
Exit(p) ==
    /\ Alive(p)
    /\ where' = [where EXCEPT ![p] = "dead"]
    /\ holds' = [holds EXCEPT ![p] = {}]
    /\ code' \in (IF p = Leader THEN {"zero", "nonzero"} ELSE {code})
    /\ UNCHANGED <<dataVars, reader, runVars>>

\* os.killpg(pid, SIGKILL): every process still in the group.
Killpg ==
    /\ where' = [p \in Procs |-> IF p \in Group THEN "dead" ELSE where[p]]
    /\ holds' = [p \in Procs |-> IF p \in Group THEN {} ELSE holds[p]]
    /\ code' = IF code = "none" THEN "signal" ELSE code

-----------------------------------------------------------------------------
(* _read_bounded, readable and _discard.                                   *)

\* Mutant of Taken: the reader stops once it kept enough.
TakenUntilFull(s) == IF kept[s] < MaxOutput THEN 1..pipe[s] ELSE {}
Taken(s) == 1..pipe[s]

Keep(s, n) == Smaller(MaxOutput, kept[s] + n)

\* One read; past the kill cap the group is killed, once.
Read(s) ==
    /\ reader[s] = "reading" /\ phase # "ended"
    /\ \E n \in Taken(s) :
         /\ pipe' = [pipe EXCEPT ![s] = @ - n]
         /\ seen' = [seen EXCEPT ![s] = @ + n]
         /\ kept' = [kept EXCEPT ![s] = Keep(s, n)]
         /\ \/ /\ seen[s] + n > KillOutput /\ ~killed
               /\ killed' = TRUE /\ Killpg
            \/ /\ seen[s] + n <= KillOutput \/ killed
               /\ UNCHANGED <<killed, procVars>>
    /\ UNCHANGED <<sent, reader, runVars>>

\* Mutant of AtEof: the reader does not wait for what is in the buffer.
AtEofEarly(s) == ~Open(s)
AtEof(s) == pipe[s] = 0 /\ ~Open(s)

Eof(s) ==
    /\ reader[s] = "reading" /\ AtEof(s)
    /\ reader' = [reader EXCEPT ![s] = "eof"]
    /\ UNCHANGED <<procVars, dataVars, runVars>>

Discard(s) ==
    /\ reaper = "reaping" /\ pipe[s] > 0
    /\ pipe' = [pipe EXCEPT ![s] = 0]
    /\ UNCHANGED <<sent, seen, kept, killed, procVars, reader, runVars>>

ReadersDone == \A s \in Streams : reader[s] # "reading"
CutReaders == reader' = [s \in Streams |-> IF reader[s] = "reading" THEN "cut" ELSE reader[s]]

-----------------------------------------------------------------------------
(* run: _await_streams and the two endings.                                *)

\* Mutant of Verdict: the kill for output is forgotten.
VerdictByCode == IF code = "zero" THEN "ok" ELSE "failed"
\* _result.
Verdict == IF killed \/ code # "zero" THEN "failed" ELSE "ok"

Finish == phase' = "ended" /\ outcome' = Verdict
          /\ UNCHANGED <<reason, reaper, cancels, missed>>

\* create_subprocess_exec returns: the readers start and the try block is entered.
Connected ==
    /\ phase = "starting" /\ phase' = "polling"
    /\ reader' = [s \in Streams |-> "reading"]
    /\ UNCHANGED <<procVars, dataVars, reason, outcome, reaper, cancels, missed>>

\* Cancelled before that: asyncio closes its transport, which kills the leader, and not
\* the group; the try block with its handler was never entered.
CancelStart ==
    /\ phase = "starting" /\ cancels < MaxCancels
    /\ cancels' = cancels + 1 /\ missed' = "start"
    /\ phase' = "ended" /\ outcome' = "cancelled"
    /\ where' = [where EXCEPT ![Leader] = "dead"]
    /\ holds' = [holds EXCEPT ![Leader] = {}]
    /\ code' = IF code = "none" THEN "signal" ELSE code
    /\ UNCHANGED <<dataVars, reader, reason, reaper>>

\* The poll sees a return code.
SeeExit ==
    /\ phase = "polling" /\ code # "none"
    /\ phase' = "grace"
    /\ UNCHANGED <<procVars, dataVars, reader, reason, outcome, reaper, cancels, missed>>

\* Mutant of EndGrace: the group is left alone once the readers are done.
EndGraceUnkilled ==
    /\ phase = "grace" /\ phase' = "waiting"
    /\ UNCHANGED <<procVars, dataVars, reader, reason, outcome, reaper, cancels, missed>>
\* The readers are done or the grace is over: the rest of the group is killed.
EndGrace ==
    /\ phase = "grace" /\ Killpg
    /\ phase' = "waiting"
    /\ UNCHANGED <<dataVars, reader, reason, outcome, reaper, cancels, missed>>

\* Nothing is pending.
ReadersFinish ==
    /\ phase = "waiting" /\ ReadersDone /\ Finish
    /\ UNCHANGED <<procVars, dataVars, reader>>

\* A descriptor is still open outside the group: the readers are cancelled.
GiveUpReaders ==
    /\ phase = "waiting" /\ ~ReadersDone /\ CutReaders
    /\ phase' = "cutting"
    /\ UNCHANGED <<procVars, dataVars, reason, outcome, reaper, cancels, missed>>

ReadersGaveUp ==
    /\ phase = "cutting" /\ Finish
    /\ UNCHANGED <<procVars, dataVars, reader>>

\* The try block is left by an exception.
Interrupt(why) ==
    /\ phase \in {"polling", "grace", "waiting", "cutting"}
    /\ CutReaders
    /\ phase' = "gather" /\ reason' = why
    /\ UNCHANGED <<procVars, dataVars, outcome, reaper, missed>>

Deadline == Interrupt("timeout") /\ UNCHANGED cancels

\* The first cancellation of the task, or one before the cleanup.
Cancel ==
    /\ cancels < MaxCancels /\ cancels' = cancels + 1
    /\ Interrupt("cancelled")

\* gather(out_task, err_task) returns; _reap starts by killing the group.
StartReap ==
    /\ phase = "gather" /\ Killpg
    /\ phase' = "reap" /\ reaper' = "reaping"
    /\ UNCHANGED <<dataVars, reader, reason, outcome, cancels, missed>>

\* Cancelled while it awaits that gather: the handler is left without _reap.
CancelGather ==
    /\ phase = "gather" /\ cancels < MaxCancels
    /\ cancels' = cancels + 1 /\ missed' = "gather"
    /\ phase' = "ended" /\ outcome' = "cancelled"
    /\ UNCHANGED <<procVars, dataVars, reader, reason, reaper>>

\* Cancelled while it awaits the shield: _reap, if it is not over, goes on by itself.
CancelReap ==
    /\ phase = "reap" /\ cancels < MaxCancels
    /\ cancels' = cancels + 1
    /\ phase' = "ended" /\ outcome' = "cancelled"
    /\ UNCHANGED <<procVars, dataVars, reader, reason, reaper, missed>>

\* Everything is closed, or _REAP_TIMEOUT_SECONDS are over.
ReapOver ==
    /\ reaper = "reaping" /\ reaper' = "done"
    /\ UNCHANGED <<procVars, dataVars, reader, phase, reason, outcome, cancels, missed>>

Raise ==
    /\ phase = "reap" /\ reaper = "done"
    /\ phase' = "ended" /\ outcome' = reason
    /\ UNCHANGED <<procVars, dataVars, reader, reason, reaper, cancels, missed>>

Tool ==
    \/ \E p, q \in Procs : Fork(p, q)
    \/ \E p \in Procs : Leave(p) \/ Exit(p)
    \/ \E p \in Procs, s \in Streams : CloseFd(p, s) \/ Write(p, s)

Runner ==
    \/ \E s \in Streams : Read(s) \/ Eof(s) \/ Discard(s)
    \/ Connected \/ SeeExit \/ EndGrace \/ ReadersFinish \/ GiveUpReaders \/ ReadersGaveUp
    \/ StartReap \/ ReapOver \/ Raise

Next == Tool \/ Runner \/ Deadline \/ CancelStart \/ Cancel \/ CancelGather \/ CancelReap

Spec == Init /\ [][Next]_vars

\* The leader has nothing left to write.
LeaderDone == \A s \in Streams : sent[s] = MaxWrites \/ s \notin holds[Leader]

-----------------------------------------------------------------------------
(* Correctness.                                                            *)

\* When run() is over no process of the group is alive, on whatever path it ended but
\* two: a cancellation of the start leaves what the leader forked (the leader itself is
\* dead), and one of the wait for the cancelled readers, which takes an earlier
\* cancellation or deadline, leaves the group.
NoSurvivors ==
    phase = "ended" =>
        /\ missed = "no" => Group = {}
        /\ missed = "start" => ~Alive(Leader)

\* "cancellation-safe cleanup": the same without the exceptions.
CancellationSafe == phase = "ended" => Group = {}

\* What the caller is given of a stream that came to its end is all that was ever
\* written to it, up to max_output_bytes: by the leader and by its children.
NothingDropped ==
    outcome \in {"ok", "failed"} =>
        \A s \in Streams : reader[s] = "eof" => kept[s] = Smaller(MaxOutput, sent[s])

\* A success is the leader's own exit with status 0 and no output beyond the kill
\* cap, also when the group was killed for output after the leader had exited.
OkIsOwnExit ==
    outcome = "ok" => code = "zero" /\ \A s \in Streams : seen[s] <= KillOutput

\* run() leaves no reader task behind.
NoReaderLeft == phase = "ended" => ReadersDone

=============================================================================
