--------------------------- MODULE ExecSessionProofs ---------------------------
(***************************************************************************)
(* What ExecSession and the turn around it promise for any number of processes   *)
(* and streams and any limits: nothing of the process group survives run(), no       *)
(* reader task is left behind, no output is dropped, a reply is the tool's own         *)
(* success, and a run that ended is only discarded for a session that left its version. *)
(***************************************************************************)
EXTENDS TurnExecution, TLAPS

\* The group stays empty from the moment run() has killed it.
KilledInv ==
    phase \in {"waiting", "cutting", "reap"} \/ (phase = "ended" /\ missed = "no")
        => Group = {}

\* A run that missed its cleanup was cancelled; a cancelled start killed the leader.
MissedInv ==
    /\ missed # "no" => phase = "ended" /\ cancels # 0
    /\ missed = "start" => where[Leader] = "dead"

\* From the moment the readers are cancelled or done none of them reads.
\* There are none before the process is connected.
ReadersInv ==
    /\ phase \in {"cutting", "gather", "reap", "ended"} => ReadersDone
    /\ phase = "starting" => \A s \in Streams : reader[s] = "none"

\* Until _reap discards, what was written is what was read and what is buffered; a
\* stream at its end is empty and nobody can write to it.
DataInv ==
    /\ phase \in {"starting", "polling", "grace", "waiting", "cutting", "gather"} => reaper = "none"
    /\ outcome \in {"ok", "failed"} => reaper = "none"
    /\ \A s \in Streams :
         /\ reaper = "none" => sent[s] = seen[s] + pipe[s]
         /\ kept[s] = Smaller(MaxOutput, seen[s])
         /\ reader[s] = "eof" => pipe[s] = 0 /\ ~Open(s)

\* The leader leads its group until it is dead, and a cleanup has its reason.
CauseInv ==
    /\ where[Leader] \in {"group", "dead"}
    /\ phase \in {"gather", "reap"} => reason # "none"

SafeInv == TypeOK /\ CauseInv

\* ExecSession starts well typed, with its leader alive.
LEMMA SafeInit == Init => SafeInv
<1> SUFFICES ASSUME Init PROVE SafeInv
  OBVIOUS
<1> USE ExecAssumption DEF ExecAssumption, Init
<1>1. /\ where \in [Procs -> {"unborn", "group", "escaped", "dead"}]
      /\ holds \in [Procs -> SUBSET Streams]
      /\ \A p \in Procs : holds[p] # {} => Alive(p)
      /\ where[Leader] = "group" /\ Alive(Leader)
  BY DEF Alive
<1>2. 0 \in 0..MaxWrites /\ 0 \in 0..PipeSize /\ 0 \in 0..MaxOutput /\ 0 \in 0..MaxCancels
  OBVIOUS
<1>3. TypeOK
  BY <1>1, <1>2 DEF TypeOK
<1> QED
  BY <1>1, <1>3 DEF SafeInv, CauseInv

\* A step of the tool's processes, of the readers and of run() one by one.
LEMMA SafeStep == SafeInv /\ [Next]_vars => SafeInv'
<1> SUFFICES ASSUME SafeInv, [Next]_vars PROVE SafeInv'
  OBVIOUS
<1> USE ExecAssumption DEF ExecAssumption, SafeInv, CauseInv
<1>1. ASSUME NEW p \in Procs, NEW q \in Procs, Fork(p, q) PROVE SafeInv'
  BY <1>1 DEF TypeOK, Fork, Alive, dataVars, runVars
<1>2. ASSUME NEW p \in Procs, Leave(p) PROVE SafeInv'
  BY <1>2 DEF TypeOK, Leave, Alive, dataVars, runVars
<1>3. ASSUME NEW p \in Procs, Exit(p) PROVE SafeInv'
  BY <1>3 DEF TypeOK, Exit, Alive, dataVars, runVars
<1>4. ASSUME NEW p \in Procs, NEW s \in Streams, CloseFd(p, s) PROVE SafeInv'
  BY <1>4 DEF TypeOK, CloseFd, Alive, dataVars, runVars
<1>5. ASSUME NEW p \in Procs, NEW s \in Streams, Write(p, s) PROVE SafeInv'
  BY <1>5 DEF TypeOK, Write, Alive, procVars, runVars
<1>6. ASSUME NEW s \in Streams, Read(s) PROVE SafeInv'
  <2>1. PICK n \in Taken(s) :
          /\ pipe' = [pipe EXCEPT ![s] = @ - n]
          /\ seen' = [seen EXCEPT ![s] = @ + n]
          /\ kept' = [kept EXCEPT ![s] = Keep(s, n)]
          /\ (killed' = TRUE /\ Killpg) \/ UNCHANGED <<killed, procVars>>
    BY <1>6 DEF Read
  <2>2. n \in Nat /\ n <= pipe[s] /\ pipe[s] \in 0..PipeSize /\ kept[s] \in 0..MaxOutput
        /\ seen[s] \in Nat
    BY <2>1 DEF Taken, TypeOK
  <2>3. pipe[s] - n \in 0..PipeSize /\ seen[s] + n \in Nat /\ Keep(s, n) \in 0..MaxOutput
    BY <2>2 DEF Keep, Smaller
  <2>4. /\ pipe' \in [Streams -> 0..PipeSize] /\ seen' \in [Streams -> Nat]
        /\ kept' \in [Streams -> 0..MaxOutput]
    BY <2>1, <2>3 DEF TypeOK
  <2>5. UNCHANGED <<sent, reader, phase, reason, outcome, reaper, cancels, missed>>
    BY <1>6 DEF Read, runVars
  <2>6. CASE killed' = TRUE /\ Killpg
    BY <2>4, <2>5, <2>6 DEF TypeOK, Killpg, Group, Alive
  <2>7. CASE UNCHANGED <<killed, procVars>>
    BY <2>4, <2>5, <2>7 DEF TypeOK, procVars, Alive
  <2> QED
    BY <2>1, <2>6, <2>7
<1>7. ASSUME NEW s \in Streams, Eof(s) PROVE SafeInv'
  BY <1>7 DEF TypeOK, Eof, Alive, dataVars, procVars, runVars
<1>8. ASSUME NEW s \in Streams, Discard(s) PROVE SafeInv'
  BY <1>8 DEF TypeOK, Discard, Alive, procVars, runVars
<1>9. CASE Connected \/ SeeExit
  BY <1>9 DEF TypeOK, Connected, SeeExit, Alive, dataVars, procVars
<1>10. CASE EndGrace
  BY <1>10 DEF TypeOK, EndGrace, Killpg, Group, Alive, dataVars
<1>11. CASE ReadersFinish \/ ReadersGaveUp
  BY <1>11 DEF TypeOK, ReadersFinish, ReadersGaveUp, Finish, Verdict, Alive, dataVars, procVars
<1>12. CASE GiveUpReaders
  BY <1>12 DEF TypeOK, GiveUpReaders, CutReaders, Alive, dataVars, procVars
<1>13. CASE StartReap
  BY <1>13 DEF TypeOK, StartReap, Killpg, Group, Alive, dataVars
<1>14. CASE ReapOver \/ Raise
  BY <1>14 DEF TypeOK, ReapOver, Raise, Alive, dataVars, procVars
<1>15. CASE Deadline \/ Cancel
  <2>1. /\ UNCHANGED <<procVars, dataVars, outcome, reaper, missed>>
        /\ phase # "ended" /\ phase' = "gather" /\ reason' \in {"timeout", "cancelled"}
        /\ cancels' = cancels \/ (cancels < MaxCancels /\ cancels' = cancels + 1)
    BY <1>15 DEF Deadline, Cancel, Interrupt
  <2>2. reader' \in [Streams -> {"none", "reading", "eof", "cut"}]
    BY <1>15 DEF Deadline, Cancel, Interrupt, CutReaders, TypeOK
  <2>3. cancels' \in 0..MaxCancels
    BY <2>1 DEF TypeOK
  <2> QED
    BY <2>1, <2>2, <2>3 DEF TypeOK, Alive, dataVars, procVars
<1>16. CASE CancelGather \/ CancelReap
  <2>1. cancels' \in 0..MaxCancels
    BY <1>16 DEF CancelGather, CancelReap, TypeOK
  <2> QED
    BY <1>16, <2>1 DEF TypeOK, CancelGather, CancelReap, Alive, dataVars, procVars
<1>17. CASE CancelStart
  <2>1. cancels' \in 0..MaxCancels
    BY <1>17 DEF CancelStart, TypeOK
  <2>2. /\ where' = [where EXCEPT ![Leader] = "dead"]
        /\ holds' = [holds EXCEPT ![Leader] = {}]
        /\ code' \in {"zero", "nonzero", "signal"}
    BY <1>17 DEF CancelStart, TypeOK
  <2> QED
    BY <1>17, <2>1, <2>2 DEF TypeOK, CancelStart, Alive, dataVars
<1>18. CASE UNCHANGED vars
  BY <1>18 DEF TypeOK, vars, Alive, dataVars, procVars, runVars
<1> QED
  BY <1>1, <1>2, <1>3, <1>4, <1>5, <1>6, <1>7, <1>8, <1>9, <1>10, <1>11, <1>12, <1>13,
     <1>14, <1>15, <1>16, <1>17, <1>18 DEF Next, Tool, Runner

\* ExecSession is well typed for every value of the constants.
THEOREM ExecTypes == Spec => []TypeOK
<1>1. SafeInv => TypeOK
  BY DEF SafeInv
<1> QED
  BY <1>1, SafeInit, SafeStep, PTL DEF Spec

\* Only a process of the group makes another one of the group, and killpg leaves none.
LEMMA KilledStep == SafeInv /\ KilledInv /\ [Next]_vars => KilledInv'
<1> SUFFICES ASSUME SafeInv, KilledInv, [Next]_vars PROVE KilledInv'
  OBVIOUS
<1> USE DEF KilledInv, Group
<1>1. ASSUME NEW p \in Procs, NEW q \in Procs, Fork(p, q) PROVE KilledInv'
  BY <1>1 DEF SafeInv, TypeOK, Fork, Alive, runVars
<1>2. ASSUME NEW p \in Procs, Leave(p) \/ Exit(p) PROVE KilledInv'
  BY <1>2 DEF SafeInv, TypeOK, Leave, Exit, runVars
<1>3. ASSUME NEW p \in Procs, NEW s \in Streams, CloseFd(p, s) \/ Write(p, s) PROVE KilledInv'
  BY <1>3 DEF CloseFd, Write, procVars, runVars
<1>4. ASSUME NEW s \in Streams, Read(s) PROVE KilledInv'
  BY <1>4 DEF SafeInv, TypeOK, Read, Killpg, procVars, runVars
<1>5. ASSUME NEW s \in Streams, Eof(s) \/ Discard(s) PROVE KilledInv'
  BY <1>5 DEF Eof, Discard, procVars, runVars
<1>6. CASE SeeExit \/ Deadline \/ Cancel \/ CancelGather
  BY <1>6 DEF SeeExit, Deadline, Cancel, Interrupt, CancelGather, procVars
<1>7. CASE EndGrace \/ StartReap
  BY <1>7 DEF SafeInv, TypeOK, EndGrace, StartReap, Killpg
<1>8. CASE ReadersFinish \/ GiveUpReaders \/ ReadersGaveUp
  BY <1>8 DEF ReadersFinish, GiveUpReaders, ReadersGaveUp, Finish, procVars
<1>9. CASE ReapOver \/ Raise \/ CancelReap
  BY <1>9 DEF ReapOver, Raise, CancelReap, procVars
<1>10. CASE Connected \/ CancelStart
  BY <1>10 DEF Connected, CancelStart
<1>11. CASE UNCHANGED vars
  BY <1>11 DEF vars, procVars, runVars
<1> QED
  BY <1>1, <1>2, <1>3, <1>4, <1>5, <1>6, <1>7, <1>8, <1>9, <1>10, <1>11
  DEF Next, Tool, Runner

\* The run is over with the cancellation that takes it past its cleanup, and nothing
\* revives a leader.
LEMMA MissedStep == SafeInv /\ MissedInv /\ [Next]_vars => MissedInv'
<1> SUFFICES ASSUME SafeInv, MissedInv, [Next]_vars PROVE MissedInv'
  OBVIOUS
<1> USE ExecAssumption DEF ExecAssumption, MissedInv
<1>1. CASE CancelStart
  BY <1>1 DEF CancelStart, SafeInv, TypeOK
<1>2. CASE CancelGather
  BY <1>2 DEF CancelGather, SafeInv, TypeOK, procVars
<1>3. CASE ~CancelStart /\ ~CancelGather
  <2>1. missed' = missed
    BY <1>3 DEF Next, Tool, Runner, Fork, Leave, Exit, CloseFd, Write, Read, Eof, Discard,
       Connected, SeeExit, EndGrace, ReadersFinish, GiveUpReaders, ReadersGaveUp, Finish,
       StartReap, ReapOver, Raise, Deadline, Cancel, Interrupt, CancelReap, vars, runVars
  <2>2. phase = "ended" => phase' = "ended" /\ cancels' = cancels
    BY <1>3 DEF Next, Tool, Runner, Fork, Leave, Exit, CloseFd, Write, Read, Eof, Discard,
       Connected, SeeExit, EndGrace, ReadersFinish, GiveUpReaders, ReadersGaveUp, Finish,
       StartReap, ReapOver, Raise, Deadline, Cancel, Interrupt, CancelReap, vars, runVars
  <2>3. where[Leader] = "dead" => where'[Leader] = "dead"
    <3>1. ASSUME NEW p \in Procs, NEW q \in Procs, Fork(p, q), where[Leader] = "dead"
          PROVE where'[Leader] = "dead"
      BY <3>1 DEF Fork, SafeInv, TypeOK
    <3>2. ASSUME NEW p \in Procs, Leave(p) \/ Exit(p), where[Leader] = "dead"
          PROVE where'[Leader] = "dead"
      BY <3>2 DEF Leave, Exit, SafeInv, TypeOK
    <3>3. ASSUME Killpg \/ where' = where, where[Leader] = "dead"
          PROVE where'[Leader] = "dead"
      BY <3>3 DEF Killpg, Group
    <3> QED
      BY <1>3, <3>1, <3>2, <3>3 DEF Next, Tool, Runner, CloseFd, Write, Read, Eof, Discard,
         Connected, SeeExit, EndGrace, ReadersFinish, GiveUpReaders, ReadersGaveUp, Finish,
         StartReap, ReapOver, Raise, Deadline, Cancel, Interrupt, CancelReap, vars, procVars
  <2> QED
    BY <2>1, <2>2, <2>3
<1> QED
  BY <1>1, <1>2, <1>3

\* No process of the group outlives run(), however many processes the tool forks, except
\* after a cancellation of the wait for the cancelled readers; and after one of the start,
\* whose leader is dead all the same.
THEOREM GroupIsKilled == Spec => []NoSurvivors
<1>1. Init => KilledInv /\ MissedInv
  BY DEF Init, KilledInv, MissedInv
<1>2. KilledInv /\ MissedInv => NoSurvivors
  BY DEF KilledInv, MissedInv, NoSurvivors, Alive
<1> QED
  BY <1>1, <1>2, SafeInit, SafeStep, KilledStep, MissedStep, PTL DEF Spec

\* Only a reader that is reading changes, and phases only follow the readers' end.
LEMMA ReadersStep == SafeInv /\ ReadersInv /\ [Next]_vars => ReadersInv'
<1> SUFFICES ASSUME SafeInv, ReadersInv, [Next]_vars PROVE ReadersInv'
  OBVIOUS
<1> USE DEF ReadersInv, ReadersDone
<1>1. CASE Tool
  BY <1>1 DEF Tool, Fork, Leave, Exit, CloseFd, Write, runVars
<1>2. ASSUME NEW s \in Streams, Read(s) \/ Discard(s) PROVE ReadersInv'
  BY <1>2 DEF Read, Discard, runVars
<1>3. ASSUME NEW s \in Streams, Eof(s) PROVE ReadersInv'
  BY <1>3 DEF SafeInv, TypeOK, Eof, runVars
<1>4. CASE SeeExit \/ EndGrace \/ ReadersFinish \/ ReadersGaveUp
  BY <1>4 DEF SeeExit, EndGrace, ReadersFinish, ReadersGaveUp, Finish
<1>5. CASE GiveUpReaders \/ Deadline \/ Cancel
  BY <1>5 DEF SafeInv, TypeOK, GiveUpReaders, Deadline, Cancel, Interrupt, CutReaders
<1>6. CASE StartReap \/ ReapOver \/ Raise \/ CancelGather \/ CancelReap
  BY <1>6 DEF StartReap, ReapOver, Raise, CancelGather, CancelReap
<1>7. CASE Connected \/ CancelStart
  BY <1>7 DEF Connected, CancelStart
<1>8. CASE UNCHANGED vars
  BY <1>8 DEF vars, runVars
<1> QED
  BY <1>1, <1>2, <1>3, <1>4, <1>5, <1>6, <1>7, <1>8 DEF Next, Runner

\* run() leaves no reader task behind on any path.
THEOREM ReadersAreDone == Spec => []NoReaderLeft
<1>1. Init => ReadersInv
  BY DEF Init, ReadersInv
<1>2. ReadersInv => NoReaderLeft
  BY DEF ReadersInv, NoReaderLeft
<1> QED
  BY <1>1, <1>2, SafeInit, SafeStep, ReadersStep, PTL DEF Spec

\* No action of the tool or of a reader makes a unit of output vanish before _reap.
LEMMA DataStep == SafeInv /\ DataInv /\ [Next]_vars => DataInv'
<1> SUFFICES ASSUME SafeInv, DataInv, [Next]_vars PROVE DataInv'
  OBVIOUS
<1> USE ExecAssumption DEF ExecAssumption
<1>1. ASSUME NEW p \in Procs, NEW q \in Procs, Fork(p, q) PROVE DataInv'
  <2>1. \A s \in Streams : Open(s)' => Open(s)
    BY <1>1 DEF Fork, Open, SafeInv, TypeOK
  <2> QED
    BY <1>1, <2>1 DEF Fork, DataInv, dataVars, runVars
<1>2. ASSUME NEW p \in Procs, Leave(p) PROVE DataInv'
  BY <1>2 DEF Leave, DataInv, Open, dataVars, runVars
<1>3. ASSUME NEW p \in Procs, Exit(p) \/ (\E s \in Streams : CloseFd(p, s)) PROVE DataInv'
  <2>1. \A t \in Streams : Open(t)' => Open(t)
    BY <1>3 DEF Exit, CloseFd, Open, SafeInv, TypeOK
  <2> QED
    BY <1>3, <2>1 DEF Exit, CloseFd, DataInv, dataVars, runVars
<1>4. ASSUME NEW p \in Procs, NEW s \in Streams, Write(p, s) PROVE DataInv'
  <2>1. Open(s) /\ reader[s] # "eof"
    BY <1>4 DEF Write, Open, DataInv
  <2>2. sent'[s] = sent[s] + 1 /\ pipe'[s] = pipe[s] + 1
    BY <1>4 DEF Write, SafeInv, TypeOK
  <2>3. \A t \in Streams : t # s => sent'[t] = sent[t] /\ pipe'[t] = pipe[t]
    BY <1>4 DEF Write, SafeInv, TypeOK
  <2>4. \A t \in Streams : sent[t] \in Nat /\ pipe[t] \in Nat /\ seen[t] \in Nat
    BY DEF SafeInv, TypeOK
  <2> QED
    BY <1>4, <2>1, <2>2, <2>3, <2>4 DEF Write, DataInv, Open, procVars, runVars
<1>5. ASSUME NEW s \in Streams, Read(s) PROVE DataInv'
  <2>1. PICK n \in Taken(s) :
          /\ pipe' = [pipe EXCEPT ![s] = @ - n]
          /\ seen' = [seen EXCEPT ![s] = @ + n]
          /\ kept' = [kept EXCEPT ![s] = Keep(s, n)]
          /\ (killed' = TRUE /\ Killpg) \/ UNCHANGED <<killed, procVars>>
    BY <1>5 DEF Read
  <2>2. UNCHANGED <<sent, reader, phase, reason, outcome, reaper>> /\ reader[s] = "reading"
    BY <1>5 DEF Read, runVars
  <2>3. \A t \in Streams : Open(t)' => Open(t)
    BY <2>1 DEF Killpg, procVars, Open
  <2>4. /\ pipe'[s] = pipe[s] - n /\ seen'[s] = seen[s] + n
        /\ kept'[s] = Smaller(MaxOutput, kept[s] + n) /\ n \in Nat
    BY <2>1 DEF SafeInv, TypeOK, Keep, Taken
  <2>5. \A t \in Streams : t # s => pipe'[t] = pipe[t] /\ seen'[t] = seen[t] /\ kept'[t] = kept[t]
    BY <2>1 DEF SafeInv, TypeOK
  <2>6. \A t \in Streams : sent[t] \in Nat /\ pipe[t] \in Nat /\ seen[t] \in Nat
    BY DEF SafeInv, TypeOK
  <2>7. kept'[s] = Smaller(MaxOutput, seen'[s])
    BY <2>4, <2>6 DEF DataInv, Smaller
  <2>8. reaper' = "none" => sent'[s] = seen'[s] + pipe'[s]
    BY <2>2, <2>4, <2>6 DEF DataInv
  <2> QED
    BY <2>2, <2>3, <2>5, <2>7, <2>8 DEF DataInv
<1>6. ASSUME NEW s \in Streams, Eof(s) PROVE DataInv'
  BY <1>6 DEF Eof, AtEof, DataInv, Open, SafeInv, TypeOK, procVars, dataVars, runVars
<1>7. ASSUME NEW s \in Streams, Discard(s) PROVE DataInv'
  BY <1>7 DEF Discard, DataInv, Open, SafeInv, TypeOK, procVars, runVars
<1>8. CASE SeeExit
  BY <1>8 DEF SeeExit, DataInv, Open, procVars, dataVars
<1>9. CASE EndGrace \/ StartReap
  <2>1. \A t \in Streams : Open(t)' => Open(t)
    BY <1>9 DEF EndGrace, StartReap, Killpg, Open
  <2>2. outcome' \notin {"ok", "failed"}
    BY <1>9 DEF EndGrace, StartReap, SafeInv, TypeOK
  <2> QED
    BY <1>9, <2>1, <2>2 DEF EndGrace, StartReap, DataInv, dataVars
<1>10. CASE ReadersFinish \/ ReadersGaveUp
  BY <1>10 DEF ReadersFinish, ReadersGaveUp, Finish, DataInv, Open, procVars, dataVars
<1>11. CASE GiveUpReaders \/ Deadline \/ Cancel
  <2>1. \A t \in Streams : reader'[t] = "eof" => reader[t] = "eof"
    BY <1>11 DEF GiveUpReaders, Deadline, Cancel, Interrupt, CutReaders
  <2>2. phase \in {"polling", "grace", "waiting", "cutting"} /\ phase' \in {"cutting", "gather"}
        /\ UNCHANGED <<procVars, dataVars, outcome, reaper>>
    BY <1>11 DEF GiveUpReaders, Deadline, Cancel, Interrupt
  <2> QED
    BY <2>1, <2>2 DEF DataInv, Open, procVars, dataVars
<1>12. CASE ReapOver \/ Raise
  <2>1. outcome' \notin {"ok", "failed"} \/ UNCHANGED <<outcome, reaper>>
    BY <1>12 DEF ReapOver, Raise, DataInv, SafeInv, TypeOK, CauseInv
  <2>2. phase' \in {"reap", "ended"} /\ reaper' = "done"
    BY <1>12 DEF ReapOver, Raise, DataInv, SafeInv, TypeOK
  <2> QED
    BY <1>12, <2>1, <2>2 DEF ReapOver, Raise, DataInv, Open, procVars, dataVars
<1>13. CASE CancelGather \/ CancelReap
  BY <1>13 DEF CancelGather, CancelReap, DataInv, Open, procVars, dataVars
<1>14. CASE Connected
  BY <1>14 DEF Connected, DataInv, Open, procVars, dataVars
<1>15. CASE CancelStart
  <2>1. \A t \in Streams : Open(t)' => Open(t)
    BY <1>15 DEF CancelStart, Open, SafeInv, TypeOK
  <2> QED
    BY <1>15, <2>1 DEF CancelStart, DataInv, dataVars
<1>16. CASE UNCHANGED vars
  BY <1>16 DEF vars, DataInv, Open, procVars, dataVars, runVars
<1> QED
  BY <1>1, <1>2, <1>3, <1>4, <1>5, <1>6, <1>7, <1>8, <1>9, <1>10, <1>11, <1>12, <1>13,
     <1>14, <1>15, <1>16 DEF Next, Tool, Runner

\* A caller that gets a result has everything the tool and its children wrote to a
\* stream that came to its end, up to max_output_bytes, however much that is.
THEOREM OutputIsWhole == Spec => []NothingDropped
<1>1. ASSUME Init PROVE DataInv
  <2>1. 0 = Smaller(MaxOutput, 0)
    BY ExecAssumption DEF ExecAssumption, Smaller
  <2>2. \A s \in Streams : /\ sent[s] = 0 /\ seen[s] = 0 /\ pipe[s] = 0 /\ kept[s] = 0
                          /\ reader[s] = "none"
    BY <1>1 DEF Init
  <2>3. reaper = "none"
    BY <1>1 DEF Init
  <2> QED
    BY <2>1, <2>2, <2>3 DEF DataInv
<1>2. SafeInv /\ DataInv => NothingDropped
  BY DEF SafeInv, TypeOK, DataInv, NothingDropped
<1> QED
  BY <1>1, <1>2, SafeInit, SafeStep, DataStep, PTL DEF Spec

\* Below the kill cap as long as nothing was killed for output; a success saw neither;
\* and only a cancellation cancels.
OwnInv ==
    /\ killed \/ \A s \in Streams : seen[s] <= KillOutput
    /\ outcome = "ok" => code = "zero" /\ ~killed
    /\ reason = "cancelled" \/ outcome = "cancelled" => cancels # 0

\* No step takes a success back, and no reader reads on after run() is over.
LEMMA OwnStep == SafeInv /\ OwnInv /\ [Next]_vars => OwnInv'
<1> SUFFICES ASSUME SafeInv, OwnInv, [Next]_vars PROVE OwnInv'
  OBVIOUS
<1> USE DEF OwnInv
<1>1. ASSUME NEW p \in Procs, Exit(p) PROVE OwnInv'
  <2>1. outcome = "ok" => code' = code
    BY <1>1 DEF Exit, SafeInv, TypeOK
  <2> QED
    BY <1>1, <2>1 DEF Exit, dataVars, runVars
<1>2. ASSUME NEW p \in Procs, NEW q \in Procs, Fork(p, q) \/ Leave(p) PROVE OwnInv'
  BY <1>2 DEF Fork, Leave, dataVars, runVars
<1>3. ASSUME NEW p \in Procs, NEW s \in Streams, CloseFd(p, s) \/ Write(p, s) PROVE OwnInv'
  BY <1>3 DEF CloseFd, Write, procVars, dataVars, runVars
<1>4. ASSUME NEW s \in Streams, Read(s) PROVE OwnInv'
  <2>1. outcome' # "ok"
    BY <1>4 DEF Read, runVars, SafeInv, TypeOK
  <2>2. PICK n \in Taken(s) :
          /\ seen' = [seen EXCEPT ![s] = @ + n]
          /\ killed' = TRUE \/ (killed' = killed /\ (seen[s] + n <= KillOutput \/ killed))
    BY <1>4 DEF Read
  <2>3. ASSUME killed' # TRUE, killed = FALSE
        PROVE \A t \in Streams : seen'[t] <= KillOutput
    <3>1. seen'[s] <= KillOutput
      BY <2>2, <2>3 DEF SafeInv, TypeOK
    <3>2. \A t \in Streams : t # s => seen'[t] = seen[t]
      BY <2>2 DEF SafeInv, TypeOK
    <3> QED
      BY <2>3, <3>1, <3>2
  <2>4. killed = TRUE => killed' = TRUE
    BY <2>2
  <2>5. killed \in BOOLEAN /\ UNCHANGED <<reason, outcome, cancels>>
    BY <1>4 DEF Read, runVars, SafeInv, TypeOK
  <2> QED
    BY <2>1, <2>3, <2>4, <2>5
<1>5. ASSUME NEW s \in Streams, Eof(s) \/ Discard(s) PROVE OwnInv'
  BY <1>5 DEF Eof, Discard, procVars, dataVars, runVars
<1>6. CASE SeeExit \/ GiveUpReaders \/ Deadline \/ Cancel \/ ReapOver
  <2>1. cancels \in Nat
    BY ExecAssumption DEF SafeInv, TypeOK, ExecAssumption
  <2> QED
    BY <1>6, <2>1 DEF SeeExit, GiveUpReaders, Deadline, Cancel, Interrupt, ReapOver,
       procVars, dataVars
<1>7. CASE EndGrace \/ StartReap
  <2>1. outcome' # "ok"
    BY <1>7 DEF EndGrace, StartReap, SafeInv, TypeOK
  <2> QED
    BY <1>7, <2>1 DEF EndGrace, StartReap, dataVars
<1>8. CASE ReadersFinish \/ ReadersGaveUp
  BY <1>8 DEF ReadersFinish, ReadersGaveUp, Finish, Verdict, procVars, dataVars
<1>9. CASE CancelGather \/ CancelReap
  <2>1. cancels \in Nat
    BY ExecAssumption DEF SafeInv, TypeOK, ExecAssumption
  <2> QED
    BY <1>9, <2>1 DEF CancelGather, CancelReap, procVars, dataVars
<1>10. CASE Raise
  <2>1. outcome' # "ok"
    BY <1>10 DEF Raise, SafeInv, TypeOK
  <2> QED
    BY <1>10, <2>1 DEF Raise, procVars, dataVars
<1>11. CASE Connected
  BY <1>11 DEF Connected, procVars, dataVars
<1>12. CASE CancelStart
  <2>1. cancels \in Nat
    BY ExecAssumption DEF SafeInv, TypeOK, ExecAssumption
  <2>2. outcome' = "cancelled" /\ phase = "starting" /\ UNCHANGED <<dataVars, reason>>
        /\ cancels' = cancels + 1
    BY <1>12 DEF CancelStart
  <2> QED
    BY <2>1, <2>2 DEF dataVars
<1>13. CASE UNCHANGED vars
  BY <1>13 DEF vars, procVars, dataVars, runVars
<1> QED
  BY <1>1, <1>2, <1>3, <1>4, <1>5, <1>6, <1>7, <1>8, <1>9, <1>10, <1>11, <1>12, <1>13
  DEF Next, Tool, Runner

\* A success is the leader's own exit with status 0, within the kill cap.
THEOREM SuccessIsOwn == Spec => []OkIsOwnExit
<1>1. Init => OwnInv
  BY ExecAssumption DEF Init, OwnInv, ExecAssumption
<1>2. OwnInv => OkIsOwnExit
  BY DEF OwnInv, OkIsOwnExit
<1> QED
  BY <1>1, <1>2, SafeInit, SafeStep, OwnStep, PTL DEF Spec

-----------------------------------------------------------------------------
(* The turn around run().                                                   *)

\* A turn is over once its run is; what it answers has its reason in the run or in the
\* session, and a run nobody interrupted was never cancelled.
TurnInv ==
    /\ turn \in {"build", "running", "cleanup", "over"}
    /\ monitor \in {"off", "watching", "revoked", "cancelled"}
    /\ valid \in BOOLEAN /\ raised \in {"none", "revoked", "cancelled"}
    /\ monitor = "off" => turn \in {"build", "over"}
    /\ turn = "build" => monitor = "off"
    /\ turn = "over" /\ Started => phase = "ended"
    /\ monitor = "revoked" \/ raised = "revoked" => ~valid
    /\ raised = "none" => cancels = 0
    /\ turn \in {"build", "running"} => raised = "none"
    /\ turn # "over" => answer = "none"
    /\ answer = "failed" /\ Started => ~valid
    /\ answer = "reply" => outcome = "ok" /\ cancels = 0
    /\ turn = "over" /\ Started /\ cancels # 0 => answer \in {"failed", "cancelled"}

\* Every step of a turn is a step of its run, or leaves the run alone.
LEMMA TurnRuns == [TurnNext]_allVars => [Next]_vars
<1> SUFFICES ASSUME [TurnNext]_allVars PROVE [Next]_vars
  OBVIOUS
<1>1. CASE LeaveVersion \/ BuildFails \/ StartRun \/ PollRevoked \/ Return
  BY <1>1 DEF LeaveVersion, BuildFails, StartRun, PollRevoked, Return
<1>2. CASE RunStep
  BY <1>2 DEF RunStep, Runs, Next
<1>3. CASE FirstCompleted
  BY <1>3 DEF FirstCompleted, CancelRun, Next
<1>4. CASE CancelJob
  BY <1>4 DEF CancelJob, CancelRun, Next
<1>5. CASE UNCHANGED allVars
  BY <1>5 DEF allVars
<1> QED
  BY <1>1, <1>2, <1>3, <1>4, <1>5 DEF TurnNext

\* A step of the run by itself cancels nothing and takes no outcome back.
LEMMA RunFrame ==
  ASSUME SafeInv, Tool \/ Runner \/ Deadline
  PROVE  /\ cancels' = cancels
         /\ phase = "ended" => phase' = "ended" /\ outcome' = outcome
<1>1. CASE Tool
  BY <1>1 DEF Tool, Fork, Leave, Exit, CloseFd, Write, runVars
<1>2. ASSUME NEW s \in Streams, Read(s) \/ Eof(s) \/ Discard(s)
      PROVE UNCHANGED runVars
  BY <1>2 DEF Read, Eof, Discard
<1>3. CASE Connected \/ SeeExit \/ EndGrace \/ ReadersFinish \/ GiveUpReaders \/ ReadersGaveUp
  BY <1>3 DEF Connected, SeeExit, EndGrace, ReadersFinish, GiveUpReaders, ReadersGaveUp, Finish
<1>4. CASE StartReap \/ ReapOver \/ Raise \/ Deadline
  BY <1>4 DEF StartReap, ReapOver, Raise, Deadline, Interrupt
<1> QED
  BY <1>1, <1>2, <1>3, <1>4 DEF Runner, runVars

\* Only the poll's answer revokes, and only a run that is done ends a turn.
LEMMA TurnStep == SafeInv /\ OwnInv /\ TurnInv /\ [TurnNext]_allVars => TurnInv'
<1> SUFFICES ASSUME SafeInv, OwnInv, TurnInv, [TurnNext]_allVars PROVE TurnInv'
  OBVIOUS
<1> USE DEF TurnInv, Started
<1>1. CASE LeaveVersion
  BY <1>1 DEF LeaveVersion, vars, runVars
<1>2. CASE BuildFails
  BY <1>2 DEF BuildFails, vars, runVars
<1>3. CASE StartRun
  BY <1>3 DEF StartRun, vars, runVars
<1>4. CASE RunStep
  <2>1. cancels' = cancels /\ (phase = "ended" => phase' = "ended" /\ outcome' = outcome)
    BY <1>4, RunFrame DEF RunStep, Runs
  <2>2. UNCHANGED <<turn, valid, monitor, raised, outer, answer>>
    BY <1>4 DEF RunStep, Runs, turnVars
  <2>3. outcome = "ok" => phase = "ended"
    BY DEF SafeInv, TypeOK
  <2> QED
    BY <2>1, <2>2, <2>3
<1>5. CASE PollRevoked
  BY <1>5 DEF PollRevoked, Revoked, vars, runVars
<1>6. CASE FirstCompleted
  <2>1. answer' = "none" /\ turn' = "cleanup" /\ valid' = valid /\ monitor # "off"
    BY <1>6 DEF FirstCompleted
  <2>2. monitor' \in {"revoked", "cancelled"} /\ (monitor' = "revoked" => monitor = "revoked")
    BY <1>6 DEF FirstCompleted, StopMonitor
  <2>3. CASE monitor = "revoked"
    BY <1>6, <2>1, <2>2, <2>3 DEF FirstCompleted
  <2>4. CASE monitor # "revoked"
    <3>1. phase = "ended" /\ raised' = "none"
      BY <1>6, <2>4 DEF FirstCompleted
    <3>2. UNCHANGED vars
      BY <1>6, <3>1 DEF FirstCompleted, CancelRun, CancelStart, Cancel, Interrupt, CancelGather,
           CancelReap
    <3> QED
      BY <1>6, <2>1, <2>2, <2>4, <3>1, <3>2 DEF FirstCompleted, vars, runVars
  <2> QED
    BY <2>3, <2>4
<1>7. CASE CancelJob
  <2>1. CASE turn = "build"
    BY <1>7, <2>1 DEF CancelJob, vars, runVars
  <2>2. CASE turn \in {"running", "cleanup"}
    <3>1. turn' = "cleanup" /\ raised' = "cancelled" /\ valid' = valid /\ answer' = answer
      BY <1>7, <2>2 DEF CancelJob
    <3>2. monitor' \in {"revoked", "cancelled"} /\ (monitor' = "revoked" => monitor = "revoked")
      BY <1>7, <2>2 DEF CancelJob, StopMonitor
    <3> QED
      BY <2>2, <3>1, <3>2
  <2> QED
    BY <1>7, <2>1, <2>2 DEF CancelJob
<1>8. CASE Return
  <2>1. phase = "ended" /\ turn' = "over" /\ answer' = Answer /\ monitor # "off"
        /\ UNCHANGED <<valid, monitor, raised, phase, outcome, cancels>>
    BY <1>8 DEF Return, BothDone, vars, runVars
  <2>2. answer' = "failed" => ~valid
    BY <2>1 DEF Answer, SafeInv, TypeOK, OwnInv
  <2>3. answer' = "reply" => outcome = "ok" /\ cancels = 0
    BY <2>1 DEF Answer, SafeInv, TypeOK, OwnInv
  <2>4. cancels' # 0 => answer' \in {"failed", "cancelled"}
    BY <2>1 DEF Answer, SafeInv, TypeOK
  <2> QED
    BY <2>1, <2>2, <2>3, <2>4
<1>9. CASE UNCHANGED allVars
  BY <1>9 DEF allVars, turnVars, vars, runVars
<1> QED
  BY <1>1, <1>2, <1>3, <1>4, <1>5, <1>6, <1>7, <1>8, <1>9 DEF TurnNext

\* The run of a turn is one of ExecSession.
THEOREM TurnRunsExecSession == TurnSpec => Spec
<1>1. TurnInit => Init
  BY DEF TurnInit
<1> QED
  BY <1>1, TurnRuns, PTL DEF TurnSpec, Spec

\* What holds of the run, and of the turn around it.
LEMMA TurnHolds == TurnSpec => [](SafeInv /\ KilledInv /\ MissedInv /\ OwnInv /\ TurnInv)
<1>1. TurnInit => SafeInv /\ KilledInv /\ MissedInv /\ OwnInv /\ TurnInv
  <2>1. TurnInit => SafeInv
    BY SafeInit DEF TurnInit
  <2>2. TurnInit => KilledInv /\ MissedInv /\ OwnInv
    BY ExecAssumption DEF TurnInit, Init, KilledInv, MissedInv, OwnInv, ExecAssumption
  <2>3. TurnInit => TurnInv
    BY DEF TurnInit, Init, TurnInv, Started
  <2> QED
    BY <2>1, <2>2, <2>3
<1>2. SafeInv /\ KilledInv /\ MissedInv /\ OwnInv /\ TurnInv /\ [TurnNext]_allVars
        => (SafeInv /\ KilledInv /\ MissedInv /\ OwnInv /\ TurnInv)'
  BY TurnRuns, SafeStep, KilledStep, MissedStep, OwnStep, TurnStep
<1> QED
  BY <1>1, <1>2, PTL DEF TurnSpec

\* When a turn is over nothing of its tool's group runs on, on whatever path it ended, with
\* the two exceptions of GroupIsKilled; a turn whose start was cut never answers a reply.
THEOREM TurnLeavesNothing == TurnSpec => []NothingRunsOn
<1>1. KilledInv /\ MissedInv /\ TurnInv => NothingRunsOn
  BY DEF KilledInv, MissedInv, TurnInv, NothingRunsOn, Alive
<1> QED
  BY <1>1, TurnHolds, PTL

\* A turn whose tool ran is reported as failed only if its session left its version.
THEOREM OnlyRevokedIsDiscarded == TurnSpec => []DiscardedWasRevoked
<1>1. TurnInv => DiscardedWasRevoked
  BY DEF TurnInv, DiscardedWasRevoked
<1> QED
  BY <1>1, TurnHolds, PTL

\* A reply comes from the leader's own success in a run that nobody cancelled.
THEOREM RepliesAreOwn == TurnSpec => []ReplyIsOwn
<1>1. SafeInv /\ OwnInv /\ TurnInv => ReplyIsOwn
  BY DEF SafeInv, TypeOK, OwnInv, TurnInv, ReplyIsOwn
<1> QED
  BY <1>1, TurnHolds, PTL
=============================================================================
