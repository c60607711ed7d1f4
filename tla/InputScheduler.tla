------------------------------ MODULE InputScheduler ------------------------------
(***************************************************************************)
(* _consume_input_stream: the runner's loop over input:jobs.  It admits at    *)
(* most Capacity jobs as asyncio tasks, chains the tasks of one session, runs   *)
(* Slots of them at a time, and drains them when the process is told to stop.  *)
(***************************************************************************)
EXTENDS Integers, FiniteSets

CONSTANTS NMessages,    \* entries of the stream, in order
          SessionOf,    \* the session each entry names
          Bad,          \* entries whose payload does not parse
          Slots,        \* concurrency
          Capacity,     \* queue_capacity
          MaxCrashes,   \* bound on the crashes of the process
          NoOne

Messages == 1..NMessages
Tasks    == 1..(Capacity + 1)   \* names for the task objects that are not done

ASSUME SchedulerAssumption ==
    /\ NMessages \in Nat /\ Bad \subseteq Messages
    /\ Slots \in Nat \ {0} /\ Capacity \in Nat \ {0}
    /\ MaxCrashes \in Nat /\ NoOne \notin Tasks

VARIABLES
    next,        \* the first entry not yet read
    pending,     \* entries delivered and not acknowledged
    handled,     \* entries whose handler returned True
    parked,      \* entries in the dead-letter hash
    loop,        \* top, full, batch, drain or over
    batch,       \* messages of the loop's current batch still to be looked at, lowest first
    stop,        \* the stop event
    state,       \* of each task: free, queued or running
    job,         \* its message id
    previous,    \* the task it awaits first
    tails,       \* the last task of each session
    inflight,    \* message ids of the loop's tasks
    before,      \* history: of two tasks not done, which was admitted before which
    crashes      \* crashes so far

streamVars == <<next, pending, handled, parked>>
taskVars   == <<state, job, previous, tails, inflight, before>>
vars == <<streamVars, loop, batch, stop, taskVars, crashes>>

Sessions == {SessionOf[m] : m \in Messages}

Active  == {t \in Tasks : state[t] # "free"}
Running == {t \in Tasks : state[t] = "running"}
HasRoom == Cardinality(Active) < Capacity

TypeOK ==
    /\ next \in 1..(NMessages + 1)
    /\ pending \subseteq 1..(next - 1)
    /\ handled \subseteq Messages \ Bad /\ parked \subseteq Bad
    /\ loop \in {"top", "full", "batch", "drain", "over"}
    /\ batch \subseteq Messages /\ stop \in BOOLEAN
    /\ state \in [Tasks -> {"free", "queued", "running"}]
    /\ job \in [Tasks -> Messages \cup {NoOne}]
    /\ previous \in [Tasks -> Tasks \cup {NoOne}]
    /\ tails \in [Sessions -> Tasks \cup {NoOne}]
    /\ inflight \subseteq Messages
    /\ crashes \in 0..MaxCrashes
    /\ before \subseteq Active \X Active

NoTasks ==
    /\ state' = [t \in Tasks |-> "free"]
    /\ job' = [t \in Tasks |-> NoOne]
    /\ previous' = [t \in Tasks |-> NoOne]
    /\ tails' = [s \in Sessions |-> NoOne]
    /\ inflight' = {} /\ before' = {}

Init ==
    /\ next = 1 /\ pending = {} /\ handled = {} /\ parked = {}
    /\ loop = "top" /\ batch = {} /\ stop = FALSE
    /\ state = [t \in Tasks |-> "free"]
    /\ job = [t \in Tasks |-> NoOne]
    /\ previous = [t \in Tasks |-> NoOne]
    /\ tails = [s \in Sessions |-> NoOne]
    /\ inflight = {} /\ before = {} /\ crashes = 0

-----------------------------------------------------------------------------
(* The loop.                                                               *)

\* claim_pending hands out entries idle for a minute, this loop's own included.
ClaimPending ==
    /\ loop = "top" /\ ~stop /\ HasRoom
    /\ \E B \in SUBSET pending \ {{}} : batch' = B
    /\ loop' = "batch"
    /\ UNCHANGED <<streamVars, stop, taskVars, crashes>>

\* read_new asks for as many entries as there is room for.
ReadNew ==
    /\ loop = "top" /\ ~stop /\ HasRoom
    /\ \E n \in 1..(Capacity - Cardinality(Active)) :
         /\ next + n <= NMessages + 1
         /\ batch' = next..(next + n - 1)
         /\ next' = next + n
         /\ pending' = pending \cup (next..(next + n - 1))
    /\ loop' = "batch"
    /\ UNCHANGED <<handled, parked, stop, taskVars, crashes>>

\* The loop has come to message m: a batch is in the order of the ids.
At(m) == loop = "batch" /\ m \in batch /\ \A n \in batch : m <= n

\* A message that already has a task in this process is passed over.
PassOver(m) ==
    /\ At(m) /\ m \in inflight
    /\ batch' = batch \ {m}
    /\ UNCHANGED <<streamVars, loop, stop, taskVars, crashes>>

\* The next message of the batch needs a task, and there is room for it.
Fresh(m) == At(m) /\ m \notin inflight /\ HasRoom

\* Mutant of Chained: a task does not wait for the tail of its session.
Unchained(s) == NoOne
\* tails.get(sid); a task that is done is awaited at once.
Chained(s) == tails[s]

\* A fresh task object.
NewTask == CHOOSE t \in Tasks : state[t] = "free"

\* create_task behind the last task of the message's session.
Admit(m) ==
    LET s == SessionOf[m]
        t == NewTask
    IN  /\ Fresh(m) /\ m \notin Bad
        /\ state' = [state EXCEPT ![t] = "queued"]
        /\ job' = [job EXCEPT ![t] = m]
        /\ previous' = [previous EXCEPT ![t] = Chained(s)]
        /\ tails' = [tails EXCEPT ![s] = t]
        /\ inflight' = inflight \cup {m}
        /\ before' = before \cup (Active \X {t})
        /\ batch' = batch \ {m}
        /\ UNCHANGED <<streamVars, loop, stop, crashes>>

\* A payload without a session is retained and acknowledged.
Park(m) ==
    /\ Fresh(m) /\ m \in Bad
    /\ parked' = parked \cup {m}
    /\ pending' = pending \ {m}
    /\ batch' = batch \ {m}
    /\ UNCHANGED <<next, handled, loop, stop, taskVars, crashes>>

\* The loop ends and its finally block cancels what is left of the tasks.
CancelAll ==
    /\ loop' = "over" /\ batch' = {}
    /\ NoTasks
    /\ UNCHANGED <<streamVars, stop, crashes>>

\* If the dead-letter write raises, nothing catches it and the loop ends.
ParkRaises(m) == Fresh(m) /\ m \in Bad /\ CancelAll

EndBatch ==
    /\ loop = "batch" /\ batch = {}
    /\ loop' = "top"
    /\ UNCHANGED <<streamVars, batch, stop, taskVars, crashes>>

\* At capacity the loop waits for the end of a task, whatever happens to stop...
AwaitRoom ==
    /\ loop = "top" /\ ~stop /\ ~HasRoom
    /\ loop' = "full"
    /\ UNCHANGED <<streamVars, batch, stop, taskVars, crashes>>

FindRoom ==
    /\ loop = "full" /\ HasRoom
    /\ loop' = "top"
    /\ UNCHANGED <<streamVars, batch, stop, taskVars, crashes>>

\* ...and looks at it before each round.
LeaveLoop ==
    /\ loop = "top" /\ stop
    /\ loop' = "drain"
    /\ UNCHANGED <<streamVars, batch, stop, taskVars, crashes>>

\* The drain ends when the tasks are done or after drain_timeout_seconds.
EndDrain == loop = "drain" /\ CancelAll

\* SIGTERM sets the event; a second one cancels the loop wherever it is.
Signal ==
    /\ loop # "over"
    /\ \/ ~stop /\ stop' = TRUE /\ UNCHANGED <<streamVars, loop, batch, taskVars, crashes>>
       \/ stop /\ CancelAll

\* The service manager starts a runner that ended, or that crashed.
Restart ==
    /\ IF loop = "over" THEN UNCHANGED crashes
                        ELSE crashes < MaxCrashes /\ crashes' = crashes + 1
    /\ loop' = "top" /\ batch' = {} /\ stop' = FALSE
    /\ NoTasks
    /\ UNCHANGED streamVars

-----------------------------------------------------------------------------
(* The tasks.                                                              *)

\* Mutant of Forgotten: a message id stays in inflight when its task ends.
Remembered(m) == UNCHANGED inflight
\* inflight.discard(mid)
Forgotten(m) == inflight' = inflight \ {m}

\* The task is done; whoever awaits it goes on.
End(t) ==
    /\ state' = [state EXCEPT ![t] = "free"]
    /\ job' = [job EXCEPT ![t] = NoOne]
    /\ previous' = [u \in Tasks |-> IF u = t \/ previous[u] = t THEN NoOne ELSE previous[u]]
    /\ tails' = [s \in Sessions |-> IF tails[s] = t THEN NoOne ELSE tails[s]]
    /\ Forgotten(job[t])
    /\ before' = {p \in before : t \notin {p[1], p[2]}}
    /\ UNCHANGED <<next, parked, loop, batch, stop, crashes>>

Ready(t) ==
    state[t] = "queued" /\ previous[t] = NoOne /\ Cardinality(Running) < Slots

\* Its predecessor is done and a slot is free: the handler is called.
Start(t) ==
    /\ Ready(t) /\ ~stop
    /\ state' = [state EXCEPT ![t] = "running"]
    /\ UNCHANGED <<streamVars, loop, batch, stop, job, previous, tails, inflight, before,
                   crashes>>

\* After the stop event it ends without a call and its entry stays pending.
GiveUp(t) ==
    /\ Ready(t) /\ stop
    /\ End(t)
    /\ UNCHANGED <<pending, handled>>

\* The handler returned True; the XACK may still fail.
Succeed(t) ==
    /\ state[t] = "running"
    /\ handled' = handled \cup {job[t]}
    /\ pending' \in {pending, pending \ {job[t]}}
    /\ End(t)

\* Mutant of Defer: a job is acknowledged whatever its handler returned.
DeferAcknowledging(t) ==
    /\ state[t] = "running"
    /\ pending' = pending \ {job[t]}
    /\ End(t)
    /\ UNCHANGED handled
\* It returned False or raised: the entry stays pending.
Defer(t) ==
    /\ state[t] = "running"
    /\ End(t)
    /\ UNCHANGED <<pending, handled>>

-----------------------------------------------------------------------------
Loop ==
    \/ ClaimPending \/ ReadNew \/ EndBatch \/ AwaitRoom \/ FindRoom \/ LeaveLoop \/ EndDrain
    \/ \E m \in Messages : PassOver(m) \/ Admit(m) \/ Park(m)

Task(t) == Start(t) \/ GiveUp(t) \/ Succeed(t) \/ Defer(t)

Next ==
    \/ Loop \/ Signal \/ Restart
    \/ \E m \in Bad : ParkRaises(m)
    \/ \E t \in Tasks : Task(t)

Spec == Init /\ [][Next]_vars

\* The event loop runs every task and the loop, the service manager restarts a
\* runner that ended; handlers are left to take as long as they like.
Schedule ==
    /\ WF_vars(Loop)
    /\ \A t \in Tasks : WF_vars(Start(t) \/ GiveUp(t))

DrainSpec == Spec /\ Schedule

\* Moreover an entry that is tried over and over is read, reclaimed and done or
\* retained in the end.
FairSpec ==
    /\ Spec /\ Schedule /\ WF_vars(loop = "over" /\ Restart) /\ SF_vars(ReadNew)
    /\ \A m \in Messages : SF_vars(ClaimPending /\ At(m)')
    /\ \A m \in Bad : SF_vars(Park(m))
    /\ \A m \in Messages \ Bad : SF_vars(\E t \in Tasks : job[t] = m /\ Succeed(t))

-----------------------------------------------------------------------------
(* Properties.                                                             *)

\* "Serialize same-session jobs": a turn runs only when every turn of its
\* session that was admitted before it in this process has ended.
SerialPerSession ==
    \A t, u \in Active :
        state[u] = "running" /\ <<t, u>> \in before => SessionOf[job[t]] # SessionOf[job[u]]

\* Every entry the loop has read is pending until it was handled or retained,
\* across failures, drains, cancellations and restarts.
NothingLost == 1..(next - 1) \subseteq pending \cup handled \cup parked

\* If the process is no longer told to stop, every entry is handled or retained,
\* whatever crashes, failures and reclaims come in between.
EveryEntryIsDone == <>[](~stop) => \A m \in Messages : <>(m \in handled \cup parked)

-----------------------------------------------------------------------------
\* "Started turns get up to drain_timeout_seconds to finish": once the stop event
\* is set the loop ends, however long a turn runs.
StopEnds == stop ~> (loop = "over" \/ ~stop)
=============================================================================
