----------------------------- MODULE TypingTracker -----------------------------
(***************************************************************************)
(* The typing indicator of one thread in one bot process: the counter of       *)
(* pending turns, the indicator task, its safety timeout, and the watchers that   *)
(* wait for the durable end of each turn.  Timers may fire at any moment once       *)
(* they run.                                                                *)
(***************************************************************************)
EXTENDS Integers, FiniteSets

CONSTANTS Turns,       \* user messages
          Starts       \* names for the indicator tasks the thread may have

ASSUME TypingAssumption == IsFiniteSet(Turns) /\ Starts = 1..Cardinality(Turns)

VARIABLES
    turn,       \* of each message: new, saga, pending (queued), finished or refused
    counted,    \* messages note_user_message counted and nobody took back yet
    watcher,    \* its completion task: none, waiting or over
    count,      \* _counts[thread], 0 when absent
    current,    \* the start whose task is in _tasks, 0 when absent
    started,    \* indicator tasks started so far
    typing,     \* indicator tasks whose _run is not over
    told,       \* indicator tasks whose stop event is set
    timer,      \* the start whose safety timeout is armed, 0 when none
    late,       \* history: messages whose count a safety timeout or the shutdown wiped
    stolen,     \* history: some count was taken back for a wiped message
    bot         \* up, closing (shutdown cancels), stopped (no indicators) or closed

typingVars == <<turn, counted, watcher, count, current, started, typing, told, timer, late,
          stolen, bot>>

TypingTypeOK ==
    /\ turn \in [Turns -> {"new", "saga", "pending", "finished", "refused"}]
    /\ counted \subseteq Turns
    /\ watcher \in [Turns -> {"none", "waiting", "over"}]
    /\ count \in 0..Cardinality(Turns)
    /\ started \in 0..Cardinality(Turns) /\ current \in 0..started
    /\ typing \subseteq 1..started /\ told \subseteq 1..started
    /\ timer \in {0, current}
    /\ late \subseteq Turns /\ stolen \in BOOLEAN
    /\ bot \in {"up", "closing", "stopped", "closed"}

TypingInit ==
    /\ turn = [t \in Turns |-> "new"] /\ counted = {}
    /\ watcher = [t \in Turns |-> "none"]
    /\ count = 0 /\ current = 0 /\ started = 0 /\ typing = {} /\ told = {}
    /\ timer = 0 /\ late = {} /\ stolen = FALSE /\ bot = "up"

\* _stop up to its first await: the maps are cleared, the task is told.
Stopping ==
    /\ count' = 0 /\ current' = 0 /\ timer' = 0
    /\ told' = told \cup ({current} \ {0})

\* note_user_message: the first one starts the indicator and its timeout.
NoteUser(t) ==
    /\ count' = count + 1 /\ counted' = counted \cup {t}
    /\ IF current = 0
       THEN /\ started' = started + 1 /\ current' = started + 1
            /\ typing' = typing \cup {started + 1} /\ timer' = started + 1
       ELSE UNCHANGED <<started, current, typing, timer>>
    /\ UNCHANGED <<told, late>>

\* note_bot_message for turn t.
NoteBot(t) ==
    /\ counted' = counted \ {t}
    /\ \/ count = 0 /\ UNCHANGED <<count, current, timer, told>>
       \/ count = 1 /\ Stopping
       \/ count > 1 /\ count' = count - 1 /\ UNCHANGED <<current, timer, told>>

-----------------------------------------------------------------------------

\* on_message counts before it queues the input.
Message(t) ==
    /\ bot # "closed" /\ turn[t] = "new" /\ turn' = [turn EXCEPT ![t] = "saga"]
    /\ NoteUser(t) /\ UNCHANGED <<watcher, stolen, bot>>

\* run_input_saga committed: a watcher is created.
Queued(t) ==
    /\ turn[t] = "saga" /\ turn' = [turn EXCEPT ![t] = "pending"]
    /\ watcher' = [watcher EXCEPT ![t] = "waiting"]
    /\ UNCHANGED <<counted, count, current, started, typing, told, timer, late, stolen, bot>>

\* /send queues first and counts afterwards.
Send(t) ==
    /\ bot # "closed" /\ turn[t] = "new" /\ turn' = [turn EXCEPT ![t] = "pending"]
    /\ watcher' = [watcher EXCEPT ![t] = "waiting"]
    /\ NoteUser(t) /\ UNCHANGED <<stolen, bot>>

\* Mutant of SagaRefuses: the count is not taken back.
SagaRefusesKeepingCount(t) ==
    /\ turn[t] = "saga" /\ turn' = [turn EXCEPT ![t] = "refused"]
    /\ counted' = counted \ {t}
    /\ UNCHANGED <<watcher, count, current, started, typing, told, timer, late, stolen, bot>>
\* The saga raises: the count is taken back.
SagaRefuses(t) ==
    /\ turn[t] = "saga" /\ turn' = [turn EXCEPT ![t] = "refused"]
    /\ NoteBot(t) /\ stolen' = (stolen \/ (t \in late /\ count > 0))
    /\ UNCHANGED <<watcher, started, typing, late, bot>>

\* The turn gets a final status in the database.
Finish(t) ==
    /\ turn[t] = "pending" /\ turn' = [turn EXCEPT ![t] = "finished"]
    /\ UNCHANGED <<counted, watcher, count, current, started, typing, told, timer, late,
                   stolen, bot>>

\* wait_for_turn: the poll sees the end, the 360 seconds are over, or the lookup raises.
WatcherEnds(t) ==
    /\ watcher[t] = "waiting" /\ watcher' = [watcher EXCEPT ![t] = "over"]
    /\ NoteBot(t) /\ stolen' = (stolen \/ (t \in late /\ count > 0))
    /\ UNCHANGED <<turn, started, typing, late, bot>>

\* _safety_timeout.
SafetyTimeout ==
    /\ timer # 0
    /\ late' = late \cup counted /\ counted' = {}
    /\ Stopping
    /\ UNCHANGED <<turn, watcher, started, typing, stolen, bot>>

\* Mutant of IndicatorEnds: a task that was told to stop, and is in no map any more, goes on.
IndicatorOfCurrent(i) == i \in typing /\ i = current
\* _run sees the stop event or its deadline.
IndicatorEnds(i) == i \in typing
IndicatorOver(i) ==
    /\ IndicatorEnds(i) /\ typing' = typing \ {i}
    /\ UNCHANGED <<turn, counted, watcher, count, current, started, told, timer, late, stolen,
                   bot>>

\* shutdown cancels the watchers while the gateway still delivers: one that has run ends
\* by WatcherEnds, its finally block taking the count back; one that has not is just over.
Shutdown ==
    /\ bot = "up" /\ bot' = "closing"
    /\ \E N \in SUBSET {t \in Turns : watcher[t] = "waiting"} :
          watcher' = [t \in Turns |-> IF t \in N THEN "over" ELSE watcher[t]]
    /\ UNCHANGED <<turn, counted, count, current, started, typing, told, timer, late, stolen>>

\* Then it stops the thread's indicator, whatever was counted meanwhile.
StopIndicator ==
    /\ bot = "closing" /\ bot' = "stopped"
    /\ counted' = {} /\ late' = late \cup counted
    /\ Stopping
    /\ UNCHANGED <<turn, watcher, started, typing, stolen>>

\* Only now the connection closes; a message before it is still counted.
Close ==
    /\ bot = "stopped" /\ bot' = "closed"
    /\ UNCHANGED <<turn, counted, watcher, count, current, started, typing, told, timer, late,
                   stolen>>

TypingNext ==
    \/ \E t \in Turns : Message(t) \/ Queued(t) \/ Send(t) \/ SagaRefuses(t) \/ Finish(t)
                        \/ WatcherEnds(t)
    \/ SafetyTimeout \/ Shutdown \/ StopIndicator \/ Close
    \/ \E i \in Starts : IndicatorOver(i)

TypingSpec == TypingInit /\ [][TypingNext]_typingVars

\* Sagas return, the watchers and the safety timeout have their deadlines, and a
\* task that is told to stop notices its event.
TypingFairSpec ==
    /\ TypingSpec /\ WF_typingVars(SafetyTimeout)
    /\ \A t \in Turns : WF_typingVars(Queued(t) \/ SagaRefuses(t)) /\ WF_typingVars(WatcherEnds(t))
    /\ \A i \in Starts : WF_typingVars(i \in told /\ IndicatorOver(i))

-----------------------------------------------------------------------------
(* Correctness.                                                            *)

\* "The indicator is visible iff the counter is > 0": the maps agree.  And while no
\* watcher of a wiped message has taken a count, the counter is the number of the
\* messages that are still to be taken back, of either command and outcome.
CounterIsPending ==
    /\ (count > 0) = (current # 0)
    /\ ~stolen => count = Cardinality(counted)

\* "Durable completion watchers decrement once per turn; zero stops it": a message
\* that was counted and is pending keeps the indicator, wiped ones aside.
PendingShown == \A t \in counted : turn[t] \in {"saga", "pending"} => current # 0

\* "a lost reply or runner crash never leaves the indicator stuck": once no message
\* comes, no indicator that was told to stop goes on, and the counter goes to zero,
\* also when turns never finish.
NeverStuck == <>[](count = 0 /\ typing \cap told = {})
=============================================================================
