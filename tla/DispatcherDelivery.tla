--------------------------- MODULE DispatcherDelivery ---------------------------
(***************************************************************************)
(* The dispatcher's work on the notices of one session and its Discord      *)
(* thread: system notices (a post), terminal notices (a post, then the       *)
(* thread is archived) and archive orders.  The stream hands a notice to     *)
(* any dispatcher, repeatedly and to two at a time; each stage is claimed    *)
(* by a row of idempotency_keys that stays locked during the Discord call.   *)
(***************************************************************************)
EXTENDS Naturals

CONSTANTS Notices,
          Terminal, ArchiveOrders,  \* the others are system notices
          Dispatchers,
          NoOne,
          MaxCopies,        \* stream entries of one notice
          MaxDeliveries,    \* DISPATCHER_MAX_DELIVERIES
          MaxForgets        \* bound on how often Discord forgets a nonce

ASSUME DispatcherAssumption ==
    /\ Terminal \subseteq Notices /\ ArchiveOrders \subseteq Notices \ Terminal
    /\ NoOne \notin Dispatchers \cup Notices
    /\ MaxCopies \in Nat \ {0} /\ MaxDeliveries \in Nat \ {0} /\ MaxForgets \in Nat

VARIABLES
    copies,      \* entries of each notice that are not acknowledged
    written,     \* notices whose outbox row was committed and published
    tries,       \* deliveries of each notice, up to MaxDeliveries
    dead,        \* notices retained in the dead-letter hash
    skipped,     \* archive orders dropped because the session was live again
    finished,    \* keys whose row says 'done'
    done,        \* history: keys whose row has ever said so
    owner,       \* the dispatcher whose transaction holds a key's row
    pc, notice, stage,      \* each dispatcher's handler
    shown,       \* how often each notice's post appeared in the thread
    known,       \* notices whose nonce Discord still remembers
    forgets,     \* history: how often it forgot one of each notice
    session,     \* live, archived or ended
    archived,    \* the thread is archived at Discord
    marked       \* sessions.discord_thread_archived_at is set

streamVars  == <<copies, written, tries, dead, skipped>>
claimVars   == <<finished, done, owner>>
handlerVars == <<pc, notice, stage>>
discordVars == <<shown, known, forgets, archived>>
dispatchVars == <<streamVars, claimVars, handlerVars, discordVars, session, marked>>

Stages == {"post", "archive"}
Keys   == Notices \X Stages

StagesOf(n) ==
    CASE n \in Terminal      -> Stages
      [] n \in ArchiveOrders -> {"archive"}
      [] OTHER               -> {"post"}

DispatchTypeOK ==
    /\ copies \in [Notices -> 0..MaxCopies]
    /\ written \subseteq Notices /\ dead \subseteq written /\ skipped \subseteq written
    /\ tries \in [Notices -> 0..MaxDeliveries]
    /\ finished \subseteq done /\ done \subseteq Keys
    /\ owner \in [Keys -> Dispatchers \cup {NoOne}]
    /\ pc \in [Dispatchers -> {"idle", "look", "claim", "act", "finalize", "ack", "failed"}]
    /\ notice \in [Dispatchers -> written \cup {NoOne}]
    /\ stage \in [Dispatchers -> Stages]
    /\ shown \in [Notices -> 0..MaxForgets + 1]
    /\ known \subseteq Notices
    /\ forgets \in [Notices -> 0..MaxForgets]
    /\ session \in {"live", "archived", "ended"}
    /\ archived \in BOOLEAN /\ marked \in BOOLEAN

DispatchInit ==
    /\ copies = [n \in Notices |-> 0]
    /\ written = {} /\ dead = {} /\ skipped = {} /\ finished = {} /\ done = {} /\ known = {}
    /\ tries = [n \in Notices |-> 0]
    /\ owner = [k \in Keys |-> NoOne]
    /\ pc = [d \in Dispatchers |-> "idle"]
    /\ notice = [d \in Dispatchers |-> NoOne]
    /\ stage = [d \in Dispatchers |-> "post"]
    /\ shown = [n \in Notices |-> 0]
    /\ forgets = [n \in Notices |-> 0]
    /\ session = "live"
    /\ archived = FALSE /\ marked = FALSE

-----------------------------------------------------------------------------
(* The session, and the transactions that write notices about it.            *)

\* A system notice comes at any time; an archive order with the transaction
\* that archives the session; a terminal notice with the one that ends it, or,
\* from a resume job whose update raised, whatever became of the session.
Write(n) ==
    /\ n \notin written
    /\ written' = written \cup {n}
    /\ \E c \in 1..MaxCopies : copies' = [copies EXCEPT ![n] = c]
    /\ CASE n \in Terminal      -> session' \in {"ended", session}
         [] n \in ArchiveOrders -> session = "live" /\ session' = "archived"
         [] OTHER               -> UNCHANGED session
    /\ UNCHANGED <<tries, dead, skipped, claimVars, handlerVars, discordVars, marked>>

\* The resume commands.
Revive ==
    /\ session = "archived"
    /\ session' = "live"
    /\ UNCHANGED <<streamVars, claimVars, handlerVars, discordVars, marked>>

\* Discord deduplicates nonces for some minutes only.
Forget(n) ==
    /\ n \in known /\ forgets[n] < MaxForgets
    /\ known' = known \ {n}
    /\ forgets' = [forgets EXCEPT ![n] = @ + 1]
    /\ UNCHANGED <<shown, archived, streamVars, claimVars, handlerVars, session, marked>>

\* sweep_idempotency_keys: a row goes after seven days, when Discord has long
\* forgotten the nonce of its post, whatever became of the notice's entries.
ExpireKey(k) ==
    /\ k \in finished /\ owner[k] = NoOne /\ (k[2] = "post" => k[1] \notin known)
    /\ finished' = finished \ {k}
    /\ UNCHANGED <<done, owner, streamVars, handlerVars, discordVars, session, marked>>

-----------------------------------------------------------------------------
(* A dispatcher's handler.                                                  *)

Key(d) == <<notice[d], stage[d]>>
Goto(d, p) == pc' = [pc EXCEPT ![d] = p]

\* The handler a notice is routed to begins with this side effect.
FirstStage(n) == IF n \in ArchiveOrders THEN "archive" ELSE "post"

\* read_next or claim_pending hands the notice out, also when another
\* dispatcher has had it for more than a minute.
Take(d, n) ==
    /\ pc[d] = "idle" /\ copies[n] > 0
    /\ tries' = [tries EXCEPT ![n] = IF @ < MaxDeliveries THEN @ + 1 ELSE @]
    /\ notice' = [notice EXCEPT ![d] = n]
    /\ stage' = [stage EXCEPT ![d] = FirstStage(n)]
    /\ Goto(d, IF n \in ArchiveOrders THEN "look" ELSE "claim")
    /\ UNCHANGED <<copies, written, dead, skipped, claimVars, discordVars, session, marked>>

\* handle_archive_thread reads the session's status first.
LookAtSession(d) ==
    /\ pc[d] = "look"
    /\ IF session = "live"
         THEN Goto(d, "ack") /\ skipped' = skipped \cup {notice[d]}
         ELSE Goto(d, "claim") /\ UNCHANGED skipped
    /\ UNCHANGED <<copies, written, tries, dead, claimVars, notice, stage, discordVars,
                   session, marked>>

\* After a stage: the archive stage of a terminal notice, or the XACK.
NextStage(d) ==
    IF stage[d] = "post" /\ notice[d] \in Terminal
      THEN Goto(d, "claim") /\ stage' = [stage EXCEPT ![d] = "archive"]
      ELSE Goto(d, "ack") /\ UNCHANGED stage

\* Mutant of Claim: the row is read without FOR UPDATE.
ClaimWithoutLock(d) ==
    /\ pc[d] = "claim"
    /\ IF Key(d) \in finished
         THEN NextStage(d) /\ UNCHANGED owner
         ELSE /\ owner' = [owner EXCEPT ![Key(d)] = d]
              /\ Goto(d, "act") /\ UNCHANGED stage
    /\ UNCHANGED <<streamVars, finished, done, notice, discordVars, session, marked>>
\* INSERT ... ON CONFLICT DO NOTHING; SELECT outcome ... FOR UPDATE: waits for
\* the row, and skips the stage if it is done.
Claim(d) ==
    /\ pc[d] = "claim" /\ owner[Key(d)] = NoOne
    /\ IF Key(d) \in finished
         THEN NextStage(d) /\ UNCHANGED owner
         ELSE /\ owner' = [owner EXCEPT ![Key(d)] = d]
              /\ Goto(d, "act") /\ UNCHANGED stage
    /\ UNCHANGED <<streamVars, finished, done, notice, discordVars, session, marked>>

\* With a nonce Discord remembers the post is not shown again.
Post(n) ==
    /\ IF n \in known THEN UNCHANGED <<shown, known>>
                     ELSE /\ shown' = [shown EXCEPT ![n] = @ + 1]
                          /\ known' = known \cup {n}
    /\ UNCHANGED forgets

\* The side effect under the row's lock.  It may raise with or without having
\* taken effect.  A post brings an archived thread back: the client unarchives
\* it on a 405.
Act(d) ==
    /\ pc[d] = "act"
    /\ \/ /\ \/ /\ stage[d] = "post" /\ Post(notice[d]) /\ archived' = FALSE
             \/ /\ stage[d] = "archive" /\ archived' = TRUE
                /\ UNCHANGED <<shown, known, forgets>>
          /\ \E p \in {"finalize", "failed"} : Goto(d, p)
       \/ Goto(d, "failed") /\ UNCHANGED discordVars
    /\ owner' = IF pc'[d] = "failed" THEN [owner EXCEPT ![Key(d)] = NoOne] ELSE owner
    /\ UNCHANGED <<streamVars, finished, done, notice, stage, session, marked>>

\* The rest of the transaction: the thread's mark and the outcome, or a rollback.
Finalize(d) ==
    /\ pc[d] = "finalize"
    /\ owner' = [owner EXCEPT ![Key(d)] = NoOne]
    /\ \/ /\ finished' = finished \cup {Key(d)} /\ done' = done \cup {Key(d)}
          /\ marked' = (marked \/ stage[d] = "archive")
          /\ NextStage(d)
       \/ Goto(d, "failed") /\ UNCHANGED <<finished, done, marked, stage>>
    /\ UNCHANGED <<streamVars, notice, discordVars, session>>

Rest(d) == Goto(d, "idle") /\ notice' = [notice EXCEPT ![d] = NoOne]

\* XACK of this copy, or one that was acknowledged before, or Redis failed.
Ack(d) ==
    /\ pc[d] = "ack"
    /\ \E c \in {copies[notice[d]], copies[notice[d]] - 1} \cap (0..MaxCopies) :
         copies' = [copies EXCEPT ![notice[d]] = c]
    /\ Rest(d)
    /\ UNCHANGED <<written, tries, dead, skipped, claimVars, stage, discordVars, session,
                   marked>>

\* Mutant of Fail: a message that failed is acknowledged all the same.
FailAcknowledging(d) ==
    /\ pc[d] = "failed"
    /\ \E c \in {copies[notice[d]], copies[notice[d]] - 1} \cap (0..MaxCopies) :
         copies' = [copies EXCEPT ![notice[d]] = c]
    /\ Rest(d)
    /\ UNCHANGED <<written, tries, dead, skipped, claimVars, stage, discordVars, session,
                   marked>>

\* An exception: the copy stays pending, or is dead-lettered when its count of
\* deliveries has reached the budget and Redis tells it.
Fail(d) ==
    /\ pc[d] = "failed"
    /\ \/ UNCHANGED <<copies, dead>>
       \/ /\ tries[notice[d]] = MaxDeliveries
          /\ dead' = dead \cup {notice[d]}
          /\ \E c \in {copies[notice[d]], copies[notice[d]] - 1} \cap (0..MaxCopies) :
               copies' = [copies EXCEPT ![notice[d]] = c]
    /\ Rest(d)
    /\ UNCHANGED <<written, tries, skipped, claimVars, stage, discordVars, session, marked>>

\* The process dies: its transaction is rolled back, its entry stays pending.
Crash(d) ==
    /\ pc[d] # "idle"
    /\ owner' = [k \in Keys |-> IF owner[k] = d THEN NoOne ELSE owner[k]]
    /\ Rest(d)
    /\ UNCHANGED <<streamVars, finished, done, stage, discordVars, session, marked>>

\* scripts/recover_dispatcher.py --retry: a retained notice is added again.
Replay(n) ==
    /\ n \in dead /\ copies[n] < MaxCopies
    /\ dead' = dead \ {n}
    /\ copies' = [copies EXCEPT ![n] = @ + 1]
    /\ tries' = [tries EXCEPT ![n] = 0]
    /\ UNCHANGED <<written, skipped, claimVars, handlerVars, discordVars, session, marked>>

-----------------------------------------------------------------------------
Step(d) ==
    LookAtSession(d) \/ Claim(d) \/ Act(d) \/ Finalize(d) \/ Ack(d) \/ Fail(d)

DispatchNext ==
    \/ Revive
    \/ \E n \in Notices : Write(n) \/ Forget(n) \/ Replay(n)
    \/ \E k \in Keys : ExpireKey(k)
    \/ \E d \in Dispatchers : Step(d) \/ Crash(d) \/ \E n \in Notices : Take(d, n)

DispatchSpec == DispatchInit /\ [][DispatchNext]_dispatchVars

\* The dispatchers' loops keep running; a notice that is delivered again and
\* again is not refused, and its handler not killed, each time.
DispatchFairSpec ==
    /\ DispatchSpec
    /\ \A d \in Dispatchers : WF_dispatchVars(Step(d))
    /\ \A d \in Dispatchers, n \in Notices :
         /\ SF_dispatchVars(Take(d, n)) /\ SF_dispatchVars(notice[d] = n /\ LookAtSession(d))
         /\ \A s \in StagesOf(n) :
              /\ SF_dispatchVars(Key(d) = <<n, s>> /\ Claim(d))
              /\ SF_dispatchVars(Key(d) = <<n, s>> /\ Act(d) /\ pc'[d] = "finalize")
              /\ SF_dispatchVars(Key(d) = <<n, s>> /\ Finalize(d) /\ finished' # finished)

-----------------------------------------------------------------------------
(* Properties.                                                             *)

\* "Discord's stable nonce protects retries within its deduplication window": a
\* notice appears twice only after Discord forgot its nonce.
ShownOncePerWindow == \A n \in Notices : shown[n] <= 1 + forgets[n]

\* "Serialize a delivery and its finalization under the database row lock": as
\* long as a post's row says that it is done nobody posts it again, though its
\* entries are redelivered, duplicated and replayed and Discord forgets its nonce.
DoneStaysDone ==
    [][\A n \in Notices : <<n, "post">> \in finished => shown'[n] = shown[n]]_dispatchVars

\* Once every entry of a notice is acknowledged, all its stages were done and an
\* archived thread is marked so, or the notice is retained for an operator, or it
\* was an archive order found stale.
NothingDropped ==
    \A n \in written :
        copies[n] = 0 =>
            \/ n \in dead \cup skipped
            \/ \A s \in StagesOf(n) : <<n, s>> \in done /\ (s = "archive" => marked)

\* As long as dispatchers and Discord recover again and again, every notice is
\* delivered, retained or dropped as stale.
NoticeIsSettled ==
    \A n \in Notices :
        n \in written ~>
            n \in dead \cup skipped \/ \A s \in StagesOf(n) : <<n, s>> \in done

-----------------------------------------------------------------------------
\* "A delayed archive ... must not archive a thread whose session was resumed or
\* restarted in the meantime": the call never takes effect on a live session.
LiveThreadsStayOpen ==
    [][~archived /\ archived' => session # "live"]_dispatchVars
=============================================================================
