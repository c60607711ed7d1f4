------------------------------ MODULE ReplyDelivery ------------------------------
(***************************************************************************)
(* POST /v1/sessions/{sid}/reply for the reply of one turn.  The reply is     *)
(* split into chunks; each is claimed under a lease, cleared against the        *)
(* session and the output quota, sent with its own nonce and checkpointed.     *)
(* The turn's redelivered jobs ask again and again, two at a time if a client  *)
(* gave up while its request goes on.                                          *)
(***************************************************************************)
EXTENDS Naturals, FiniteSets

CONSTANTS N,            \* chunks of the reply
          Requests,     \* handlers the control API runs at a time
          NoOne,
          Quota,        \* chunks MAX_OUTPUT_BYTES_PER_SESSION_PER_MIN lets through
          MaxForgets    \* bound on how often Discord forgets a chunk's nonce

ASSUME ReplyAssumption ==
    /\ N \in Nat \ {0} /\ Quota \in Nat \ {0} /\ MaxForgets \in Nat
    /\ NoOne \notin Requests

Chunks == 1..N

VARIABLES
    outcome,     \* of each chunk's idempotency key: absent, pending or sent
    owner,       \* its claim_owner
    leased,      \* chunks whose claim_expires_at lies in the future
    charged,     \* chunks counted in the quota's current window
    open,        \* the session takes this turn's replies
    pc, at,      \* each request's place and chunk
    shown,       \* how often each chunk appeared in the thread
    known,       \* chunks whose nonce Discord remembers
    forgets,     \* history: how often it forgot one of each chunk
    late,        \* history: chunks each request posted after the session moved on
    answer       \* what the turn was told for good

keyVars     == <<outcome, owner, leased>>
requestVars == <<pc, at>>
discordVars == <<shown, known, forgets, late>>
vars == <<keyVars, charged, open, requestVars, discordVars, answer>>

Working == {"claim", "check", "quota", "send", "record", "release", "reject", "done"}

TypeOK ==
    /\ outcome \in [Chunks -> {"absent", "pending", "sent"}]
    /\ owner \in [Chunks -> Requests \cup {NoOne}]
    /\ leased \subseteq Chunks
    /\ charged \subseteq Chunks
    /\ open \in BOOLEAN
    /\ pc \in [Requests -> Working \cup {"idle"}]
    /\ at \in [Requests -> Chunks]
    /\ shown \in [Chunks -> Nat]
    /\ known \subseteq Chunks
    /\ forgets \in [Chunks -> 0..MaxForgets]
    /\ late \in [Requests -> Nat]
    /\ answer \in {"none", "delivered", "rejected"}

Init ==
    /\ outcome = [c \in Chunks |-> "absent"]
    /\ owner = [c \in Chunks |-> NoOne]
    /\ leased = {} /\ charged = {} /\ known = {}
    /\ open = TRUE
    /\ pc = [r \in Requests |-> "idle"]
    /\ at = [r \in Requests |-> 1]
    /\ shown = [c \in Chunks |-> 0]
    /\ forgets = [c \in Chunks |-> 0]
    /\ late = [r \in Requests |-> 0]
    /\ answer = "none"

-----------------------------------------------------------------------------
(* The surroundings.                                                        *)

\* A stop, restart, archive or timeout; the turn's version never returns.
MoveOn ==
    /\ open
    /\ open' = FALSE
    /\ UNCHANGED <<keyVars, charged, requestVars, discordVars, answer>>

\* Ten minutes since the claim: the sender died or its process was suspended.
LeaseExpires(c) ==
    /\ c \in leased
    /\ leased' = leased \ {c}
    /\ UNCHANGED <<outcome, owner, charged, open, requestVars, discordVars, answer>>

\* The quota's key expires a minute after its first chunk.
WindowEnds ==
    /\ charged # {}
    /\ charged' = {}
    /\ UNCHANGED <<keyVars, open, requestVars, discordVars, answer>>

\* Discord deduplicates nonces for some minutes only.
Forget(c) ==
    /\ c \in known /\ forgets[c] < MaxForgets
    /\ known' = known \ {c}
    /\ forgets' = [forgets EXCEPT ![c] = @ + 1]
    /\ UNCHANGED <<shown, late, keyVars, charged, open, requestVars, answer>>

-----------------------------------------------------------------------------
(* post_reply and _send_checkpointed.                                       *)

Goto(r, p) == pc' = [pc EXCEPT ![r] = p]

\* A job of the turn that still owes its reply asks for it; 404 and 409 leave
\* nothing behind.
Start(r) ==
    /\ pc[r] = "idle" /\ answer = "none" /\ open
    /\ Goto(r, "claim")
    /\ at' = [at EXCEPT ![r] = 1]
    /\ UNCHANGED <<keyVars, charged, open, discordVars, answer>>

\* On to the next chunk, or to the answer.
Advance(r) ==
    IF at[r] = N
      THEN Goto(r, "done") /\ UNCHANGED at
      ELSE Goto(r, "claim") /\ at' = [at EXCEPT ![r] = @ + 1]

\* The key's row: a sent chunk is skipped, a leased one is a 409, and any other
\* is claimed with a fresh owner.
Claim(r) ==
    /\ pc[r] = "claim"
    /\ LET c == at[r] IN
         \/ /\ outcome[c] = "sent"
            /\ Advance(r) /\ UNCHANGED keyVars
         \/ /\ outcome[c] # "sent" /\ c \in leased
            /\ Goto(r, "idle") /\ UNCHANGED <<keyVars, at>>
         \/ /\ outcome[c] # "sent" /\ c \notin leased
            /\ outcome' = [outcome EXCEPT ![c] = "pending"]
            /\ owner' = [owner EXCEPT ![c] = r]
            /\ leased' = leased \cup {c}
            /\ Goto(r, "check") /\ UNCHANGED at
    /\ UNCHANGED <<charged, open, discordVars, answer>>

\* Mutant of Check: the session is looked up once, when the request starts.
CheckAtStartOnly(r) ==
    /\ pc[r] = "check"
    /\ Goto(r, "quota")
    /\ UNCHANGED <<keyVars, charged, open, at, discordVars, answer>>
\* After the rate limiter let it pass, the session is looked up again.
Check(r) ==
    /\ pc[r] = "check"
    /\ Goto(r, IF open THEN "quota" ELSE "release")
    /\ UNCHANGED <<keyVars, charged, open, at, discordVars, answer>>

\* The quota's script charges a nonce once; without room it is a 429.
Charge(r) ==
    /\ pc[r] = "quota"
    /\ IF at[r] \in charged \/ Cardinality(charged) < Quota
         THEN charged' = charged \cup {at[r]} /\ Goto(r, "send")
         ELSE UNCHANGED charged /\ Goto(r, "release")
    /\ UNCHANGED <<keyVars, open, at, discordVars, answer>>

\* Mutant of Post: every attempt sends a nonce of its own.
PostWithFreshNonce(c) ==
    shown' = [shown EXCEPT ![c] = @ + 1] /\ UNCHANGED known
\* With a nonce Discord remembers the chunk is not shown again.
Post(c) ==
    IF c \in known THEN UNCHANGED <<shown, known>>
                   ELSE shown' = [shown EXCEPT ![c] = @ + 1] /\ known' = known \cup {c}

\* send_message returns an id, or raises after Discord took the message.
Send(r) ==
    /\ pc[r] = "send"
    /\ Post(at[r])
    /\ late' = IF open THEN late ELSE [late EXCEPT ![r] = @ + 1]
    /\ \E p \in {"record", "release"} : Goto(r, p)
    /\ UNCHANGED <<forgets, keyVars, charged, open, at, answer>>

\* Any other 4xx: this reply can never be delivered.
Refused(r) ==
    /\ pc[r] = "send"
    /\ Goto(r, "reject")
    /\ UNCHANGED <<keyVars, charged, open, at, discordVars, answer>>

\* The checkpoint, if the claim is still this request's; the finally block then
\* finds nothing left to release.
Record(r) ==
    /\ pc[r] = "record"
    /\ IF owner[at[r]] = r
         THEN outcome' = [outcome EXCEPT ![at[r]] = "sent"] /\ leased' = leased \ {at[r]}
         ELSE UNCHANGED <<outcome, leased>>
    /\ Advance(r)
    /\ UNCHANGED <<owner, charged, open, discordVars, answer>>

\* Mutant of Raise: a chunk that failed is left out.
RaiseSkipping(r) ==
    /\ pc[r] \in {"check", "quota", "send", "record"}
    /\ Advance(r)
    /\ UNCHANGED <<keyVars, charged, open, discordVars, answer>>
\* The emergency stop, Redis, the database or Discord raises, without effect.
Raise(r) ==
    /\ pc[r] \in {"check", "quota", "send", "record"}
    /\ Goto(r, "release")
    /\ UNCHANGED <<keyVars, charged, open, at, discordVars, answer>>

\* The finally block; its transaction may fail too.  A 410 retires the turn.
Release(r) ==
    /\ pc[r] \in {"release", "reject"}
    /\ \/ /\ owner[at[r]] = r
          /\ leased' = leased \ {at[r]}
       \/ UNCHANGED leased
    /\ answer' \in {answer} \cup
         (IF pc[r] = "reject" /\ answer = "none" THEN {"rejected"} ELSE {})
    /\ Goto(r, "idle")
    /\ UNCHANGED <<outcome, owner, charged, open, at, discordVars>>

\* The 200, which a client that gave up after a minute never sees.
Finish(r) ==
    /\ pc[r] = "done"
    /\ answer' \in {answer, "delivered"}
    /\ Goto(r, "idle")
    /\ UNCHANGED <<keyVars, charged, open, at, discordVars>>

\* The runner process dies with all its requests; their leases stay.
Crash ==
    /\ pc' = [r \in Requests |-> "idle"]
    /\ \E r \in Requests : pc[r] # "idle"
    /\ UNCHANGED <<keyVars, charged, open, at, discordVars, answer>>

-----------------------------------------------------------------------------
Step(r) ==
    \/ Claim(r) \/ Check(r) \/ Charge(r) \/ Send(r) \/ Refused(r)
    \/ Record(r) \/ Raise(r) \/ Release(r) \/ Finish(r)

Next ==
    \/ MoveOn \/ WindowEnds \/ Crash
    \/ \E c \in Chunks : LeaseExpires(c) \/ Forget(c)
    \/ \E r \in Requests : Start(r) \/ Step(r)

Spec == Init /\ [][Next]_vars

\* Jobs of the turn are redelivered, leases and windows run out, and no stage
\* of a request is hit by a failure each time it is reached.
FairSpec ==
    /\ Spec
    /\ WF_vars(WindowEnds)
    /\ \A c \in Chunks : WF_vars(LeaseExpires(c))
    /\ \A r \in Requests :
         /\ WF_vars(Start(r)) /\ WF_vars(Step(r))
         /\ \A c \in Chunks : SF_vars(at[r] = c /\ Claim(r))
         /\ SF_vars(Claim(r) /\ pc'[r] = "check")
         /\ SF_vars(Check(r)) /\ SF_vars(Charge(r) /\ pc'[r] = "send")
         /\ SF_vars(Send(r) /\ pc'[r] = "record")
         /\ SF_vars(Record(r)) /\ SF_vars(Finish(r) /\ answer' = "delivered")

-----------------------------------------------------------------------------
(* Properties.                                                             *)

\* "Pending delivery retries use the same nonce": a chunk appears twice only
\* after Discord forgot its nonce.
ShownOncePerWindow == \A c \in Chunks : shown[c] <= 1 + forgets[c]

\* The lookup before each chunk: once the session has moved on, a request that
\* was cleared before it can still post that one chunk and no other.
OneLateChunk == \A r \in Requests : late[r] <= 1

\* The chunks come into view in order, and "delivered": True is said only of a
\* reply that is there as a whole.
Promise == INSTANCE ReplyPromise WITH visible <- {c \in Chunks : shown[c] > 0}
KeepsPromise == Promise!Spec

\* A reply longer than a minute's quota is delivered all the same, if its session
\* keeps taking replies: checkpoints carry it from window to window.
ReplyIsAnswered == <>(answer # "none" \/ ~open)
=============================================================================
