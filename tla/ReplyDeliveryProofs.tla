--------------------------- MODULE ReplyDeliveryProofs ---------------------------
(***************************************************************************)
(* Proofs about ReplyDelivery for any number of chunks and requests.          *)
(***************************************************************************)
EXTENDS ReplyDelivery, TLAPS

\* The part of TypeOK that the argument needs.
Shape ==
    /\ outcome \in [Chunks -> {"absent", "pending", "sent"}]
    /\ pc \in [Requests -> Working \cup {"idle"}]
    /\ at \in [Requests -> Chunks]
    /\ shown \in [Chunks -> Nat]
    /\ late \in [Requests -> Nat]
    /\ open \in BOOLEAN
    /\ answer \in {"none", "delivered", "rejected"}

\* A chunk is in view only behind all chunks before it; a checkpoint and a
\* request at its record stage vouch for their chunk, a request at work for
\* every chunk before its own, a finished one for all.
Ordered ==
    /\ \A c \in Chunks : shown[c] > 0 => \A b \in 1..c : shown[b] > 0
    /\ \A c \in Chunks : outcome[c] = "sent" => shown[c] > 0
    /\ \A r \in Requests : pc[r] \in Working => \A b \in 1..(at[r] - 1) : shown[b] > 0
    /\ \A r \in Requests : pc[r] = "record" => shown[at[r]] > 0
    /\ \A r \in Requests : pc[r] = "done" => \A b \in Chunks : shown[b] > 0

IInv == Shape /\ Ordered /\ (\A c \in Chunks : c \in known => shown[c] > 0)

\* A chunk that was claimed while the session was open has at most one post to go.
Fence ==
    /\ open => \A r \in Requests : late[r] = 0
    /\ \A r \in Requests : pc[r] \in {"quota", "send"} => late[r] = 0
    /\ \A r \in Requests : late[r] <= 1

-----------------------------------------------------------------------------
\* A request that goes on stays within the chunks.
LEMMA AdvanceTypes ==
    ASSUME Shape, NEW r \in Requests, Advance(r)
    PROVE  /\ at' \in [Requests -> Chunks]
           /\ pc' \in [Requests -> Working \cup {"idle"}]
           /\ \A q \in Requests \ {r} : at'[q] = at[q] /\ pc'[q] = pc[q]
           /\ at'[r] - 1 <= at[r] /\ pc'[r] \in {"claim", "done"}
           /\ pc'[r] = "done" => at[r] = N
<1> USE ReplyAssumption DEF Chunks
<1>1. CASE at[r] = N
  <2>1. pc' = [pc EXCEPT ![r] = "done"] /\ at' = at
    BY <1>1 DEF Advance, Goto
  <2> QED BY <2>1, <1>1 DEF Shape, Working
<1>2. CASE at[r] # N
  <2>1. pc' = [pc EXCEPT ![r] = "claim"] /\ at' = [at EXCEPT ![r] = @ + 1]
    BY <1>2 DEF Advance, Goto
  <2>2. at[r] + 1 \in 1..N
    BY <1>2 DEF Shape
  <2>3. at' \in [Requests -> Chunks]
    BY <2>1, <2>2 DEF Shape
  <2>4. at'[r] - 1 <= at[r]
    BY <2>1 DEF Shape
  <2> QED BY <2>1, <2>3, <2>4 DEF Shape, Working
<1> QED BY <1>1, <1>2

\* A request whose chunk is in view may go on.
LEMMA AdvanceKeeps ==
    ASSUME IInv, NEW r \in Requests, pc[r] \in Working, shown[at[r]] > 0, Advance(r),
           UNCHANGED <<outcome, shown, known, late, open, answer>>
    PROVE  IInv'
<1> USE ReplyAssumption DEF Chunks
<1>1. /\ at' \in [Requests -> Chunks]
      /\ pc' \in [Requests -> Working \cup {"idle"}]
      /\ \A q \in Requests \ {r} : at'[q] = at[q] /\ pc'[q] = pc[q]
      /\ at'[r] - 1 <= at[r] /\ pc'[r] \in {"claim", "done"}
      /\ pc'[r] = "done" => at[r] = N
  BY AdvanceTypes DEF IInv
<1>2. Shape'
  BY <1>1 DEF IInv, Shape
<1>3. \A b \in 1..at[r] : shown[b] > 0
  BY DEF IInv, Shape, Ordered
<1>4. \A q \in Requests : pc'[q] \in Working => \A b \in 1..(at'[q] - 1) : shown[b] > 0
  <2>1. \A b \in 1..(at'[r] - 1) : shown[b] > 0
    BY <1>1, <1>3 DEF IInv, Shape
  <2> QED BY <1>1, <2>1 DEF IInv, Ordered
<1>5. \A q \in Requests : pc'[q] = "done" => \A b \in Chunks : shown[b] > 0
  BY <1>1, <1>3 DEF IInv, Ordered
<1>6. \A q \in Requests : pc'[q] = "record" => shown[at'[q]] > 0
  BY <1>1 DEF IInv, Ordered
<1>7. Ordered'
  BY <1>4, <1>5, <1>6 DEF IInv, Ordered
<1> QED BY <1>2, <1>7 DEF IInv

LEMMA InitOK == Init => IInv /\ Fence
  BY ReplyAssumption DEF Init, IInv, Shape, Ordered, Fence, Chunks, Working

\* Every step keeps the order of the chunks.
LEMMA StepKeepsOrder == IInv /\ [Next]_vars => IInv'
<1> SUFFICES ASSUME IInv, [Next]_vars PROVE IInv'
  OBVIOUS
<1> USE ReplyAssumption DEF Chunks
<1>1. CASE MoveOn \/ WindowEnds
  BY <1>1 DEF MoveOn, WindowEnds, IInv, Shape, Ordered, keyVars, requestVars, discordVars
<1>2. CASE Crash
  BY <1>2 DEF Crash, IInv, Shape, Ordered, Working, keyVars, discordVars
<1>3. ASSUME NEW c \in Chunks, LeaseExpires(c) \/ Forget(c) PROVE IInv'
  BY <1>3 DEF LeaseExpires, Forget, IInv, Shape, Ordered, keyVars, requestVars, discordVars
<1>4. ASSUME NEW r \in Requests, Start(r) PROVE IInv'
  BY <1>4 DEF Start, Goto, IInv, Shape, Ordered, Working, keyVars, discordVars
<1>5. ASSUME NEW r \in Requests, Claim(r) PROVE IInv'
  <2>1. CASE outcome[at[r]] = "sent"
    <3>1. Advance(r) /\ shown[at[r]] > 0 /\ pc[r] \in Working
      BY <1>5, <2>1 DEF Claim, IInv, Shape, Ordered, Working
    <3>2. UNCHANGED <<outcome, shown, known, late, open, answer>>
      BY <1>5, <2>1 DEF Claim, keyVars, discordVars
    <3> QED BY <3>1, <3>2, AdvanceKeeps
  <2>2. CASE outcome[at[r]] # "sent"
    BY <1>5, <2>2 DEF Claim, Goto, IInv, Shape, Ordered, Working, keyVars, discordVars
  <2> QED BY <2>1, <2>2
<1>6. ASSUME NEW r \in Requests, Check(r) \/ Charge(r) \/ Refused(r) \/ Raise(r) PROVE IInv'
  BY <1>6 DEF Check, Charge, Refused, Raise, Goto, IInv, Shape, Ordered, Working,
              keyVars, discordVars
<1>7. ASSUME NEW r \in Requests, Send(r) PROVE IInv'
  <2>1. /\ pc[r] = "send" /\ at[r] \in Chunks /\ UNCHANGED <<outcome, open, at, answer>>
        /\ \E p \in {"record", "release"} : pc' = [pc EXCEPT ![r] = p]
    BY <1>7 DEF Send, Goto, IInv, Shape, keyVars
  <2>2. /\ shown' \in [Chunks -> Nat] /\ shown'[at[r]] > 0
        /\ \A b \in Chunks : shown[b] > 0 => shown'[b] > 0
        /\ \A b \in Chunks : shown'[b] > 0 => shown[b] > 0 \/ b = at[r]
        /\ \A b \in Chunks : b \in known' => shown'[b] > 0
    <3>1. CASE at[r] \in known
      BY <1>7, <2>1, <3>1 DEF Send, Post, IInv, Shape
    <3>2. CASE at[r] \notin known
      <4>1. shown' = [shown EXCEPT ![at[r]] = @ + 1] /\ known' = known \cup {at[r]}
        BY <1>7, <3>2 DEF Send, Post
      <4>2. shown' \in [Chunks -> Nat] /\ shown'[at[r]] = shown[at[r]] + 1
        BY <4>1, <2>1 DEF IInv, Shape
      <4> QED BY <4>1, <4>2, <2>1 DEF IInv, Shape
    <3> QED BY <3>1, <3>2
  <2>8. late' \in [Requests -> Nat]
    <3>1. late \in [Requests -> Nat]
      BY DEF IInv, Shape
    <3> QED BY <1>7, <3>1 DEF Send
  <2>3. Shape'
    BY <2>1, <2>2, <2>8 DEF IInv, Shape, Working
  <2>4. \A b \in 1..(at[r] - 1) : shown[b] > 0
    BY <2>1 DEF IInv, Ordered, Working
  <2>5. \A c \in Chunks : shown'[c] > 0 => \A b \in 1..c : shown'[b] > 0
    BY <2>1, <2>2, <2>4 DEF IInv, Ordered
  <2>6. \A q \in Requests : pc'[q] \in Working => \A b \in 1..(at'[q] - 1) : shown'[b] > 0
    <3>1. \A q \in Requests : pc'[q] \in Working => pc[q] \in Working
      BY <2>1 DEF IInv, Shape, Working
    <3>2. \A q \in Requests : \A b \in 1..(at[q] - 1) : b \in Chunks
      BY DEF IInv, Shape
    <3> QED BY <2>1, <2>2, <3>1, <3>2 DEF IInv, Ordered
  <2>7. Ordered'
    BY <2>1, <2>2, <2>5, <2>6 DEF IInv, Shape, Ordered, Working
  <2> QED BY <2>2, <2>3, <2>7 DEF IInv
<1>8. ASSUME NEW r \in Requests, Record(r) PROVE IInv'
  <2>1. pc[r] = "record" /\ at[r] \in Chunks /\ shown[at[r]] > 0 /\ Advance(r)
        /\ UNCHANGED <<shown, known, late, open, answer>>
    BY <1>8 DEF Record, IInv, Shape, Ordered, discordVars
  <2>2. CASE owner[at[r]] = r
    <3>1. outcome' = [outcome EXCEPT ![at[r]] = "sent"]
      BY <1>8, <2>2 DEF Record
    <3>2. /\ at' \in [Requests -> Chunks]
          /\ pc' \in [Requests -> Working \cup {"idle"}]
          /\ \A q \in Requests \ {r} : at'[q] = at[q] /\ pc'[q] = pc[q]
          /\ at'[r] - 1 <= at[r] /\ pc'[r] \in {"claim", "done"}
          /\ pc'[r] = "done" => at[r] = N
      BY <2>1, AdvanceTypes DEF IInv
    <3>3. Shape' /\ \A b \in 1..at[r] : shown[b] > 0
      BY <2>1, <3>1, <3>2 DEF IInv, Shape, Ordered
    <3>4. \A q \in Requests : pc'[q] \in Working => \A b \in 1..(at'[q] - 1) : shown[b] > 0
      <4>1. \A b \in 1..(at'[r] - 1) : shown[b] > 0
        BY <2>1, <3>2, <3>3
      <4> QED BY <3>2, <4>1 DEF IInv, Ordered
    <3>5. \A q \in Requests : pc'[q] = "done" => \A b \in Chunks : shown[b] > 0
      BY <2>1, <3>2, <3>3 DEF IInv, Ordered
    <3>6. \A q \in Requests : pc'[q] = "record" => shown[at'[q]] > 0
      BY <2>1, <3>2 DEF IInv, Ordered
    <3>7. Ordered'
      BY <2>1, <3>1, <3>4, <3>5, <3>6 DEF IInv, Shape, Ordered
    <3> QED BY <2>1, <3>3, <3>7 DEF IInv
  <2>3. CASE owner[at[r]] # r
    <3>1. pc[r] \in Working /\ UNCHANGED <<outcome, shown, known, late, open, answer>>
      BY <1>8, <2>1, <2>3 DEF Record, Working
    <3> QED BY <2>1, <3>1, AdvanceKeeps
  <2> QED BY <2>2, <2>3
<1>9. ASSUME NEW r \in Requests, Release(r) \/ Finish(r) PROVE IInv'
  BY <1>9 DEF Release, Finish, Goto, IInv, Shape, Ordered, Working, keyVars, discordVars
<1>10. CASE UNCHANGED vars
  BY <1>10 DEF vars, IInv, Shape, Ordered, keyVars, requestVars, discordVars
<1> QED
  BY <1>1, <1>2, <1>3, <1>4, <1>5, <1>6, <1>7, <1>8, <1>9, <1>10 DEF Next, Step

\* Every step keeps the fence.
LEMMA StepKeepsFence == Shape /\ Fence /\ [Next]_vars => Fence'
<1> SUFFICES ASSUME Shape, Fence, [Next]_vars PROVE Fence'
  OBVIOUS
<1>1. CASE MoveOn \/ WindowEnds \/ Crash
  BY <1>1 DEF MoveOn, WindowEnds, Crash, Shape, Fence, keyVars, requestVars, discordVars
<1>2. ASSUME NEW c \in Chunks, LeaseExpires(c) \/ Forget(c) PROVE Fence'
  BY <1>2 DEF LeaseExpires, Forget, Fence, keyVars, requestVars, discordVars
<1>3. ASSUME NEW r \in Requests, Start(r) \/ Claim(r) \/ Record(r) PROVE Fence'
  BY <1>3 DEF Start, Claim, Record, Advance, Goto, Shape, Fence, discordVars
<1>4. ASSUME NEW r \in Requests, Check(r) \/ Charge(r) PROVE Fence'
  BY <1>4 DEF Check, Charge, Goto, Shape, Fence, discordVars
<1>5. ASSUME NEW r \in Requests, Send(r) PROVE Fence'
  BY <1>5 DEF Send, Goto, Shape, Fence
<1>6. ASSUME NEW r \in Requests, Refused(r) \/ Raise(r) \/ Release(r) \/ Finish(r) PROVE Fence'
  BY <1>6 DEF Refused, Raise, Release, Finish, Goto, Shape, Fence, discordVars
<1>7. CASE UNCHANGED vars
  BY <1>7 DEF vars, Fence, requestVars, discordVars
<1> QED BY <1>1, <1>2, <1>3, <1>4, <1>5, <1>6, <1>7 DEF Next, Step

\* However often the reply is asked for, a request that was cleared before the
\* session moved on posts at most that one chunk afterwards.
THEOREM LateChunkBounded == Spec => []OneLateChunk
<1>1. Init => IInv /\ Fence
  BY InitOK
<1>2. IInv /\ Fence /\ [Next]_vars => (IInv /\ Fence)'
  BY StepKeepsOrder, StepKeepsFence DEF IInv
<1>3. IInv /\ Fence => OneLateChunk
  BY DEF Fence, OneLateChunk
<1> QED BY <1>1, <1>2, <1>3, PTL DEF Spec

-----------------------------------------------------------------------------
\* Between two losses of its nonce a chunk is shown once.
Deduplicated ==
    /\ shown \in [Chunks -> Nat] /\ forgets \in [Chunks -> Nat]
    /\ \A c \in Chunks : shown[c] <= 1 + forgets[c]
    /\ \A c \in Chunks \ known : shown[c] <= forgets[c]

LEMMA StepDeduplicates ==
    Shape /\ Deduplicated /\ [Next]_vars => Deduplicated'
<1> SUFFICES ASSUME Shape, Deduplicated, [Next]_vars PROVE Deduplicated'
  OBVIOUS
<1>1. CASE UNCHANGED <<shown, known, forgets>>
  BY <1>1 DEF Deduplicated
<1>2. ASSUME NEW c \in Chunks, Forget(c) PROVE Deduplicated'
  <2>1. /\ forgets' = [forgets EXCEPT ![c] = @ + 1] /\ known' = known \ {c} /\ shown' = shown
    BY <1>2 DEF Forget
  <2>2. forgets' \in [Chunks -> Nat] /\ forgets'[c] = forgets[c] + 1
    BY <2>1 DEF Deduplicated
  <2> QED BY <2>1, <2>2 DEF Deduplicated
<1>3. ASSUME NEW r \in Requests, Send(r) PROVE Deduplicated'
  <2>1. at[r] \in Chunks /\ forgets' = forgets
    BY <1>3 DEF Send, Shape
  <2>2. CASE at[r] \in known
    BY <1>3, <2>1, <2>2 DEF Send, Post, Deduplicated
  <2>3. CASE at[r] \notin known
    <3>1. shown' = [shown EXCEPT ![at[r]] = @ + 1] /\ known' = known \cup {at[r]}
      BY <1>3, <2>3 DEF Send, Post
    <3>2. shown' \in [Chunks -> Nat] /\ shown'[at[r]] = shown[at[r]] + 1
      BY <3>1, <2>1 DEF Deduplicated
    <3> QED BY <2>1, <2>3, <3>1, <3>2 DEF Deduplicated
  <2> QED BY <2>2, <2>3
<1>4. ASSUME NEW r \in Requests,
             \/ Start(r) \/ Claim(r) \/ Check(r) \/ Charge(r) \/ Refused(r)
             \/ Record(r) \/ Raise(r) \/ Release(r) \/ Finish(r)
      PROVE UNCHANGED <<shown, known, forgets>>
  BY <1>4 DEF Start, Claim, Check, Charge, Refused, Record, Raise, Release, Finish, discordVars
<1>5. ASSUME MoveOn \/ WindowEnds \/ Crash \/ (\E c \in Chunks : LeaseExpires(c)) \/ UNCHANGED vars
      PROVE UNCHANGED <<shown, known, forgets>>
  BY <1>5 DEF MoveOn, WindowEnds, Crash, LeaseExpires, vars, discordVars
<1> QED BY <1>1, <1>2, <1>3, <1>4, <1>5 DEF Next, Step

\* A chunk appears once more only after Discord forgot its nonce, however many
\* requests send it, crash over it or lose its lease.
THEOREM ShownOnce == Spec => []ShownOncePerWindow
<1>1. Init => IInv /\ Deduplicated
  <2>1. Init => Deduplicated
    BY DEF Init, Deduplicated
  <2> QED BY <2>1, InitOK
<1>2. IInv /\ Deduplicated /\ [Next]_vars => (IInv /\ Deduplicated)'
  BY StepKeepsOrder, StepDeduplicates DEF IInv
<1>3. Deduplicated => ShownOncePerWindow
  BY DEF Deduplicated, ShownOncePerWindow
<1> QED BY <1>1, <1>2, <1>3, PTL DEF Spec

-----------------------------------------------------------------------------
\* Shorthands for the abstract state.
Visible == {c \in Chunks : shown[c] > 0}

LEMMA StepRefines == IInv /\ [Next]_vars => [Promise!Next]_<<Visible, answer>>
<1> SUFFICES ASSUME IInv, [Next]_vars PROVE [Promise!Next]_<<Visible, answer>>
  OBVIOUS
<1> USE ReplyAssumption DEF Chunks
<1>1. CASE UNCHANGED <<shown, answer>>
  BY <1>1 DEF Visible
<1>2. ASSUME NEW r \in Requests, Send(r) PROVE [Promise!Next]_<<Visible, answer>>
  <2> DEFINE c == at[r]
  <2>1. c \in Chunks /\ UNCHANGED answer /\ shown \in [Chunks -> Nat]
        /\ \A b \in 1..(c - 1) : shown[b] > 0
    BY <1>2 DEF Send, IInv, Shape, Ordered, Working
  <2>2. CASE shown[c] > 0
    <3>1. \A b \in Chunks : shown'[b] > 0 <=> shown[b] > 0
      <4>1. CASE at[r] \in known
        BY <1>2, <4>1 DEF Send, Post
      <4>2. CASE at[r] \notin known
        <5>1. shown' = [shown EXCEPT ![c] = @ + 1]
          BY <1>2, <4>2 DEF Send, Post
        <5>2. shown'[c] > 0 /\ \A b \in Chunks \ {c} : shown'[b] = shown[b]
          BY <5>1, <2>1, <2>2
        <5> QED BY <5>2, <2>2
      <4> QED BY <4>1, <4>2
    <3> QED BY <3>1, <2>1 DEF Visible
  <2>3. CASE ~(shown[c] > 0)
    <3>1. \A b \in Chunks : shown[b] > 0 <=> b < c
      BY <2>1, <2>3 DEF IInv, Ordered
    <3>2. shown' = [shown EXCEPT ![c] = @ + 1]
      BY <1>2, <2>1, <2>3 DEF Send, Post, IInv
    <3>3. \A b \in Chunks : shown'[b] > 0 <=> b <= c
      BY <3>1, <3>2, <2>1
    <3>4. Visible = 1..(c - 1) /\ Visible' = 1..c
      BY <3>1, <3>3, <2>1 DEF Visible
    <3>5. \E b \in 1..N : Visible = 1..(b - 1) /\ Visible' = 1..b /\ UNCHANGED answer
      BY <3>4, <2>1
    <3> QED BY <3>5 DEF Promise!Next, Promise!Show, Visible
  <2> QED BY <2>2, <2>3
<1>3. ASSUME NEW r \in Requests, Release(r) PROVE [Promise!Next]_<<Visible, answer>>
  <2>1. UNCHANGED Visible
    BY <1>3 DEF Release, discordVars, Visible
  <2>2. answer' = answer \/ Promise!Reject
    BY <1>3, <2>1 DEF Release, Promise!Reject, Visible
  <2> QED BY <2>1, <2>2 DEF Promise!Next
<1>4. ASSUME NEW r \in Requests, Finish(r) PROVE [Promise!Next]_<<Visible, answer>>
  <2>1. UNCHANGED Visible
    BY <1>4 DEF Finish, discordVars, Visible
  <2>2. Visible = 1..N
    BY <1>4 DEF Finish, IInv, Ordered, Visible
  <2>3. answer' = answer \/ Promise!Deliver
    BY <1>4, <2>1, <2>2 DEF Finish, Promise!Deliver, Visible
  <2> QED BY <2>1, <2>3 DEF Promise!Next
<1>5. CASE UNCHANGED vars
  BY <1>1, <1>5 DEF vars, discordVars
<1>6. ASSUME NEW r \in Requests,
             Start(r) \/ Claim(r) \/ Check(r) \/ Charge(r) \/ Refused(r) \/ Record(r) \/ Raise(r)
      PROVE UNCHANGED <<shown, answer>>
  BY <1>6 DEF Start, Claim, Check, Charge, Refused, Record, Raise, discordVars
<1>7. ASSUME MoveOn \/ WindowEnds \/ Crash \/ \E c \in Chunks : LeaseExpires(c) \/ Forget(c)
      PROVE UNCHANGED <<shown, answer>>
  BY <1>7 DEF MoveOn, WindowEnds, Crash, LeaseExpires, Forget, discordVars
<1> QED
  BY <1>1, <1>2, <1>3, <1>4, <1>5, <1>6, <1>7 DEF Next, Step

\* Chunks come into view in order, and the turn hears "delivered" only when the
\* whole reply is there: ReplyDelivery implements ReplyPromise.
THEOREM ReplyKeepsPromise == Spec => KeepsPromise
<1>1. Init => Promise!Init
  BY ReplyAssumption DEF Init, Promise!Init, Chunks
<1>2. Spec => []IInv
  <2>1. Init => IInv
    BY InitOK
  <2> QED BY <2>1, StepKeepsOrder, PTL DEF Spec
<1>3. IInv /\ [Next]_vars => [Promise!Next]_<<{c \in Chunks : shown[c] > 0}, answer>>
  BY StepRefines DEF Visible
<1> QED BY <1>1, <1>2, <1>3, PTL DEF Spec, KeepsPromise, Promise!Spec
=============================================================================
