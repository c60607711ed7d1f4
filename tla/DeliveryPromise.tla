---------------------------- MODULE DeliveryPromise ----------------------------
(***************************************************************************)
(* What the outbox, its relay and a consumer group promise together to the *)
(* code that writes an outbox row: the row stays in the system until its   *)
(* message was handled or is retained where an operator finds it.  The     *)
(* message may be handled more than once, and after it was given up on.    *)
(***************************************************************************)
CONSTANT Rows        \* redis_outbox rows

VARIABLES accepted,  \* rows whose transaction committed
          handled,   \* rows whose message some handler worked through
          parked,    \* rows whose message is in a dead-letter hash
          closed     \* rows nothing will be delivered for any more

vars == <<accepted, handled, parked, closed>>

Init == accepted = {} /\ handled = {} /\ parked = {} /\ closed = {}

Accept(r) ==
    /\ r \notin accepted
    /\ accepted' = accepted \cup {r}
    /\ UNCHANGED <<handled, parked, closed>>

\* Also after the row was closed: another process may still be at it.
Handle(r) ==
    /\ r \in accepted
    /\ handled' = handled \cup {r}
    /\ UNCHANGED <<accepted, parked, closed>>

Park(r) ==
    /\ r \in accepted
    /\ parked' = parked \cup {r}
    /\ closed' \in {closed, closed \cup {r}}
    /\ UNCHANGED <<accepted, handled>>

Close ==
    /\ \E rows \in SUBSET (handled \cup parked) : closed' = closed \cup rows
    /\ UNCHANGED <<accepted, handled, parked>>

Next == Close \/ \E r \in Rows : Accept(r) \/ Handle(r) \/ Park(r)

Spec == Init /\ [][Next]_vars
=============================================================================
