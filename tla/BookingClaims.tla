----------------------------- MODULE BookingClaims -----------------------------
(***************************************************************************)
(* What the repository's documents and tests say of the booking engine and *)
(* the code does not do.  Each formula is violated by BookingEngine.       *)
(***************************************************************************)
EXTENDS BookingEngine

\* "Seat released for rebooking": a cancelled or refunded booking does not keep
\* create_booking from selling its slot again.
CancelledSeatRebookable == \A r \in Creates : outcome[r] # "child_rows"

\* "Exactly one 201, one 409": a create that loses the race for a slot is told
\* so by an answer of the handler; only a shared key may end in the constraint.
LoserGetsConflict ==
    \A r \in Creates : outcome[r] = "unique_violation" =>
        \E b \in Creates \ {r} : call[b].key = call[r].key

\* "There is no window where a concurrent request could create a conflicting
\* booking": the live bookings of a user never overlap in time.
NoOverlappingJourneys ==
    \A b, c \in Creates :
        /\ Holds(b) /\ Holds(c) /\ call[b].user = call[c].user
        /\ JourneysOverlap(call[b].schedule, call[c].schedule)
        => b = c

\* "If the gateway charge succeeded but the commit fails ... this is handled":
\* a charge that no payment row records leaves its booking open to a retry.
UnrecordedChargeCanRetry ==
    \A a \in charged :
        \/ \E p \in payments : p.ref = a
        \/ status[call[a].booking] = "reserved"

\* "Atomic commit includes booking status + gateway.refund() + audit": when a
\* refund request is over, the gateway has paid back only what is refunded.
RefundAtomic ==
    \A r \in refundCalls : pc[r] = "done" => status[call[r].booking] = "refunded"

\* "Retry returns original result": a payment sent again with its key is not
\* answered with an error once the first was confirmed.
RetryReturnsOriginal ==
    \A r, q \in Pays :
        outcome[q] = "confirmed" /\ call[r] = call[q] => outcome[r] # "not_reserved"
===============================================================================
