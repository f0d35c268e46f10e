--------------------------- MODULE BookingLifecycle ---------------------------
(***************************************************************************)
(* What the booking engine promises about the committed contents of the    *)
(* tables bookings, payments and audit_trail, one atomic step per          *)
(* committed transaction and nothing about how it gets there: no locks, no *)
(* statements, no gateway, no clock.  BookingEngine implements it.         *)
(***************************************************************************)
EXTENDS Sequences, BookingTypes

CONSTANTS
    Bookings,   \* primary keys of table bookings
    Slots,      \* pairs (schedule, seat)
    NoSlot      \* the slot of a booking that has no row

VARIABLES
    status,     \* bookings.status, "none" while the row does not exist
    slot,       \* bookings.(schedule_id, seat_id)
    receipts,   \* table payments, as (booking, status) pairs
    audit       \* table audit_trail, the entries of each booking in order

lifecycleVars == <<status, slot, receipts, audit>>

Init ==
    /\ status = [b \in Bookings |-> "none"]
    /\ slot = [b \in Bookings |-> NoSlot]
    /\ receipts = {}
    /\ audit = [b \in Bookings |-> << >>]

\* create_booking commits: the row and its first audit entry.
Reserve(b, s) ==
    /\ status[b] = "none"
    /\ \A c \in Bookings : status[c] \in Holding => slot[c] # s
    /\ status' = [status EXCEPT ![b] = "reserved"]
    /\ slot' = [slot EXCEPT ![b] = s]
    /\ audit' = [audit EXCEPT ![b] = << Entry("reserved", "none", "reserved") >>]
    /\ UNCHANGED receipts

\* pay_booking commits: the new status, the payment and two audit entries.
Settle(b, new, paymentStatus, action) ==
    /\ status[b] = "reserved"
    /\ status' = [status EXCEPT ![b] = new]
    /\ receipts' = receipts \cup {[booking |-> b, status |-> paymentStatus]}
    /\ audit' = [audit EXCEPT ![b] = Append(
                    Append(@, Entry("payment_attempted", "reserved", "reserved")),
                    Entry(action, "reserved", new))]
    /\ UNCHANGED slot

Confirm(b) == Settle(b, "confirmed", "success", "confirmed")
Decline(b) == Settle(b, "cancelled", "failed", "payment_failed")

\* One pass of the cleanup task commits: a whole batch at once.
Expire(batch) ==
    /\ batch # {}
    /\ \A b \in batch : status[b] = "reserved"
    /\ status' = [b \in Bookings |->
                    IF b \in batch THEN "cancelled" ELSE status[b]]
    /\ audit' = [b \in Bookings |->
                    IF b \in batch
                    THEN Append(audit[b], Entry("expired_cleanup", "reserved", "cancelled"))
                    ELSE audit[b]]
    /\ UNCHANGED <<slot, receipts>>

\* refund_booking commits.
Refund(b) ==
    /\ status[b] = "confirmed"
    /\ status' = [status EXCEPT ![b] = "refunded"]
    /\ audit' = [audit EXCEPT ![b] =
                    Append(@, Entry("refunded", "confirmed", "refunded"))]
    /\ UNCHANGED <<slot, receipts>>

Next ==
    \/ \E b \in Bookings, s \in Slots : Reserve(b, s)
    \/ \E b \in Bookings : Confirm(b) \/ Decline(b) \/ Refund(b)
    \/ \E batch \in SUBSET Bookings : Expire(batch)

Spec == Init /\ [][Next]_lifecycleVars
===============================================================================
