----------------------------- MODULE BookingEngine -----------------------------
(***************************************************************************)
(* The booking engine: create_booking, pay_booking and refund_booking as   *)
(* concurrent requests, the background cleanup task and the payment        *)
(* gateway, over PostgreSQL at READ COMMITTED.  Every await at which       *)
(* another request can run is a boundary between two actions, so a request *)
(* is a sequence of statements and what it read may be stale when it       *)
(* writes.  Uncommitted writes are invisible: the tables below are the     *)
(* committed ones, and a commit publishes all writes of its transaction in *)
(* one step.                                                               *)
(*                                                                         *)
(* A create request r inserts at most one row, with a fresh uuid, so r     *)
(* itself stands for that primary key; user_id, schedule_id, seat_id and   *)
(* idempotency_key of the row never change and are the arguments call[r].  *)
(***************************************************************************)
EXTENDS Naturals, FiniteSets, Sequences, BookingTypes

CONSTANTS
    Creates,        \* POST /bookings requests, and primary keys of bookings
    Pays,           \* POST /bookings/{id}/pay requests
    Refunds,        \* POST /bookings/{id}/refund requests
    UserIds,        \* user ids a client may send: the race demo takes any
    Users,          \* rows of table users
    ScheduleIds,    \* schedule ids a client may send
    Schedules,      \* rows of table schedules
    SeatIds,        \* seat ids a client may send
    Seats,          \* rows of table seats
    BookingKeys,    \* idempotency keys of bookings
    PayKeys,        \* idempotency keys of payments
    Workloads,      \* the request parameters to consider
    Departs,        \* schedules.departure_time
    Arrives,        \* schedules.arrival_time
    ReservationTTL, \* the five minutes of create_booking
    RefundCutoff,   \* the hour of refund_booking
    PoolSize,       \* connections of the engine's pool: 10 + 20 overflow
    MaxTime,        \* bound of the clock
    MaxFaults,      \* bound of the number of failures
    Cleaner,        \* the cleanup task, as the holder of a row lock
    Declined,       \* the gateway's result for a failed charge
    None            \* no value

Requests == Creates \cup Pays \cup Refunds

CreateCalls == [user : UserIds, schedule : ScheduleIds, seat : SeatIds,
                key : BookingKeys]
PayCalls == [user : Users, booking : Creates, key : PayKeys]
RefundCalls == [user : Users, booking : Creates]

ASSUME RequestsAssumption ==
    /\ Creates \cap Pays = {} /\ Creates \cap Refunds = {} /\ Pays \cap Refunds = {}
    /\ Cleaner \notin Requests /\ None \notin Requests /\ Declined \notin Requests
    /\ Cleaner # None /\ Declined # None

ASSUME WorkloadsAssumption ==
    \A w \in Workloads :
        /\ \A r \in Creates : w[r] \in CreateCalls
        /\ \A r \in Pays : w[r] \in PayCalls
        /\ \A r \in Refunds : w[r] \in RefundCalls

\* The journeys are those of the seeding, which all take some hours.
ASSUME TimesAssumption ==
    /\ Schedules \subseteq ScheduleIds /\ Seats \subseteq SeatIds /\ Users \subseteq UserIds
    /\ Departs \in [Schedules -> Nat] /\ Arrives \in [Schedules -> Nat]
    /\ \A s \in Schedules : Departs[s] < Arrives[s]
    /\ ReservationTTL \in Nat /\ RefundCutoff \in Nat
    /\ PoolSize \in Nat \ {0} /\ MaxTime \in Nat /\ MaxFaults \in Nat

VARIABLES
    now,            \* the clock of the hosts and of the database
    call,           \* call[r]: path, body and bearer of request r
    status,         \* bookings.status
    expires,        \* bookings.expires_at
    payments,       \* table payments
    audit,          \* table audit_trail, the entries of each booking in id order
    lock,           \* lock[b]: the transaction holding FOR UPDATE on row b
    pc,             \* pc[r]: the statement request r executes next
    seen,           \* seen[r]: existing_booking of create request r
    charge,         \* charge[r]: charge_result of pay request r
    outcome,        \* outcome[r]: how request r ended
    processed,      \* MockPaymentGateway._processed
    charged,        \* pay requests whose charge took money (history)
    refundCalls,    \* refund requests that gave the money back (history)
    batch,          \* the rows the running cleanup pass has selected
    faults          \* number of failures so far

tables == <<status, expires, payments, audit>>
gateway == <<processed, charged, refundCalls>>
vars == <<now, call, tables, lock, pc, seen, charge, outcome, gateway, batch, faults>>

-------------------------------------------------------------------------------
(* Types and initial state *)

CreateSteps == {"lookup", "lock", "overlap", "replace", "insert", "indexed", "commit"}
PaySteps == {"pay_lock", "pay_lookup", "answering", "charging", "recording", "pay_commit"}
RefundSteps == {"refund_lock", "returning", "refund_commit"}
Steps == CreateSteps \cup PaySteps \cup RefundSteps

\* The ways a request ends: its answer, or the exception behind a 500.
Outcomes == {"none", "created", "found", "seat_taken", "overlapping", "not_found",
             "forbidden", "not_reserved", "expired", "already_paid", "confirmed",
             "cancelled", "not_confirmed", "too_late", "refunded",
             "unique_violation", "unknown_user", "child_rows", "multiple_results", "aborted"}

Payments == [booking : Creates, key : PayKeys, status : {"success", "failed"},
             ref : Pays \cup {None}]

TypeOK ==
    /\ now \in Nat
    /\ call \in Workloads
    /\ status \in [Creates -> Statuses]
    /\ expires \in [Creates -> Nat]
    /\ payments \subseteq Payments
    /\ audit \in [Creates -> Seq(Entries)]
    /\ lock \in [Creates -> Requests \cup {Cleaner, None}]
    /\ pc \in [Requests -> Steps \cup {"idle", "done"}]
    /\ seen \in [Creates -> Creates \cup {None}]
    /\ charge \in [Pays -> Pays \cup {Declined, None}]
    /\ outcome \in [Requests -> Outcomes]
    /\ processed \in [PayKeys -> Pays \cup {Declined, None}]
    /\ charged \subseteq Pays
    /\ refundCalls \subseteq Refunds
    /\ batch \subseteq Creates
    /\ faults \in Nat

Init ==
    /\ now = 0
    /\ call \in Workloads
    /\ status = [b \in Creates |-> "none"]
    /\ expires = [b \in Creates |-> 0]
    /\ payments = {}
    /\ audit = [b \in Creates |-> << >>]
    /\ lock = [b \in Creates |-> None]
    /\ pc = [r \in Requests |-> "idle"]
    /\ seen = [r \in Creates |-> None]
    /\ charge = [r \in Pays |-> None]
    /\ outcome = [r \in Requests |-> "none"]
    /\ processed = [k \in PayKeys |-> None]
    /\ charged = {}
    /\ refundCalls = {}
    /\ batch = {}
    /\ faults = 0

-------------------------------------------------------------------------------
(* Rows, locks and the ends of a request *)

Exists(b) == status[b] # "none"
Holds(b) == status[b] \in Holding
Slot(b) == <<call[b].schedule, call[b].seat>>
Free(b) == lock[b] = None

\* Locks are held to the end of the transaction, and all released there.
Unlocked(t) == [b \in Creates |-> IF lock[b] = t THEN None ELSE lock[b]]

Goto(r, step) == pc' = [pc EXCEPT ![r] = step]

\* The transaction of r is over: committed, or rolled back when the session
\* of an early return or of an exception is closed.
Finish(r, o) ==
    /\ pc' = [pc EXCEPT ![r] = "done"]
    /\ outcome' = [outcome EXCEPT ![r] = o]
    /\ lock' = Unlocked(r)

\* Faulty variant: an early return that leaves its session open.
Leave_KeepsLocks(r, o) ==
    /\ pc' = [pc EXCEPT ![r] = "done"]
    /\ outcome' = [outcome EXCEPT ![r] = o]
    /\ UNCHANGED <<now, call, tables, lock, seen, charge, gateway, batch, faults>>

\* An early return or an exception: nothing is written.
Leave(r, o) ==
    /\ Finish(r, o)
    /\ UNCHANGED <<now, call, tables, seen, charge, gateway, batch, faults>>

\* Request r executes a statement that writes nothing and goes on.
Continue(r, step) ==
    /\ Goto(r, step)
    /\ UNCHANGED <<now, call, tables, charge, outcome, gateway, batch, faults>>

InFlight(r) == pc[r] \notin {"idle", "done"}

\* A session takes a connection at its first statement and gives it back when
\* its transaction ends: a payment keeps one through the gateway's latency.
Connections == Cardinality({r \in Requests : InFlight(r)}) + (IF batch = {} THEN 0 ELSE 1)
PoolFull == Connections >= PoolSize

\* A request arrives, gets a connection and is dispatched to its handler.
Receive(r) ==
    /\ pc[r] = "idle"
    /\ ~PoolFull
    /\ Goto(r, CASE r \in Creates -> "lookup"
                 [] r \in Pays -> "pay_lock"
                 [] r \in Refunds -> "refund_lock")
    /\ UNCHANGED <<now, call, tables, lock, seen, charge, outcome, gateway, batch, faults>>

\* A request has waited for a connection until the pool's timeout: 500.
PoolTimeout(r) == pc[r] = "idle" /\ PoolFull /\ Leave(r, "aborted")

-------------------------------------------------------------------------------
(* create_booking *)

KeyRows(r) == {b \in Creates : Exists(b) /\ call[b].key = call[r].key}
SlotRows(r) == {b \in Creates : Exists(b) /\ Slot(b) = Slot(r)}

\* Faulty variant: journeys that touch overlap.
JourneysOverlap_Touching(s1, s2) == Departs[s1] <= Arrives[s2] /\ Arrives[s1] >= Departs[s2]

\* Two intervals overlap when each begins before the other ends.
JourneysOverlap(s1, s2) == Departs[s1] < Arrives[s2] /\ Arrives[s1] > Departs[s2]

\* The rows of the overlap query.
Overlapping(r) ==
    {b \in Creates : /\ Holds(b)
                     /\ call[b].user = call[r].user
                     /\ JourneysOverlap(call[b].schedule, call[r].schedule)}

\* scalar_one_or_none() raises MultipleResultsFound beyond one row.
OverlapAnswer(r) ==
    IF Cardinality(Overlapping(r)) > 1 THEN "multiple_results" ELSE "overlapping"

\* Step 1, idempotency: a row with the key is returned whoever made it.
CreateLookup(r) ==
    /\ pc[r] = "lookup"
    /\ \/ KeyRows(r) # {} /\ Leave(r, "found")
       \/ KeyRows(r) = {} /\ Continue(r, "lock") /\ UNCHANGED <<lock, seen>>

\* Step 2, SELECT ... FOR UPDATE of the slot.  It locks the row there is and
\* waits while another transaction holds it; with no committed row it locks
\* nothing.
CreateLock(r) ==
    /\ pc[r] = "lock"
    /\ \/ /\ SlotRows(r) = {}
          /\ Continue(r, "overlap")
          /\ UNCHANGED <<lock, seen>>
       \/ \E b \in SlotRows(r) :
            /\ Free(b)
            /\ \/ Holds(b) /\ Leave(r, "seat_taken")
               \/ /\ ~Holds(b)
                  /\ lock' = [lock EXCEPT ![b] = r]
                  /\ seen' = [seen EXCEPT ![r] = b]
                  /\ Continue(r, "overlap")

\* Step 3, the schedule must exist and the user be free to travel.
CreateOverlap(r) ==
    /\ pc[r] = "overlap"
    /\ IF call[r].schedule \notin Schedules
       THEN Leave(r, "not_found")
       ELSE IF Overlapping(r) # {}
       THEN Leave(r, OverlapAnswer(r))
       ELSE Continue(r, "replace") /\ UNCHANGED <<lock, seen>>

\* Faulty variant: deleting a booking deletes its audit trail.
HasChildRows_Payments(b) == \E p \in payments : p.booking = b

\* Rows that a row's deletion orphans.  Their foreign key is NOT NULL and the
\* relationships have no delete cascade, so the flush of the deletion sets it
\* to NULL and fails.
HasChildRows(b) == audit[b] # << >> \/ \E p \in payments : p.booking = b

\* Faulty variant: the deadline lies in the past.
Deadline_Past == now - ReservationTTL

\* expires_at of a new booking.
Deadline == now + ReservationTTL

\* Steps 4 and 5, first half: the seat must exist, an inactive row in the slot is
\* deleted, and the new row is made.
CreateReplace(r) ==
    /\ pc[r] = "replace"
    /\ IF call[r].seat \notin Seats
       THEN Leave(r, "not_found")
       ELSE IF seen[r] # None /\ HasChildRows(seen[r])
       THEN Leave(r, "child_rows")
       ELSE /\ expires' = [expires EXCEPT ![r] = Deadline]
            /\ Goto(r, "insert")
            /\ UNCHANGED <<now, call, status, payments, audit, lock, seen,
                           charge, outcome, gateway, batch, faults>>

\* Faulty variants: one of the unique constraints is missing.
SameKey_Unchecked(r, q) == FALSE
SameSlot_Unchecked(r, q) == FALSE

\* The two unique constraints of table bookings.
SameKey(r, q) == call[r].key = call[q].key
SameSlot(r, q) == Slot(r) = Slot(q)

\* Faulty variant: everybody on the way into a slot has a shared claim on it.
PendingTwins_Shared(r) ==
    {q \in Creates \ {r} :
        \/ pc[r] = "insert" /\ pc[q] \in {"indexed", "commit"} /\ SameKey(r, q)
        \/ pc[r] = "indexed" /\ pc[q] \in {"indexed", "commit"} /\ SameSlot(r, q)}

\* The INSERT makes the index entries of a row in the order in which the schema
\* declares the constraints, first the key's, then the slot's.  Each waits for the
\* transactions whose uncommitted row has that entry.
PendingTwins(r) ==
    {q \in Creates :
        \/ pc[r] = "insert" /\ pc[q] \in {"indexed", "commit"} /\ SameKey(r, q)
        \/ pc[r] = "indexed" /\ pc[q] = "commit" /\ SameSlot(r, q)}

\* Step 5, second half: the INSERT, up to its entry for the key.
CreateInsert(r) ==
    /\ pc[r] = "insert"
    /\ PendingTwins(r) = {}
    /\ IF \E b \in Creates \ {seen[r]} : Exists(b) /\ SameKey(r, b)
       THEN Leave(r, "unique_violation")
       ELSE Continue(r, "indexed") /\ UNCHANGED <<lock, seen>>

\* The rest of the INSERT: the entry for the slot, and the foreign keys, of which
\* that of the user is the one nobody has looked at before.
CreateIndex(r) ==
    /\ pc[r] = "indexed"
    /\ PendingTwins(r) = {}
    /\ IF \E b \in Creates \ {seen[r]} : Exists(b) /\ SameSlot(r, b)
       THEN Leave(r, "unique_violation")
       ELSE IF call[r].user \notin Users
       THEN Leave(r, "unknown_user")
       ELSE Continue(r, "commit") /\ UNCHANGED <<lock, seen>>

\* Step 6, audit and COMMIT: the new row appears and the deleted one goes.
CreateCommit(r) ==
    /\ pc[r] = "commit"
    /\ status' = [b \in Creates |-> IF b = r THEN "reserved"
                                    ELSE IF b = seen[r] THEN "none"
                                    ELSE status[b]]
    /\ audit' = [audit EXCEPT ![r] = << Entry("reserved", "none", "reserved") >>]
    /\ Finish(r, "created")
    /\ UNCHANGED <<now, call, expires, payments, seen, charge, gateway, batch, faults>>

CreateStep(r) ==
    \/ CreateLookup(r) \/ CreateLock(r) \/ CreateOverlap(r)
    \/ CreateReplace(r) \/ CreateInsert(r) \/ CreateIndex(r) \/ CreateCommit(r)

-------------------------------------------------------------------------------
(* pay_booking and the gateway *)

Expired(b) == expires[b] < now

\* Faulty variant: pay_booking does not look at the status.
PayRefusal_NoStatus(r, b) ==
    IF call[b].user # call[r].user THEN "forbidden"
    ELSE IF Expired(b) THEN "expired"
    ELSE "none"

\* The early returns of pay_booking, in the order of the code; "none" lets
\* the payment through.
PayRefusal(r, b) ==
    IF call[b].user # call[r].user THEN "forbidden"
    ELSE IF status[b] # "reserved" THEN "not_reserved"
    ELSE IF Expired(b) THEN "expired"
    ELSE "none"

\* SELECT ... FOR UPDATE of the booking and the checks of what it returns.
PayLock(r) ==
    LET b == call[r].booking IN
    /\ pc[r] = "pay_lock"
    /\ \/ ~Exists(b) /\ Leave(r, "not_found")
       \/ /\ Exists(b)
          /\ Free(b)
          /\ IF PayRefusal(r, b) # "none"
             THEN Leave(r, PayRefusal(r, b))
             ELSE /\ lock' = [lock EXCEPT ![b] = r]
                  /\ Continue(r, "pay_lookup")
                  /\ UNCHANGED seen

\* Faulty variant: only failed payments are found.
KeyPaid_FailedOnly(k) == \E p \in payments : p.key = k /\ p.status = "failed"

\* The unique key of table payments, looked up and enforced.
KeyPaid(k) == \E p \in payments : p.key = k

\* A key that has paid before answers with the booking as it is.
PayLookup(r) ==
    /\ pc[r] = "pay_lookup"
    /\ Continue(r, IF KeyPaid(call[r].key) THEN "answering" ELSE "charging")
    /\ UNCHANGED <<lock, seen>>

\* The answer is composed in the same transaction, with the row still locked.
PayAnswer(r) == pc[r] = "answering" /\ Leave(r, "already_paid")

\* Faulty variant: the gateway ignores the idempotency key.
GatewayAnswers_NoMemory(r) == {r, Declined}

\* What the gateway may answer to request r: the remembered result of its key,
\* or a fresh one, where a success is named by the request that took the money.
GatewayAnswers(r) ==
    IF processed[call[r].key] # None THEN {processed[call[r].key]} ELSE {r, Declined}

\* payment_gateway.charge, after its latency.
PayCharge(r) ==
    /\ pc[r] = "charging"
    /\ \E a \in GatewayAnswers(r) :
         /\ charge' = [charge EXCEPT ![r] = a]
         /\ processed' = [processed EXCEPT ![call[r].key] = a]
         /\ charged' = IF a = r THEN charged \cup {r} ELSE charged
    /\ Goto(r, "recording")
    /\ UNCHANGED <<now, call, tables, lock, seen, outcome, refundCalls, batch, faults>>

\* Uncommitted payments with the key of r, for which its flush waits.
PendingPayments(r) ==
    {q \in Pays : pc[r] = "recording" /\ pc[q] = "pay_commit" /\ call[q].key = call[r].key}

\* The flush of the commit inserts the payment.  It waits, with its booking still
\* locked, for another's uncommitted payment of the same key.
PayFlush(r) ==
    /\ pc[r] = "recording"
    /\ PendingPayments(r) = {}
    /\ \/ KeyPaid(call[r].key) /\ Leave(r, "unique_violation")
       \/ ~KeyPaid(call[r].key) /\ Continue(r, "pay_commit") /\ UNCHANGED <<lock, seen>>

\* The payment row and the two audit entries of pay request r, COMMIT.
Record(r, new, paymentStatus, ref, action) ==
    LET b == call[r].booking IN
    /\ status' = [status EXCEPT ![b] = new]
    /\ payments' = payments \cup {[booking |-> b, key |-> call[r].key,
                                   status |-> paymentStatus, ref |-> ref]}
    /\ audit' = [audit EXCEPT ![b] = Append(
                    Append(@, Entry("payment_attempted", "reserved", "reserved")),
                    Entry(action, "reserved", new))]
    /\ Finish(r, new)
    /\ UNCHANGED <<now, call, expires, seen, charge, gateway, batch, faults>>

PayCommit(r) ==
    /\ pc[r] = "pay_commit"
    /\ IF charge[r] # Declined
       THEN Record(r, "confirmed", "success", charge[r], "confirmed")
       ELSE Record(r, "cancelled", "failed", None, "payment_failed")

PayStep(r) ==
    PayLock(r) \/ PayLookup(r) \/ PayAnswer(r) \/ PayCharge(r) \/ PayFlush(r) \/ PayCommit(r)

-------------------------------------------------------------------------------
(* refund_booking *)

\* Faulty variant: refund_booking does not look at the status.
RefundRefusal_NoStatus(r, b) ==
    IF call[b].user # call[r].user THEN "forbidden"
    ELSE IF Departs[call[b].schedule] < now + RefundCutoff THEN "too_late"
    ELSE "none"

\* The early returns of refund_booking, in the order of the code.
RefundRefusal(r, b) ==
    IF call[b].user # call[r].user THEN "forbidden"
    ELSE IF status[b] # "confirmed" THEN "not_confirmed"
    ELSE IF Departs[call[b].schedule] < now + RefundCutoff THEN "too_late"
    ELSE "none"

\* SELECT ... FOR UPDATE of the booking and the checks of what it returns.
RefundLock(r) ==
    LET b == call[r].booking IN
    /\ pc[r] = "refund_lock"
    /\ \/ ~Exists(b) /\ Leave(r, "not_found")
       \/ /\ Exists(b)
          /\ Free(b)
          /\ IF RefundRefusal(r, b) # "none"
             THEN Leave(r, RefundRefusal(r, b))
             ELSE /\ lock' = [lock EXCEPT ![b] = r]
                  /\ Continue(r, "returning")
                  /\ UNCHANGED seen

SuccessPayments(b) == {p \in payments : p.booking = b /\ p.status = "success"}

\* The payment is looked up and the gateway gives its money back.
RefundReturn(r) ==
    LET paid == SuccessPayments(call[r].booking) IN
    /\ pc[r] = "returning"
    /\ IF Cardinality(paid) > 1
       THEN Leave(r, "multiple_results")
       ELSE /\ refundCalls' = IF paid = {} THEN refundCalls ELSE refundCalls \cup {r}
            /\ Goto(r, "refund_commit")
            /\ UNCHANGED <<now, call, tables, lock, seen, charge, outcome,
                           processed, charged, batch, faults>>

RefundCommit(r) ==
    LET b == call[r].booking IN
    /\ pc[r] = "refund_commit"
    /\ status' = [status EXCEPT ![b] = "refunded"]
    /\ audit' = [audit EXCEPT ![b] =
                    Append(@, Entry("refunded", "confirmed", "refunded"))]
    /\ Finish(r, "refunded")
    /\ UNCHANGED <<now, call, expires, payments, seen, charge, gateway, batch, faults>>

RefundStep(r) == RefundLock(r) \/ RefundReturn(r) \/ RefundCommit(r)

-------------------------------------------------------------------------------
(* cleanup_expired_reservations *)

\* Faulty variants: a pass that reads locked rows, that takes every overdue
\* row, that compares the times the wrong way round.
Releasable_Locked == {b \in Creates : status[b] = "reserved" /\ Expired(b)}
Releasable_AnyStatus == {b \in Creates : Exists(b) /\ Expired(b) /\ Free(b)}
Releasable_Swapped == {b \in Creates : status[b] = "reserved" /\ now < expires[b] /\ Free(b)}

\* What a pass selects: it skips the rows that are locked.
Releasable == {b \in Creates : status[b] = "reserved" /\ Expired(b) /\ Free(b)}

CleanupSelect ==
    /\ batch = {} /\ Releasable # {} /\ ~PoolFull
    /\ batch' = Releasable
    /\ lock' = [b \in Creates |-> IF b \in Releasable THEN Cleaner ELSE lock[b]]
    /\ UNCHANGED <<now, call, tables, pc, seen, charge, outcome, gateway, faults>>

\* The pass is over and its locks are gone.
CleanupEnd ==
    /\ batch' = {}
    /\ lock' = Unlocked(Cleaner)
    /\ UNCHANGED <<now, call, expires, payments, pc, seen, charge, outcome, gateway>>

CleanupCommit ==
    /\ batch # {}
    /\ status' = [b \in Creates |-> IF b \in batch THEN "cancelled" ELSE status[b]]
    /\ audit' = [b \in Creates |->
                    IF b \in batch
                    THEN Append(audit[b], Entry("expired_cleanup", "reserved", "cancelled"))
                    ELSE audit[b]]
    /\ CleanupEnd
    /\ UNCHANGED faults

-------------------------------------------------------------------------------
(* Failures, time, and the whole *)

Fault == faults < MaxFaults /\ faults' = faults + 1

\* Faulty variant: the audit entries are committed apart from the statuses.
CleanupFail_AuditKept ==
    /\ batch # {}
    /\ Fault
    /\ CleanupEnd
    /\ audit' = [b \in Creates |->
                    IF b \in batch
                    THEN Append(audit[b], Entry("expired_cleanup", "reserved", "cancelled"))
                    ELSE audit[b]]
    /\ UNCHANGED status

\* A pass that raises is rolled back, logged and tried again a minute later.
CleanupFail ==
    /\ batch # {}
    /\ Fault
    /\ CleanupEnd
    /\ UNCHANGED <<status, audit>>

\* The statement or the connection of request r fails: rolled back, 500.
Abort(r) ==
    /\ InFlight(r)
    /\ Fault
    /\ Finish(r, "aborted")
    /\ UNCHANGED <<now, call, tables, seen, charge, gateway, batch>>

\* The process dies: the database rolls every open transaction back, and the
\* gateway, an object of the process, forgets what it has processed.
Crash ==
    /\ Fault
    /\ pc' = [r \in Requests |-> IF InFlight(r) THEN "done" ELSE pc[r]]
    /\ outcome' = [r \in Requests |-> IF InFlight(r) THEN "aborted" ELSE outcome[r]]
    /\ lock' = [b \in Creates |-> None]
    /\ batch' = {}
    /\ processed' = [k \in PayKeys |-> None]
    /\ UNCHANGED <<now, call, tables, seen, charge, charged, refundCalls>>

Tick ==
    /\ now < MaxTime
    /\ now' = now + 1
    /\ UNCHANGED <<call, tables, lock, pc, seen, charge, outcome, gateway, batch, faults>>

\* Everything is answered, the clock has reached its bound and no pass has
\* anything to do: the only state in which the system may stop.
Rest ==
    /\ \A r \in Requests : pc[r] = "done"
    /\ now = MaxTime /\ batch = {} /\ Releasable = {}
    /\ UNCHANGED vars

Next ==
    \/ \E r \in Requests : Receive(r) \/ PoolTimeout(r) \/ Abort(r)
    \/ \E r \in Creates : CreateStep(r)
    \/ \E r \in Pays : PayStep(r)
    \/ \E r \in Refunds : RefundStep(r)
    \/ CleanupSelect \/ CleanupCommit \/ CleanupFail
    \/ Crash \/ Tick \/ Rest

Spec == Init /\ [][Next]_vars

\* The event loop and the database resume every request whose wait is over,
\* the cleanup task runs for ever, and the clock goes on.  Nothing obliges a
\* client to send a request, or anything to fail.
Fairness ==
    /\ \A r \in Creates : WF_vars(CreateStep(r))
    /\ \A r \in Pays : WF_vars(PayStep(r))
    /\ \A r \in Refunds : WF_vars(RefundStep(r))
    /\ WF_vars(CleanupSelect) /\ WF_vars(CleanupCommit)
    /\ WF_vars(Tick)

FairSpec == Spec /\ Fairness

-------------------------------------------------------------------------------
(* Safety *)

\* No two live bookings share a seat of a schedule, whichever statements of
\* concurrent create_booking calls interleave.
NoDoubleBooking ==
    \A b, c \in Creates : Holds(b) /\ Holds(c) /\ Slot(b) = Slot(c) => b = c

\* An idempotency key names at most one booking, also when two requests with
\* the same key pass the lookup of create_booking together.
KeyNamesOneBooking ==
    \A b, c \in Creates : Exists(b) /\ Exists(c) /\ call[b].key = call[c].key => b = c

\* Some instant finds a passenger of both schedules on board of both trains:
\* on board from the departure and no longer at the arrival.
OnBoardTogether(s1, s2) ==
    \E t \in Departs[s1] .. Arrives[s1] - 1 : t \in Departs[s2] .. Arrives[s2] - 1

\* A create that was refused for an overlap has been refused for a booking of
\* the same user that does keep him from travelling: connections that arrive at
\* the instant of the next departure are sold.
OverlapRefusalsJustified ==
    \A r \in Creates : outcome[r] \in {"overlapping", "multiple_results"} =>
        \E b \in Creates \ {r} :
            /\ Exists(b) /\ call[b].user = call[r].user
            /\ OnBoardTogether(call[b].schedule, call[r].schedule)

\* A transaction that waits for a row, or for another's pending booking, holds no
\* row lock: an inactive row that create_booking has locked never reaches the INSERT.
\* Only a payment waits with a row locked, for a pending payment of its key.
WaitersHoldNothing ==
    \A r \in Requests :
        pc[r] \in {"lock", "insert", "indexed", "pay_lock", "refund_lock"} =>
            \A b \in Creates : lock[b] # r

\* The locked rows at which request r waits, and the transactions it waits for; the
\* cleanup pass waits for nobody.
BlockingRows(r) ==
    {b \in Creates : /\ ~Free(b)
                     /\ \/ pc[r] = "lock" /\ b \in SlotRows(r)
                        \/ /\ pc[r] \in {"pay_lock", "refund_lock"}
                           /\ b = call[r].booking /\ Exists(b)}
WaitsFor(t) ==
    IF t = Cleaner THEN {}
    ELSE {lock[b] : b \in BlockingRows(t)} \cup PendingTwins(t) \cup PendingPayments(t)

AtWork(t) == IF t = Cleaner THEN batch # {} ELSE InFlight(t)

\* No lock and no pending row outlives its transaction, and waits are two steps deep
\* at most: whoever is waited for is at work and waits, if at all, for somebody who
\* is at work and waits for nobody.  So no transactions wait for each other.
WaitsAreShort ==
    \A r \in Requests : \A h \in WaitsFor(r) :
        AtWork(h) /\ \A g \in WaitsFor(h) : AtWork(g) /\ WaitsFor(g) = {}

\* What pay_booking, refund_booking and the cleanup pass have checked of a row
\* still holds when they write it, across the gateway's latency.
LockedReadsHold ==
    /\ \A r \in Pays : pc[r] \in PaySteps \ {"pay_lock"} =>
            status[call[r].booking] = "reserved"
    /\ \A r \in Refunds : pc[r] \in {"returning", "refund_commit"} =>
            status[call[r].booking] = "confirmed"
    /\ \A b \in batch : status[b] = "reserved"

\* The payments of a booking and its status agree: exactly one success once it
\* is confirmed, also after a refund; none for a seat that is not paid for.
PaymentConsistency ==
    \A b \in Creates :
        /\ status[b] \in {"confirmed", "refunded"} =>
                \E p \in SuccessPayments(b) : SuccessPayments(b) = {p}
        /\ status[b] \notin {"confirmed", "refunded"} => SuccessPayments(b) = {}
        /\ status[b] = "reserved" => \A p \in payments : p.booking # b

\* A charge that took money pays for one booking only, whatever keys the
\* clients send and whatever the gateway forgets.
ChargeBacksOneBooking ==
    /\ \A p \in payments : p.status = "success" => p.ref \in charged
    /\ \A p, q \in payments : p.status = "success" /\ q.status = "success"
                              /\ p.ref = q.ref => p = q

\* Only the failure of the very request that moves it can lose money: a charge is
\* recorded as a payment or about to be, and a booking's money is given back once,
\* on the way to status refunded, unless the request was aborted in between, also
\* when others fail, when the process restarts or when requests share a key.
MoneyAccounted ==
    /\ \A a \in charged :
          \/ \E p \in payments : p.ref = a
          \/ pc[a] \in {"recording", "pay_commit"} \/ outcome[a] = "aborted"
    /\ \A r \in refundCalls :
          \/ status[call[r].booking] = "refunded"
          \/ pc[r] = "refund_commit" \/ outcome[r] = "aborted"
    /\ \A r, q \in refundCalls :
          call[r].booking = call[q].booking /\ outcome[r] # "aborted" /\ outcome[q] # "aborted"
          => r = q

\* What an answer said stays true: a created booking exists, a confirmed one is
\* confirmed or refunded later, a refunded one stays so; a pay request that
\* said confirmed has its payment, and a key found names a booking.
AnswersLast ==
    /\ \A r \in Creates : outcome[r] = "created" => Exists(r)
    /\ \A r \in Creates : outcome[r] = "found" => KeyRows(r) # {}
    /\ \A r \in Pays : outcome[r] = "confirmed" =>
            /\ status[call[r].booking] \in {"confirmed", "refunded"}
            /\ \E p \in SuccessPayments(call[r].booking) : p.key = call[r].key
    /\ \A r \in Refunds : outcome[r] = "refunded" =>
            status[call[r].booking] = "refunded"

\* The trail of b is a gapless chain from its creation to its status.
TrailTells(b) ==
    LET trail == audit[b] IN
    /\ Exists(b) <=> trail # << >>
    /\ trail # << >> => trail[1].previous = "none" /\ trail[Len(trail)].new = status[b]
    /\ \A i \in 1 .. Len(trail) - 1 : trail[i].new = trail[i + 1].previous

\* The audit trail of every booking tells how it came to its status, whatever
\* was rolled back in between.
AuditTrailTellsStatus == \A b \in Creates : TrailTells(b)

-------------------------------------------------------------------------------
(* Liveness and refinement *)

\* Every request that has been accepted is answered: no statement waits for
\* ever for a lock or an index entry.
EveryRequestAnswered == \A r \in Requests : InFlight(r) ~> pc[r] = "done"

\* A reservation nobody pays in time loses its seat.
ExpiredReservationsReleased ==
    \A b \in Creates : (status[b] = "reserved" /\ Expired(b)) ~> status[b] # "reserved"

\* bookings.(schedule_id, seat_id), and what BookingLifecycle sees of payments.
SlotOf == [b \in Creates |-> IF Exists(b) THEN Slot(b) ELSE None]
Receipts == {[booking |-> p.booking, status |-> p.status] : p \in payments}

Lifecycle == INSTANCE BookingLifecycle WITH
    Bookings <- Creates,
    Slots    <- Schedules \X Seats,
    NoSlot   <- None,
    slot     <- SlotOf,
    receipts <- Receipts

\* The committed tables go through the atomic life cycle of BookingLifecycle, and
\* only seats and schedules that have a row are booked, whatever ids clients send.
Implements == Lifecycle!Spec
===============================================================================
