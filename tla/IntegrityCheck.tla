---------------------------- MODULE IntegrityCheck ----------------------------
(***************************************************************************)
(* verify_integrity.py, the check of the tables after a load test: four    *)
(* queries that should return nothing and an exit code.                    *)
(***************************************************************************)
EXTENDS BookingEngine

CONSTANT StaleAfter     \* the two minutes the cleanup task is given

ASSUME StaleAfterAssumption == StaleAfter \in Nat

\* check_no_double_bookings: slots with more than one active booking.
DoubleBooked == {Slot(b) : b \in {x \in Creates :
                    Holds(x) /\ \E y \in Creates \ {x} : Holds(y) /\ Slot(y) = Slot(x)}}

\* check_audit_trail_completeness
Unaudited == {b \in Creates : Exists(b) /\ audit[b] = << >>}

\* check_no_stale_reservations
Stale == {b \in Creates : status[b] = "reserved" /\ expires[b] + StaleAfter < now}

\* check_payment_consistency
Unpaid == {b \in Creates : status[b] = "confirmed" /\ SuccessPayments(b) = {}}

\* main: 0 when every check passes.
ExitCode == IF DoubleBooked = {} /\ Unaudited = {} /\ Stale = {} /\ Unpaid = {} THEN 0 ELSE 1

\* After the load the check passes: once every request is over and the cleanup
\* task finds nothing to release, whatever failed before; in particular no row
\* stays out of the cleanup's reach.
QuietSystemVerifies ==
    (\A r \in Requests : ~InFlight(r)) /\ batch = {} /\ Releasable = {} => ExitCode = 0
===============================================================================
