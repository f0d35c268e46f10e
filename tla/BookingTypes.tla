----------------------------- MODULE BookingTypes -----------------------------
(***************************************************************************)
(* The vocabulary shared by the booking modules: the values of column      *)
(* bookings.status and the audit entries.                                  *)
(***************************************************************************)

\* bookings.status; "none" says that the table has no such row (and is the
\* previous_status None of an entry that records the creation of a row).
Statuses == {"none", "reserved", "confirmed", "cancelled", "refunded"}

\* A booking with one of these statuses keeps its seat.
Holding == {"reserved", "confirmed"}

\* The columns of an audit_trail row that say which transition it records.
Entry(action, previous, new) ==
    [action |-> action, previous |-> previous, new |-> new]

AuditActions == {"reserved", "payment_attempted", "confirmed",
                 "payment_failed", "expired_cleanup", "refunded"}

Entries == [action : AuditActions, previous : Statuses, new : Statuses]
===============================================================================
