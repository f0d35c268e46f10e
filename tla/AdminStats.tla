------------------------------ MODULE AdminStats ------------------------------
(***************************************************************************)
(* GET /admin/stats: five counts, each a statement with a snapshot of its  *)
(* own (READ COMMITTED), while bookings go on by the steps of              *)
(* BookingLifecycle.  A count is represented by the set it counts, and the *)
(* revenue by the bookings whose successful payment it sums up.            *)
(***************************************************************************)
EXTENDS Naturals, BookingLifecycle

VARIABLES
    ran,        \* statements of get_stats that have run
    answer,     \* answer[q]: the result of statement q
    settled     \* bookings settled when the first statement ran (history)

statsVars == <<ran, answer, settled>>

Queries == {"total", "confirmed", "revenue", "cancelled", "refunded"}

\* Faulty variants: another order of the statements.
Statements_RevenueFirst == <<"total", "revenue", "confirmed", "cancelled", "refunded">>
Statements_RefundedFirst == <<"refunded", "total", "confirmed", "revenue", "cancelled">>

\* The order of the statements.
Statements == <<"total", "confirmed", "revenue", "cancelled", "refunded">>

\* The rows statement q finds.
Found(q) ==
    {b \in Bookings :
        CASE q = "total"   -> status[b] # "none"
          [] q = "revenue" -> [booking |-> b, status |-> "success"] \in receipts
          [] OTHER         -> status[b] = q}

StatsTypeOK ==
    /\ ran \in 0 .. 5
    /\ answer \in [Queries -> SUBSET Bookings]
    /\ settled \subseteq Bookings

StatsInit ==
    /\ ran = 0
    /\ answer = [q \in Queries |-> {}]
    /\ settled = {}

Settled == {b \in Bookings : status[b] \in {"confirmed", "cancelled", "refunded"}}

\* The next statement runs.
Statement ==
    /\ ran < 5
    /\ ran' = ran + 1
    /\ LET q == Statements[ran + 1] IN answer' = [answer EXCEPT ![q] = Found(q)]
    /\ settled' = IF ran = 0 THEN Settled ELSE settled
    /\ UNCHANGED lifecycleVars

\* The numbers are returned, and asked for again some time.
Answered ==
    /\ ran = 5
    /\ ran' = 0
    /\ answer' = [q \in Queries |-> {}]
    /\ settled' = {}
    /\ UNCHANGED lifecycleVars

StatsNext == Statement \/ Answered \/ (Next /\ UNCHANGED statsVars)

StatsSpec == Init /\ StatsInit /\ [][StatsNext]_<<lifecycleVars, statsVars>>

\* No booking is reported confirmed without its money: the payment of every
\* booking counted as confirmed is in the revenue, though the two statements do
\* not see the same tables.
RevenueCoversConfirmed == ran >= 3 => answer["confirmed"] \subseteq answer["revenue"]

\* No settled booking falls between two statements: one that was confirmed,
\* cancelled or refunded when the request began is in one of the three counts,
\* also if it is refunded while they run.
SettledAreCounted ==
    ran = 5 => settled \subseteq answer["confirmed"] \cup answer["cancelled"] \cup answer["refunded"]
===============================================================================
