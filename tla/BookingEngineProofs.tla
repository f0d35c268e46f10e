-------------------------- MODULE BookingEngineProofs --------------------------
(***************************************************************************)
(* Theorems about BookingEngine, for every number of requests, users,      *)
(* slots and keys, every workload, clock bound and number of failures.     *)
(***************************************************************************)
EXTENDS BookingEngine, TLAPS

-------------------------------------------------------------------------------
(* Types *)

\* The sets of requests are disjoint, and the sentinels are no requests.
LEMMA Disjointness ==
    /\ \A r \in Creates : r \notin Pays /\ r \notin Refunds
    /\ \A r \in Pays : r \notin Creates /\ r \notin Refunds
    /\ \A r \in Refunds : r \notin Creates /\ r \notin Pays
    /\ \A r \in Requests : r # Cleaner /\ r # None /\ r # Declined
BY RequestsAssumption DEF Requests

\* The arguments of a request have the types its schema gives them.
LEMMA CallTypes ==
    ASSUME TypeOK
    PROVE  /\ \A r \in Creates : /\ call[r].user \in UserIds
                                 /\ call[r].schedule \in ScheduleIds
                                 /\ call[r].seat \in SeatIds
                                 /\ call[r].key \in BookingKeys
           /\ \A r \in Pays : call[r].booking \in Creates /\ call[r].key \in PayKeys
           /\ \A r \in Refunds : call[r].booking \in Creates
BY WorkloadsAssumption DEF TypeOK, CreateCalls, PayCalls, RefundCalls

\* The end of a transaction keeps the types of what it touches.
LEMMA FinishType ==
    ASSUME TypeOK, NEW r \in Requests, NEW o \in Outcomes, Finish(r, o)
    PROVE  /\ pc' \in [Requests -> Steps \cup {"idle", "done"}]
           /\ outcome' \in [Requests -> Outcomes]
           /\ lock' \in [Creates -> Requests \cup {Cleaner, None}]
BY DEF TypeOK, Finish, Unlocked

\* An early return keeps the types.
LEMMA LeaveType ==
    ASSUME TypeOK, NEW r \in Requests, NEW o \in Outcomes, Leave(r, o)
    PROVE  TypeOK'
BY FinishType DEF Leave, TypeOK, tables, gateway

\* A statement that writes nothing keeps the types, whatever lock and local
\* variable it sets.
LEMMA ContinueType ==
    ASSUME TypeOK, NEW r \in Requests, NEW step \in Steps, Continue(r, step),
           lock' \in [Creates -> Requests \cup {Cleaner, None}],
           seen' \in [Creates -> Creates \cup {None}]
    PROVE  TypeOK'
BY DEF Continue, Goto, TypeOK, tables, gateway

\* The ways a handler refuses are outcomes.
LEMMA RefusalTypes ==
    /\ \A r \in Creates : OverlapAnswer(r) \in Outcomes
    /\ \A r \in Pays : \A b \in Creates : PayRefusal(r, b) \in Outcomes
    /\ \A r \in Refunds : \A b \in Creates : RefundRefusal(r, b) \in Outcomes
BY DEF OverlapAnswer, PayRefusal, RefundRefusal, Outcomes

\* The entries the handlers write.
LEMMA EntryTypes ==
    /\ Entry("reserved", "none", "reserved") \in Entries
    /\ Entry("payment_attempted", "reserved", "reserved") \in Entries
    /\ Entry("confirmed", "reserved", "confirmed") \in Entries
    /\ Entry("payment_failed", "reserved", "cancelled") \in Entries
    /\ Entry("expired_cleanup", "reserved", "cancelled") \in Entries
    /\ Entry("refunded", "confirmed", "refunded") \in Entries
BY DEF Entry, Entries, AuditActions, Statuses

\* Every step of create_booking keeps the types.
LEMMA CreateType ==
    ASSUME TypeOK, NEW r \in Creates, CreateStep(r)
    PROVE  TypeOK'
<1> r \in Requests
  BY DEF Requests
<1>1. CASE CreateLookup(r)
  <2>1. CASE KeyRows(r) # {} /\ Leave(r, "found")
    BY <2>1, LeaveType DEF Outcomes
  <2>2. CASE Continue(r, "lock") /\ UNCHANGED <<lock, seen>>
    BY <2>2, ContinueType DEF Steps, CreateSteps, TypeOK
  <2> QED BY <1>1, <2>1, <2>2 DEF CreateLookup
<1>2. CASE CreateLock(r)
  <2>1. CASE Continue(r, "overlap") /\ UNCHANGED <<lock, seen>>
    BY <2>1, ContinueType DEF Steps, CreateSteps, TypeOK
  <2>2. CASE Leave(r, "seat_taken")
    BY <2>2, LeaveType DEF Outcomes
  <2>3. ASSUME NEW b \in SlotRows(r), lock' = [lock EXCEPT ![b] = r],
               seen' = [seen EXCEPT ![r] = b], Continue(r, "overlap")
        PROVE  TypeOK'
    <3>1. b \in Creates
      BY DEF SlotRows
    <3>2. /\ lock' \in [Creates -> Requests \cup {Cleaner, None}]
          /\ seen' \in [Creates -> Creates \cup {None}]
      BY <2>3, <3>1 DEF TypeOK
    <3> QED BY <2>3, <3>2, ContinueType DEF Steps, CreateSteps
  <2> QED BY <1>2, <2>1, <2>2, <2>3 DEF CreateLock
<1>3. CASE CreateOverlap(r)
  <2>1. CASE Leave(r, "not_found")
    BY <2>1, LeaveType DEF Outcomes
  <2>2. CASE Leave(r, OverlapAnswer(r))
    BY <2>2, LeaveType, RefusalTypes
  <2>3. CASE Continue(r, "replace") /\ UNCHANGED <<lock, seen>>
    BY <2>3, ContinueType DEF Steps, CreateSteps, TypeOK
  <2> QED BY <1>3, <2>1, <2>2, <2>3 DEF CreateOverlap
<1>4. CASE CreateReplace(r)
  <2>1. CASE Leave(r, "not_found") \/ Leave(r, "child_rows")
    BY <2>1, LeaveType DEF Outcomes
  <2>2. CASE ~(Leave(r, "not_found") \/ Leave(r, "child_rows"))
    <3>1. Deadline \in Nat
      BY TimesAssumption DEF Deadline, TypeOK
    <3> QED BY <1>4, <2>2, <3>1
            DEF CreateReplace, Goto, TypeOK, Steps, CreateSteps, gateway
  <2> QED BY <2>1, <2>2
<1>5. CASE CreateInsert(r) \/ CreateIndex(r)
  <2>1. CASE Leave(r, "unique_violation") \/ Leave(r, "unknown_user")
    BY <2>1, LeaveType DEF Outcomes
  <2>2. CASE (Continue(r, "indexed") \/ Continue(r, "commit")) /\ UNCHANGED <<lock, seen>>
    BY <2>2, ContinueType DEF Steps, CreateSteps, TypeOK
  <2> QED BY <1>5, <2>1, <2>2 DEF CreateInsert, CreateIndex
<1>6. CASE CreateCommit(r)
  <2>1. status' \in [Creates -> Statuses]
    BY <1>6 DEF CreateCommit, TypeOK, Statuses
  <2>2. audit' \in [Creates -> Seq(Entries)]
    BY <1>6, EntryTypes DEF CreateCommit, TypeOK
  <2>3. Finish(r, "created")
    BY <1>6 DEF CreateCommit
  <2> QED BY <1>6, <2>1, <2>2, <2>3, FinishType DEF CreateCommit, TypeOK, Outcomes, gateway
<1> QED BY <1>1, <1>2, <1>3, <1>4, <1>5, <1>6 DEF CreateStep

\* Every step of pay_booking keeps the types.
LEMMA PayType ==
    ASSUME TypeOK, NEW r \in Pays, PayStep(r)
    PROVE  TypeOK'
<1> r \in Requests
  BY DEF Requests
<1> DEFINE b == call[r].booking
<1>0. b \in Creates /\ call[r].key \in PayKeys
  BY CallTypes
<1>1. CASE PayLock(r)
  <2>1. CASE Leave(r, "not_found")
    BY <2>1, LeaveType DEF Outcomes
  <2>2. CASE Leave(r, PayRefusal(r, b))
    BY <1>0, <2>2, LeaveType, RefusalTypes
  <2>3. CASE lock' = [lock EXCEPT ![b] = r] /\ Continue(r, "pay_lookup") /\ UNCHANGED seen
    BY <1>0, <2>3, ContinueType DEF Steps, PaySteps, TypeOK
  <2> QED BY <1>1, <2>1, <2>2, <2>3 DEF PayLock
<1>2. CASE PayLookup(r)
  <2>1. PICK step \in {"answering", "charging"} : Continue(r, step) /\ UNCHANGED <<lock, seen>>
    BY <1>2 DEF PayLookup
  <2> QED BY <2>1, ContinueType DEF Steps, PaySteps, TypeOK
<1>6. CASE PayAnswer(r)
  BY <1>6, LeaveType DEF PayAnswer, Outcomes
<1>3. CASE PayCharge(r)
  <2>1. PICK a \in GatewayAnswers(r) :
            /\ charge' = [charge EXCEPT ![r] = a]
            /\ processed' = [processed EXCEPT ![call[r].key] = a]
            /\ charged' = IF a = r THEN charged \cup {r} ELSE charged
    BY <1>3 DEF PayCharge
  <2>2. a \in Pays \cup {Declined}
    BY <1>0 DEF GatewayAnswers, TypeOK
  <2>3. /\ charge' \in [Pays -> Pays \cup {Declined, None}]
        /\ processed' \in [PayKeys -> Pays \cup {Declined, None}]
        /\ charged' \subseteq Pays
    BY <1>0, <2>1, <2>2 DEF TypeOK
  <2> QED BY <1>3, <2>3 DEF PayCharge, Goto, TypeOK, tables, Steps, PaySteps
<1>4. CASE PayFlush(r)
  <2>1. CASE Leave(r, "unique_violation")
    BY <2>1, LeaveType DEF Outcomes
  <2>2. CASE Continue(r, "pay_commit") /\ UNCHANGED <<lock, seen>>
    BY <2>2, ContinueType DEF Steps, PaySteps, TypeOK
  <2> QED BY <1>4, <2>1, <2>2 DEF PayFlush
<1>5. CASE PayCommit(r)
  <2>2. ASSUME NEW new \in {"confirmed", "cancelled"}, NEW ps \in {"success", "failed"},
               NEW ref \in Pays \cup {None}, NEW action \in {"confirmed", "payment_failed"},
               Record(r, new, ps, ref, action)
        PROVE  TypeOK'
    <3>1. status' \in [Creates -> Statuses]
      BY <1>0, <2>2 DEF Record, TypeOK, Statuses
    <3>2. payments' \subseteq Payments
      BY <1>0, <2>2 DEF Record, TypeOK, Payments
    <3>3. /\ Entry("payment_attempted", "reserved", "reserved") \in Entries
          /\ Entry(action, "reserved", new) \in Entries
      BY <2>2 DEF Entry, Entries, AuditActions, Statuses
    <3>4. Append(Append(audit[b], Entry("payment_attempted", "reserved", "reserved")),
                 Entry(action, "reserved", new)) \in Seq(Entries)
      BY <1>0, <3>3 DEF TypeOK
    <3>5. audit' \in [Creates -> Seq(Entries)]
      BY <1>0, <2>2, <3>4 DEF Record, TypeOK
    <3>6. Finish(r, new) /\ new \in Outcomes
      BY <2>2 DEF Record, Outcomes
    <3> QED BY <2>2, <3>1, <3>2, <3>5, <3>6, FinishType DEF Record, TypeOK, gateway
  <2>3. charge[r] \in Pays \cup {Declined, None}
    BY DEF TypeOK
  <2> QED BY <1>5, <2>2, <2>3 DEF PayCommit
<1> QED BY <1>1, <1>2, <1>3, <1>4, <1>5, <1>6 DEF PayStep

\* Every step of refund_booking keeps the types.
LEMMA RefundType ==
    ASSUME TypeOK, NEW r \in Refunds, RefundStep(r)
    PROVE  TypeOK'
<1> r \in Requests
  BY DEF Requests
<1> DEFINE b == call[r].booking
<1>0. b \in Creates
  BY CallTypes
<1>1. CASE RefundLock(r)
  <2>1. CASE Leave(r, "not_found")
    BY <2>1, LeaveType DEF Outcomes
  <2>2. CASE Leave(r, RefundRefusal(r, b))
    BY <1>0, <2>2, LeaveType, RefusalTypes
  <2>3. CASE lock' = [lock EXCEPT ![b] = r] /\ Continue(r, "returning") /\ UNCHANGED seen
    BY <1>0, <2>3, ContinueType DEF Steps, RefundSteps, TypeOK
  <2> QED BY <1>1, <2>1, <2>2, <2>3 DEF RefundLock
<1>2. CASE RefundReturn(r)
  <2>1. CASE Leave(r, "multiple_results")
    BY <2>1, LeaveType DEF Outcomes
  <2>2. CASE ~Leave(r, "multiple_results")
    BY <1>2, <2>2 DEF RefundReturn, Goto, TypeOK, tables, Steps, RefundSteps
  <2> QED BY <2>1, <2>2
<1>3. CASE RefundCommit(r)
  <2>1. status' \in [Creates -> Statuses]
    BY <1>0, <1>3 DEF RefundCommit, TypeOK, Statuses
  <2>2. audit' \in [Creates -> Seq(Entries)]
    BY <1>0, <1>3, EntryTypes DEF RefundCommit, TypeOK
  <2>3. Finish(r, "refunded")
    BY <1>3 DEF RefundCommit
  <2> QED BY <1>3, <2>1, <2>2, <2>3, FinishType DEF RefundCommit, TypeOK, Outcomes, gateway
<1> QED BY <1>1, <1>2, <1>3 DEF RefundStep

\* So do the cleanup task and the failures.
LEMMA BackgroundType ==
    ASSUME TypeOK,
           \/ CleanupSelect \/ CleanupCommit \/ CleanupFail \/ Crash
           \/ \E r \in Requests : Abort(r) \/ PoolTimeout(r)
    PROVE  TypeOK'
<1>1. CASE CleanupSelect
  BY <1>1 DEF CleanupSelect, Releasable, TypeOK, tables, gateway
<1>2. CASE CleanupCommit
  <2>1. status' \in [Creates -> Statuses]
    BY <1>2 DEF CleanupCommit, TypeOK, Statuses
  <2>2. audit' \in [Creates -> Seq(Entries)]
    BY <1>2, EntryTypes DEF CleanupCommit, TypeOK
  <2> QED BY <1>2, <2>1, <2>2 DEF CleanupCommit, CleanupEnd, Unlocked, TypeOK, gateway
<1>3. CASE CleanupFail
  BY <1>3 DEF CleanupFail, CleanupEnd, Fault, Unlocked, TypeOK, gateway
<1>4. CASE Crash
  BY <1>4 DEF Crash, Fault, TypeOK, tables, Outcomes
<1>5. ASSUME NEW r \in Requests, Abort(r) \/ PoolTimeout(r)
      PROVE  TypeOK'
  <2>1. Finish(r, "aborted") /\ "aborted" \in Outcomes
    BY <1>5 DEF Abort, PoolTimeout, Leave, Outcomes
  <2> QED BY <1>5, <2>1, FinishType DEF Abort, PoolTimeout, Leave, Fault, TypeOK, tables, gateway
<1> QED BY <1>1, <1>2, <1>3, <1>4, <1>5

\* Type correctness: every reachable state of the engine has the types of its
\* variables.
THEOREM TypeCorrect == Spec => []TypeOK
<1>1. Init => TypeOK
  BY TimesAssumption
     DEF Init, TypeOK, Statuses, Outcomes, Payments
<1>2. TypeOK /\ [Next]_vars => TypeOK'
  <2> SUFFICES ASSUME TypeOK, [Next]_vars
               PROVE  TypeOK'
    OBVIOUS
  <2>1. ASSUME NEW r \in Requests, Receive(r)
        PROVE  TypeOK'
    BY <2>1 DEF Receive, Goto, TypeOK, Steps, CreateSteps, PaySteps, RefundSteps,
                Requests, tables, gateway
  <2>2. CASE Tick
    BY <2>2 DEF Tick, TypeOK, tables, gateway
  <2>3. CASE Rest \/ UNCHANGED vars
    BY <2>3 DEF Rest, vars, TypeOK, tables, gateway
  <2> QED BY <2>1, <2>2, <2>3, CreateType, PayType, RefundType, BackgroundType DEF Next
<1> QED BY <1>1, <1>2, PTL DEF Spec

-------------------------------------------------------------------------------
(* The inductive invariant.  The properties of BookingEngine are not       *)
(* inductive: a double booking is excluded by what is known of rows that   *)
(* are inserted and not yet committed, and a stale write by who holds the  *)
(* row's lock.                                                             *)

PaySection == {"pay_lookup", "answering", "charging", "recording", "pay_commit"}
RefundSection == {"returning", "refund_commit"}

\* A create request whose INSERT is under way or done, and a pay request that
\* knows the gateway's answer.
Inserting == {"insert", "indexed", "commit"}
Recording == {"recording", "pay_commit"}

\* Whoever is past the checks of a locked read holds the lock of the row, and
\* the row is still what was checked.
SectionInv ==
    /\ \A r \in Pays : pc[r] \in PaySection =>
            lock[call[r].booking] = r /\ status[call[r].booking] = "reserved"
    /\ \A r \in Refunds : pc[r] \in RefundSection =>
            lock[call[r].booking] = r /\ status[call[r].booking] = "confirmed"
    /\ \A b \in batch : lock[b] = Cleaner /\ status[b] = "reserved"

\* Two rows that violate a unique constraint of table bookings.
Collide(r, q) == SameKey(r, q) \/ SameSlot(r, q)

\* Rows respect the unique constraints, and so do index entries: a pending row with
\* its key's entry has the key alone, one with both entries has the slot alone.
\* And no row is ever deleted: a create that has seen an inactive row does not
\* reach the INSERT.
RowInv ==
    /\ \A r \in Creates : pc[r] # "done" => ~Exists(r)
    /\ \A r \in Creates : seen[r] # None => Exists(seen[r])
    /\ \A r \in Creates : pc[r] \in Inserting => seen[r] = None
    /\ \A b, c \in Creates : Exists(b) /\ Exists(c) /\ Collide(b, c) => b = c
    /\ \A b, q \in Creates :
            Exists(b) /\ pc[q] \in {"indexed", "commit"} => ~SameKey(q, b)
    /\ \A b, q \in Creates : Exists(b) /\ pc[q] = "commit" => ~SameSlot(q, b)
    /\ \A p, q \in Creates :
            /\ pc[p] \in {"indexed", "commit"} /\ pc[q] \in {"indexed", "commit"}
            /\ SameKey(p, q)
            => p = q
    /\ \A p, q \in Creates :
            pc[p] = "commit" /\ pc[q] = "commit" /\ SameSlot(p, q) => p = q

\* An unpaid booking has no payment at all, so its first is its only one.
PaymentInv ==
    /\ \A b \in Creates : status[b] \in {"none", "reserved"} =>
            \A p \in payments : p.booking # b
    /\ PaymentConsistency

\* A charge, wherever it is remembered, took money under the key it is
\* remembered for, and each key pays once, payments not yet committed included.
ChargeInv ==
    /\ \A k \in PayKeys : processed[k] \in Pays =>
            processed[k] \in charged /\ call[processed[k]].key = k
    /\ \A r \in Pays : pc[r] \in Recording => charge[r] # None
    /\ \A r \in Pays : charge[r] \in Pays =>
            charge[r] \in charged /\ call[charge[r]].key = call[r].key
    /\ \A p \in payments : p.status = "success" =>
            p.ref \in charged /\ call[p.ref].key = p.key
    /\ \A p, q \in payments : p.key = q.key => p = q
    /\ \A r \in Pays : pc[r] = "pay_commit" => ~KeyPaid(call[r].key)
    /\ \A p, q \in Pays :
            pc[p] = "pay_commit" /\ pc[q] = "pay_commit" /\ call[p].key = call[q].key
            => p = q

IInv ==
    /\ TypeOK
    /\ SectionInv
    /\ RowInv
    /\ AuditTrailTellsStatus
    /\ PaymentInv
    /\ ChargeInv

-------------------------------------------------------------------------------
(* What keeps the parts of the invariant *)

\* The tables alone decide AuditTrailTellsStatus and PaymentInv.
LEMMA TableFrame ==
    ASSUME AuditTrailTellsStatus, PaymentInv, UNCHANGED <<status, payments, audit>>
    PROVE  AuditTrailTellsStatus' /\ PaymentInv'
BY DEF AuditTrailTellsStatus, TrailTells, PaymentInv, PaymentConsistency, SuccessPayments, Exists

\* The trail of a booking depends on its audit entries and its status only.
LEMMA TrailFrame ==
    ASSUME NEW b \in Creates, TrailTells(b),
           audit'[b] = audit[b], status'[b] = status[b]
    PROVE  TrailTells(b)'
BY DEF TrailTells, Exists

\* The trail of a new booking.
LEMMA TrailStart ==
    ASSUME NEW b \in Creates, NEW e \in Entries, audit'[b] = << e >>,
           e.previous = "none", e.new = status'[b], e.new # "none"
    PROVE  TrailTells(b)'
<1>1. Len(<< e >>) = 1 /\ << e >>[1] = e /\ << e >> # << >>
  OBVIOUS
<1> QED BY <1>1 DEF TrailTells, Exists

\* A gapless trail from the creation of a row to status s.
Chain(t, s) ==
    /\ t \in Seq(Entries) /\ t # << >>
    /\ t[1].previous = "none" /\ t[Len(t)].new = s
    /\ \A i \in 1 .. Len(t) - 1 : t[i].new = t[i + 1].previous

\* An existing booking's trail is a chain, and conversely.
LEMMA TrailIsChain ==
    ASSUME TypeOK, NEW b \in Creates, Exists(b)
    PROVE  TrailTells(b) <=> Chain(audit[b], status[b])
BY DEF TypeOK, TrailTells, Chain

\* One more entry continues a chain when it starts where the chain ends.
LEMMA ChainAppend ==
    ASSUME NEW t, NEW e \in Entries, Chain(t, e.previous)
    PROVE  Chain(Append(t, e), e.new)
<1> DEFINE u == Append(t, e)
<1>1. /\ Len(t) \in Nat \ {0} /\ Len(u) = Len(t) + 1 /\ u \in Seq(Entries)
      /\ u[Len(u)] = e /\ \A i \in 1 .. Len(t) : u[i] = t[i]
  BY DEF Chain
<1>2. ASSUME NEW i \in 1 .. Len(u) - 1
      PROVE  u[i].new = u[i + 1].previous
  <2>1. CASE i = Len(t)
    BY <1>1, <2>1 DEF Chain
  <2>2. CASE i # Len(t)
    <3>1. i \in 1 .. Len(t) - 1 /\ i + 1 \in 1 .. Len(t)
      BY <1>1, <2>2
    <3> QED BY <1>1, <3>1 DEF Chain
  <2> QED BY <2>1, <2>2
<1>3. u[1].previous = "none"
  BY <1>1 DEF Chain
<1>4. u # << >>
  BY <1>1, Len(<< >>) = 0
<1> HIDE DEF u
<1> QED BY <1>1, <1>2, <1>3, <1>4 DEF Chain, u

\* A step that changes no locked row, takes no lock of another and lets
\* nobody into a critical section.
LEMMA SectionFrame ==
    ASSUME TypeOK, SectionInv, call' = call, batch' \subseteq batch,
           \A r \in Pays : pc'[r] \in PaySection =>
                /\ pc[r] \in PaySection
                /\ lock'[call[r].booking] = lock[call[r].booking]
                /\ status'[call[r].booking] = status[call[r].booking],
           \A r \in Refunds : pc'[r] \in RefundSection =>
                /\ pc[r] \in RefundSection
                /\ lock'[call[r].booking] = lock[call[r].booking]
                /\ status'[call[r].booking] = status[call[r].booking],
           \A b \in batch' : lock'[b] = lock[b] /\ status'[b] = status[b]
    PROVE  SectionInv'
BY DEF SectionInv

\* A step that creates no row, remembers none and lets no create request
\* reach its INSERT.
LEMMA RowFrame ==
    ASSUME TypeOK, RowInv, call' = call, seen' = seen,
           \A b \in Creates : Exists(b)' <=> Exists(b),
           \A r \in Creates : pc[r] = "done" => pc'[r] = "done",
           \A r \in Creates : pc'[r] \in Inserting => pc'[r] = pc[r]
    PROVE  RowInv'
<1>1. \A r \in Creates : seen[r] # None => seen[r] \in Creates
  BY DEF TypeOK
<1> QED BY <1>1 DEF RowInv, Inserting, Collide, SameKey, SameSlot, Slot, Exists

\* A step that charges nothing; the gateway may forget everything.
LEMMA ChargeFrame ==
    ASSUME ChargeInv, call' = call,
           UNCHANGED <<payments, charge, charged>>,
           processed' \in {processed, [k \in PayKeys |-> None]},
           \A r \in Pays : pc'[r] \in Recording => pc[r] = pc'[r]
    PROVE  ChargeInv'
BY Disjointness DEF ChargeInv, Recording, KeyPaid, Requests

\* The end of transaction r releases the locks of r only.
LEMMA FinishSection ==
    ASSUME TypeOK, SectionInv, NEW r \in Requests, NEW o \in Outcomes,
           Finish(r, o), call' = call, batch' = batch,
           \A b \in Creates : lock[b] # r => status'[b] = status[b]
    PROVE  SectionInv'
<1>1. \A q \in Requests : pc'[q] = IF q = r THEN "done" ELSE pc[q]
  BY DEF Finish, TypeOK
<1>2. \A b \in Creates : lock[b] # r => lock'[b] = lock[b]
  BY DEF Finish, Unlocked
<1>3. r # Cleaner /\ \A q \in Pays \cup Refunds : q \in Requests
  BY Disjointness DEF Requests
<1>4. \A q \in Pays \cup Refunds : call[q].booking \in Creates
  BY CallTypes
<1>5. batch \subseteq Creates
  BY DEF TypeOK
<1>6. "done" \notin PaySection /\ "done" \notin RefundSection
  BY DEF PaySection, RefundSection
<1> QED BY <1>1, <1>2, <1>3, <1>4, <1>5, <1>6 DEF SectionInv

\* The end of a request that creates no row.
LEMMA FinishRow ==
    ASSUME TypeOK, RowInv, NEW r \in Requests, NEW o \in Outcomes,
           Finish(r, o), UNCHANGED <<call, seen>>,
           \A b \in Creates : Exists(b)' <=> Exists(b)
    PROVE  RowInv'
<1>1. \A q \in Creates : pc'[q] = IF q = r THEN "done" ELSE pc[q]
  BY DEF Finish, TypeOK, Requests
<1> QED BY <1>1, RowFrame DEF Inserting

\* An early return keeps the invariant.
LEMMA LeaveKeeps ==
    ASSUME IInv, NEW r \in Requests, NEW o \in Outcomes, Leave(r, o)
    PROVE  IInv'
<1> USE DEF IInv
<1>1. TypeOK'
  BY LeaveType
<1>2. Finish(r, o) /\ UNCHANGED <<call, tables, seen, charge, gateway, batch>>
  BY DEF Leave
<1>3. SectionInv'
  BY <1>2, FinishSection DEF tables
<1>4. RowInv'
  BY <1>2, FinishRow DEF tables, Exists
<1>5. AuditTrailTellsStatus' /\ PaymentInv'
  BY <1>2, TableFrame DEF tables
<1>6. \A q \in Pays : pc'[q] \in Recording => pc[q] = pc'[q]
  BY <1>2 DEF Finish, TypeOK, Requests, Recording
<1>7. ChargeInv'
  BY <1>2, <1>6, ChargeFrame DEF tables, gateway
<1> QED BY <1>1, <1>3, <1>4, <1>5, <1>7

\* A step that only moves requests on, none of them into a critical section or
\* an INSERT, keeps the invariant.
LEMMA MoveKeeps ==
    ASSUME IInv, TypeOK', UNCHANGED <<call, tables, lock, seen, charge, gateway, batch>>,
           \A r \in Requests :
                \/ pc'[r] = pc[r]
                \/ /\ pc[r] # "done"
                   /\ pc'[r] \notin PaySection \cup RefundSection \cup Inserting
    PROVE  IInv'
<1> USE DEF IInv
<1>1. \A r \in Creates \cup Pays \cup Refunds : r \in Requests
  BY DEF Requests
<1>2. SectionInv'
  BY <1>1, SectionFrame DEF tables
<1>3. RowInv'
  BY <1>1, RowFrame DEF tables, Exists
<1>4. AuditTrailTellsStatus' /\ PaymentInv'
  BY TableFrame DEF tables
<1>5. ChargeInv'
  BY <1>1, ChargeFrame DEF tables, gateway, PaySection, Recording
<1> QED BY <1>2, <1>3, <1>4, <1>5

\* A statement of request r that writes and locks nothing.
LEMMA ContinueKeeps ==
    ASSUME IInv, NEW r \in Requests, NEW step \in Steps, Continue(r, step),
           UNCHANGED <<lock, seen>>, pc[r] # "done",
           step \notin PaySection \cup RefundSection \cup Inserting
    PROVE  IInv'
<1>1. TypeOK'
  BY ContinueType DEF IInv, TypeOK
<1>2. \A q \in Requests : pc'[q] = IF q = r THEN step ELSE pc[q]
  BY DEF Continue, Goto, IInv, TypeOK
<1> QED BY <1>1, <1>2, MoveKeeps DEF Continue

\* create_booking keeps the invariant.
LEMMA CreateKeeps ==
    ASSUME IInv, NEW r \in Creates, CreateStep(r)
    PROVE  IInv'
<1> r \in Requests
  BY DEF Requests
<1>0. TypeOK'
  BY CreateType DEF IInv
<1>1. CASE CreateLookup(r)
  <2>1. CASE Leave(r, "found")
    BY <2>1, LeaveKeeps DEF Outcomes
  <2>2. CASE Continue(r, "lock") /\ UNCHANGED <<lock, seen>>
    BY <1>1, <2>2, ContinueKeeps
       DEF CreateLookup, Steps, CreateSteps, PaySection, RefundSection, Inserting
  <2> QED BY <1>1, <2>1, <2>2 DEF CreateLookup
<1>2. CASE CreateLock(r)
  <2>1. CASE Continue(r, "overlap") /\ UNCHANGED <<lock, seen>>
    BY <1>2, <2>1, ContinueKeeps
       DEF CreateLock, Steps, CreateSteps, PaySection, RefundSection, Inserting
  <2>2. CASE Leave(r, "seat_taken")
    BY <2>2, LeaveKeeps DEF Outcomes
  <2>3. ASSUME NEW b \in SlotRows(r), Free(b), lock' = [lock EXCEPT ![b] = r],
               seen' = [seen EXCEPT ![r] = b], Continue(r, "overlap")
        PROVE  IInv'
    <3> USE DEF IInv
    <3>1. b \in Creates /\ Exists(b) /\ lock[b] = None
      BY <2>3 DEF SlotRows, Free
    <3>2. /\ pc[r] = "lock"
          /\ \A q \in Requests : pc'[q] = IF q = r THEN "overlap" ELSE pc[q]
          /\ UNCHANGED <<call, status, payments, audit, charge, gateway, batch>>
      BY <1>2, <2>3 DEF CreateLock, Continue, Goto, TypeOK, tables
    <3>3. \A c \in Creates : lock[c] # None => lock'[c] = lock[c]
      BY <2>3, <3>1 DEF TypeOK
    <3>4. \A q \in Pays \cup Refunds : q \in Requests /\ q # None /\ call[q].booking \in Creates
      BY CallTypes, Disjointness DEF Requests
    <3>5. SectionInv'
      <4>1. batch \subseteq Creates
        BY DEF TypeOK
      <4>2. Cleaner # None
        BY RequestsAssumption
      <4> QED BY <3>2, <3>3, <3>4, <4>1, <4>2 DEF SectionInv, PaySection, RefundSection
    <3>6. RowInv'
      <4>1. \A q \in Creates : seen'[q] = IF q = r THEN b ELSE seen[q]
        BY <2>3 DEF TypeOK
      <4>2. \A q \in Creates : q \in Requests
        BY DEF Requests
      <4> QED BY <3>1, <3>2, <4>1, <4>2 DEF RowInv, Inserting, Collide, SameKey, SameSlot, Slot, Exists
    <3>7. AuditTrailTellsStatus' /\ PaymentInv'
      BY <3>2, TableFrame
    <3>8. ChargeInv'
      BY <3>2, <3>4, ChargeFrame DEF gateway, Recording
    <3> QED BY <1>0, <3>5, <3>6, <3>7, <3>8
  <2> QED BY <1>2, <2>1, <2>2, <2>3 DEF CreateLock
<1>3. CASE CreateOverlap(r)
  <2>1. CASE Leave(r, "not_found")
    BY <2>1, LeaveKeeps DEF Outcomes
  <2>2. CASE Leave(r, OverlapAnswer(r))
    BY <2>2, LeaveKeeps, RefusalTypes
  <2>3. CASE Continue(r, "replace") /\ UNCHANGED <<lock, seen>>
    BY <1>3, <2>3, ContinueKeeps
       DEF CreateOverlap, Steps, CreateSteps, PaySection, RefundSection, Inserting
  <2> QED BY <1>3, <2>1, <2>2, <2>3 DEF CreateOverlap
<1>4. CASE CreateReplace(r)
  <2>1. CASE Leave(r, "not_found") \/ Leave(r, "child_rows")
    BY <2>1, LeaveKeeps DEF Outcomes
  <2>2. CASE ~(Leave(r, "not_found") \/ Leave(r, "child_rows"))
    <3> USE DEF IInv
    <3>1. /\ Goto(r, "insert")
          /\ UNCHANGED <<call, status, payments, audit, lock, seen, charge, gateway, batch>>
          /\ ~(seen[r] # None /\ HasChildRows(seen[r]))
          /\ pc[r] = "replace"
      BY <1>4, <2>2 DEF CreateReplace
    <3>2. seen[r] = None
      <4> SUFFICES ASSUME seen[r] # None
                   PROVE  FALSE
        OBVIOUS
      <4>1. seen[r] \in Creates /\ Exists(seen[r])
        BY DEF RowInv, TypeOK
      <4>2. audit[seen[r]] # << >>
        BY <4>1 DEF AuditTrailTellsStatus, TrailTells
      <4> QED BY <3>1, <4>2 DEF HasChildRows
    <3>3. \A q \in Requests : pc'[q] = IF q = r THEN "insert" ELSE pc[q]
      BY <3>1 DEF Goto, TypeOK
    <3>5. \A q \in Creates \cup Pays \cup Refunds : q \in Requests
      BY DEF Requests
    <3>6. SectionInv'
      BY <3>1, <3>3, <3>5, SectionFrame DEF PaySection, RefundSection
    <3>7. RowInv'
      BY <3>1, <3>2, <3>3, <3>5 DEF RowInv, Inserting, Collide, SameKey, SameSlot, Slot, Exists
    <3>8. AuditTrailTellsStatus' /\ PaymentInv'
      BY <3>1, TableFrame
    <3>9. ChargeInv'
      BY <3>1, <3>3, <3>5, ChargeFrame DEF gateway, Recording
    <3> QED BY <1>0, <3>6, <3>7, <3>8, <3>9
  <2> QED BY <2>1, <2>2
<1>5. CASE CreateInsert(r) \/ CreateIndex(r)
  <2>1. CASE Leave(r, "unique_violation") \/ Leave(r, "unknown_user")
    BY <2>1, LeaveKeeps DEF Outcomes
  <2>2. CASE ~(Leave(r, "unique_violation") \/ Leave(r, "unknown_user"))
    <3> USE DEF IInv
    <3> DEFINE step == IF CreateInsert(r) THEN "indexed" ELSE "commit"
    <3>1. /\ pc[r] \in {"insert", "indexed"} /\ Continue(r, step)
          /\ step \in {"indexed", "commit"} /\ UNCHANGED <<lock, seen>>
      BY <1>5, <2>2 DEF CreateInsert, CreateIndex
    <3>2. /\ \A q \in Requests : pc'[q] = IF q = r THEN step ELSE pc[q]
          /\ UNCHANGED <<call, status, payments, audit, charge, gateway, batch>>
      BY <3>1 DEF Continue, Goto, TypeOK, tables
    <3>3. seen[r] = None /\ r # None /\ ~Exists(r)
      BY <3>1, Disjointness DEF RowInv, Inserting, Requests
    <3>a. /\ CreateInsert(r) => pc[r] = "insert"
          /\ CreateIndex(r) => pc[r] = "indexed"
          /\ PendingTwins(r) = {}
      BY <1>5 DEF CreateInsert, CreateIndex
    <3>b. \A q \in Creates :
            /\ pc[r] = "insert" /\ pc[q] \in {"indexed", "commit"} => ~SameKey(r, q)
            /\ pc[r] = "indexed" /\ pc[q] = "commit" => ~SameSlot(r, q)
      BY <3>a DEF PendingTwins
    <3>4. step = "indexed" =>
            /\ \A b \in Creates : Exists(b) => ~SameKey(r, b)
            /\ \A q \in Creates : pc[q] \in {"indexed", "commit"} => ~SameKey(r, q)
      <4> SUFFICES ASSUME CreateInsert(r)
                   PROVE  /\ \A b \in Creates : Exists(b) => ~SameKey(r, b)
                          /\ \A q \in Creates :
                                pc[q] \in {"indexed", "commit"} => ~SameKey(r, q)
        OBVIOUS
      <4>1. ~\E b \in Creates \ {seen[r]} : Exists(b) /\ SameKey(r, b)
        BY <2>2 DEF CreateInsert
      <4>2. \A b \in Creates : b # seen[r]
        BY <3>3, Disjointness DEF Requests
      <4> QED BY <3>a, <3>b, <4>1, <4>2
    <3>5. step = "commit" =>
            /\ pc[r] = "indexed"
            /\ \A b \in Creates : Exists(b) => ~SameSlot(r, b)
            /\ \A q \in Creates : pc[q] = "commit" => ~SameSlot(r, q)
      <4> SUFFICES ASSUME CreateIndex(r)
                   PROVE  /\ pc[r] = "indexed"
                          /\ \A b \in Creates : Exists(b) => ~SameSlot(r, b)
                          /\ \A q \in Creates : pc[q] = "commit" => ~SameSlot(r, q)
        BY <1>5
      <4>1. ~\E b \in Creates \ {seen[r]} : Exists(b) /\ SameSlot(r, b)
        BY <2>2 DEF CreateIndex
      <4>2. \A b \in Creates : b # seen[r]
        BY <3>3, Disjointness DEF Requests
      <4> QED BY <3>a, <3>b, <4>1, <4>2
    <3> HIDE DEF step
    <3>6. \A q \in Creates \cup Pays \cup Refunds : q \in Requests
      BY DEF Requests
    <3>7. \A q \in Pays \cup Refunds : q # r
      BY Disjointness
    <3>8. SectionInv'
      BY <3>1, <3>2, <3>6, <3>7, SectionFrame
    <3>9. RowInv'
      <4>1. /\ \A b, c \in Creates : (SameKey(b, c)' <=> SameKey(b, c))
                                      /\ (SameSlot(b, c)' <=> SameSlot(b, c))
                                      /\ (SameKey(b, c) => SameKey(c, b))
                                      /\ (SameSlot(b, c) => SameSlot(c, b))
            /\ \A b \in Creates : Exists(b)' <=> Exists(b)
        BY <3>2 DEF SameKey, SameSlot, Slot, Exists
      <4>2. \A q \in Creates : pc'[q] = IF q = r THEN step ELSE pc[q]
        BY <3>2, <3>6
      <4>3. seen' = seen /\ \A q \in Creates : seen[q] # None => seen[q] \in Creates
        BY <3>1 DEF TypeOK
      <4>4. \A b, q \in Creates :
                Exists(b)' /\ pc'[q] \in {"indexed", "commit"} => ~SameKey(q, b)'
        BY <3>1, <3>4, <3>5, <4>1, <4>2 DEF RowInv
      <4>5. \A b, q \in Creates : Exists(b)' /\ pc'[q] = "commit" => ~SameSlot(q, b)'
        BY <3>1, <3>5, <4>1, <4>2 DEF RowInv
      <4>6. \A p, q \in Creates :
                /\ pc'[p] \in {"indexed", "commit"} /\ pc'[q] \in {"indexed", "commit"}
                /\ SameKey(p, q)'
                => p = q
        BY <3>1, <3>4, <3>5, <4>1, <4>2 DEF RowInv
      <4>7. \A p, q \in Creates :
                pc'[p] = "commit" /\ pc'[q] = "commit" /\ SameSlot(p, q)' => p = q
        BY <3>1, <3>5, <4>1, <4>2 DEF RowInv
      <4>8. \A q \in Creates :
                /\ pc'[q] # "done" => ~Exists(q)'
                /\ pc'[q] \in Inserting => seen'[q] = None
                /\ seen'[q] # None => status'[seen'[q]] # "none"
        BY <3>1, <3>2, <3>3, <4>1, <4>2, <4>3 DEF RowInv, Inserting, Exists
      <4>9. \A b, c \in Creates : Exists(b)' /\ Exists(c)' /\ Collide(b, c)' => b = c
        BY <4>1 DEF RowInv, Collide
      <4> QED BY <4>4, <4>5, <4>6, <4>7, <4>8, <4>9 DEF RowInv, Inserting, Exists
    <3>10. AuditTrailTellsStatus' /\ PaymentInv'
      BY <3>2, TableFrame
    <3>11. ChargeInv'
      BY <3>1, <3>2, <3>6, <3>7, ChargeFrame DEF gateway
    <3> QED BY <1>0, <3>8, <3>9, <3>10, <3>11
  <2> QED BY <2>1, <2>2
<1>6. CASE CreateCommit(r)
  <2> USE DEF IInv
  <2>1. /\ pc[r] = "commit" /\ seen[r] = None /\ status[r] = "none"
        /\ Finish(r, "created")
        /\ UNCHANGED <<call, payments, seen, charge, gateway, batch>>
    BY <1>6 DEF CreateCommit, RowInv, Inserting, Exists
  <2>2. \A b \in Creates : status'[b] = IF b = r THEN "reserved" ELSE status[b]
    BY <1>6, <2>1, Disjointness DEF CreateCommit, Requests
  <2>3. \A b \in Creates :
            audit'[b] = IF b = r THEN << Entry("reserved", "none", "reserved") >> ELSE audit[b]
    BY <1>6 DEF CreateCommit, TypeOK
  <2>4. \A q \in Requests : pc'[q] = IF q = r THEN "done" ELSE pc[q]
    BY <2>1 DEF Finish, TypeOK
  <2>5. \A b \in Creates : lock[b] # r => lock'[b] = lock[b]
    BY <2>1 DEF Finish, Unlocked
  <2>6. \A q \in Creates \cup Pays \cup Refunds : q \in Requests
    BY DEF Requests
  <2>7. SectionInv'
    <3>1. \A q \in Pays \cup Refunds : q # r /\ call[q].booking \in Creates
      BY CallTypes, Disjointness
    <3>2. batch \subseteq Creates /\ r # Cleaner
      BY Disjointness DEF TypeOK
    <3> QED BY <2>1, <2>2, <2>4, <2>5, <2>6, <3>1, <3>2 DEF SectionInv
  <2>8. RowInv'
    <3>1. \A b \in Creates : Exists(b)' <=> Exists(b) \/ b = r
      BY <2>1, <2>2 DEF Exists
    <3>2. \A q \in Creates : pc'[q] = IF q = r THEN "done" ELSE pc[q]
      BY <2>4, <2>6
    <3>3. \A b, q \in Creates :
                (SameKey(b, q)' <=> SameKey(b, q)) /\ (SameSlot(b, q)' <=> SameSlot(b, q))
      BY <2>1 DEF SameKey, SameSlot, Slot
    <3>4. \A b \in Creates : Exists(b) => ~Collide(r, b) /\ ~Collide(b, r)
      BY <2>1 DEF RowInv, Collide, SameKey, SameSlot
    <3>5. /\ \A q \in Creates : pc[q] = "commit" /\ SameSlot(q, r) => q = r
          /\ \A q \in Creates :
                pc[q] \in {"indexed", "commit"} /\ SameKey(q, r) => q = r
      BY <2>1 DEF RowInv
    <3>6. \A q \in Creates : seen[q] # None => seen[q] \in Creates
      BY DEF TypeOK
    <3>7. \A b, c \in Creates : Exists(b)' /\ Exists(c)' /\ Collide(b, c)' => b = c
      BY <3>1, <3>3, <3>4 DEF RowInv, Collide
    <3>8. /\ \A b, q \in Creates :
                Exists(b)' /\ pc'[q] \in {"indexed", "commit"} => ~SameKey(q, b)'
          /\ \A b, q \in Creates : Exists(b)' /\ pc'[q] = "commit" => ~SameSlot(q, b)'
      BY <3>1, <3>2, <3>3, <3>5 DEF RowInv
    <3>9. \A q \in Creates : pc'[q] # "done" => ~Exists(q)'
      BY <3>1, <3>2 DEF RowInv
    <3>10. /\ \A p, q \in Creates :
                /\ pc'[p] \in {"indexed", "commit"} /\ pc'[q] \in {"indexed", "commit"}
                /\ SameKey(p, q)'
                => p = q
           /\ \A p, q \in Creates :
                pc'[p] = "commit" /\ pc'[q] = "commit" /\ SameSlot(p, q)' => p = q
      BY <3>2, <3>3 DEF RowInv
    <3>11. \A q \in Creates :
                /\ pc'[q] \in Inserting => seen'[q] = None
                /\ seen'[q] # None => status'[seen'[q]] # "none"
      BY <2>1, <2>2, <3>2, <3>6 DEF RowInv, Inserting, Exists
    <3> QED BY <3>7, <3>8, <3>9, <3>10, <3>11 DEF RowInv, Inserting, Exists
  <2>9. AuditTrailTellsStatus'
    <3> SUFFICES ASSUME NEW b \in Creates
                 PROVE  TrailTells(b)'
      BY DEF AuditTrailTellsStatus
    <3>1. CASE b = r
      BY <2>2, <2>3, <3>1, EntryTypes, TrailStart DEF Entry
    <3>2. CASE b # r
      BY <2>2, <2>3, <3>2, TrailFrame DEF AuditTrailTellsStatus
    <3> QED BY <3>1, <3>2
  <2>10. PaymentInv'
    <3>1. \A b \in Creates : SuccessPayments(b)' = SuccessPayments(b)
      BY <2>1 DEF SuccessPayments
    <3>2. SuccessPayments(r) = {}
      BY <2>1 DEF PaymentInv, SuccessPayments
    <3> QED BY <2>1, <2>2, <3>1, <3>2 DEF PaymentInv, PaymentConsistency
  <2>11. ChargeInv'
    BY <2>1, <2>4, <2>6, ChargeFrame DEF gateway, Recording
  <2> QED BY <1>0, <2>7, <2>8, <2>9, <2>10, <2>11
<1> QED BY <1>1, <1>2, <1>3, <1>4, <1>5, <1>6 DEF CreateStep

\* A request that changes the status of the row it has locked, appending to
\* its trail, keeps the rows unique and the sections closed.
LEMMA RowWrite ==
    ASSUME TypeOK, SectionInv, RowInv, NEW r \in Requests, NEW o \in Outcomes,
           Finish(r, o), UNCHANGED <<call, seen, batch>>,
           NEW b \in Creates, lock[b] = r, Exists(b),
           NEW new \in Statuses, new # "none", status' = [status EXCEPT ![b] = new]
    PROVE  SectionInv' /\ RowInv'
<1>1. \A c \in Creates : status'[c] = IF c = b THEN new ELSE status[c]
  BY DEF TypeOK
<1>2. SectionInv'
  BY <1>1, FinishSection
<1>3. RowInv'
  BY <1>1, FinishRow DEF Exists
<1> QED BY <1>2, <1>3

\* pay_booking keeps the invariant.
LEMMA PayKeeps ==
    ASSUME IInv, NEW r \in Pays, PayStep(r)
    PROVE  IInv'
<1> USE DEF IInv
<1> r \in Requests
  BY DEF Requests
<1> DEFINE b == call[r].booking
           k == call[r].key
<1>0. TypeOK' /\ b \in Creates /\ k \in PayKeys
  BY PayType, CallTypes
<1>a. \A q \in Pays \cup Refunds : q \in Requests /\ call[q].booking \in Creates
  BY CallTypes DEF Requests
<1>b. \A q \in Refunds : q # r
  BY Disjointness
<1>1. CASE PayLock(r)
  <2>1. CASE Leave(r, "not_found")
    BY <2>1, LeaveKeeps DEF Outcomes
  <2>2. CASE Leave(r, PayRefusal(r, b))
    BY <1>0, <2>2, LeaveKeeps, RefusalTypes
  <2>3. CASE /\ Exists(b) /\ Free(b) /\ PayRefusal(r, b) = "none"
             /\ lock' = [lock EXCEPT ![b] = r] /\ Continue(r, "pay_lookup") /\ UNCHANGED seen
    <3>1. status[b] = "reserved"
      BY <2>3 DEF PayRefusal
    <3>2. /\ \A q \in Requests : pc'[q] = IF q = r THEN "pay_lookup" ELSE pc[q]
          /\ \A c \in Creates : lock'[c] = IF c = b THEN r ELSE lock[c]
          /\ UNCHANGED <<call, status, payments, audit, seen, charge, gateway, batch>>
      BY <2>3 DEF Continue, Goto, TypeOK, tables
    <3>3. pc[r] = "pay_lock" /\ lock[b] = None
      BY <1>1, <2>3 DEF PayLock, Free
    <3>4. SectionInv'
      <4>1. batch \subseteq Creates /\ Cleaner # None /\ \A q \in Requests : q # None
        BY RequestsAssumption, Disjointness DEF TypeOK
      <4> QED BY <1>0, <1>a, <1>b, <3>1, <3>2, <3>3, <4>1 DEF SectionInv
    <3>5. RowInv'
      BY <3>2, <3>3, RowFrame DEF Exists, Requests, Inserting
    <3>6. AuditTrailTellsStatus' /\ PaymentInv'
      BY <3>2, TableFrame
    <3>7. ChargeInv'
      BY <1>a, <3>2, ChargeFrame DEF gateway, Recording
    <3> QED BY <1>0, <3>4, <3>5, <3>6, <3>7
  <2> QED BY <1>1, <2>1, <2>2, <2>3 DEF PayLock
<1>2. CASE PayLookup(r)
  <2>1. PICK step \in {"answering", "charging"} : Continue(r, step)
    BY <1>2 DEF PayLookup
  <2>2. /\ pc[r] = "pay_lookup"
        /\ \A q \in Requests : pc'[q] = IF q = r THEN step ELSE pc[q]
        /\ UNCHANGED <<call, status, payments, audit, lock, seen, charge, gateway, batch>>
    BY <1>2, <2>1 DEF PayLookup, Continue, Goto, TypeOK, tables
  <2>3. SectionInv'
    BY <1>a, <1>b, <2>2, SectionFrame DEF PaySection
  <2>4. RowInv'
    BY <2>2, RowFrame DEF Exists, Requests, Inserting
  <2>5. AuditTrailTellsStatus' /\ PaymentInv'
    BY <2>2, TableFrame
  <2>6. ChargeInv'
    BY <1>a, <2>2, ChargeFrame DEF gateway, Recording
  <2> QED BY <1>0, <2>3, <2>4, <2>5, <2>6
<1>6. CASE PayAnswer(r)
  BY <1>6, LeaveKeeps DEF PayAnswer, Outcomes
<1>3. CASE PayCharge(r)
  <2>1. PICK a \in GatewayAnswers(r) :
            /\ charge' = [charge EXCEPT ![r] = a]
            /\ processed' = [processed EXCEPT ![k] = a]
            /\ charged' = IF a = r THEN charged \cup {r} ELSE charged
    BY <1>3 DEF PayCharge
  <2>2. /\ pc[r] = "charging"
        /\ \A q \in Requests : pc'[q] = IF q = r THEN "recording" ELSE pc[q]
        /\ UNCHANGED <<call, status, payments, audit, lock, seen, batch>>
    BY <1>3 DEF PayCharge, Goto, TypeOK, tables
  <2>3. SectionInv'
    BY <1>a, <1>b, <2>2, SectionFrame DEF PaySection
  <2>4. RowInv'
    BY <2>2, RowFrame DEF Exists, Requests, Inserting
  <2>5. AuditTrailTellsStatus' /\ PaymentInv'
    BY <2>2, TableFrame
  <2>6. ChargeInv'
    <3>1. a # None /\ (a \in Pays => a \in charged' /\ call[a].key = k)
      <4>1. a \in Pays => a # Declined /\ a # None
        BY Disjointness DEF Requests
      <4>2. CASE processed[k] # None
        BY <1>0, <2>1, <4>2 DEF GatewayAnswers, ChargeInv
      <4>3. CASE processed[k] = None
        BY <2>1, <4>1, <4>3, RequestsAssumption DEF GatewayAnswers
      <4> QED BY <4>2, <4>3
    <3>2. /\ \A q \in Pays : charge'[q] = IF q = r THEN a ELSE charge[q]
          /\ \A j \in PayKeys : processed'[j] = IF j = k THEN a ELSE processed[j]
          /\ charged \subseteq charged'
      BY <1>0, <2>1 DEF TypeOK
    <3> QED BY <1>a, <2>2, <3>1, <3>2 DEF ChargeInv, Recording, KeyPaid
  <2> QED BY <1>0, <2>3, <2>4, <2>5, <2>6
<1>4. CASE PayFlush(r)
  <2>1. CASE Leave(r, "unique_violation")
    BY <2>1, LeaveKeeps DEF Outcomes
  <2>2. CASE ~KeyPaid(k) /\ Continue(r, "pay_commit") /\ UNCHANGED <<lock, seen>>
    <3>1. /\ pc[r] = "recording"
          /\ \A q \in Requests : pc'[q] = IF q = r THEN "pay_commit" ELSE pc[q]
          /\ \A q \in Pays : pc[q] = "pay_commit" => call[q].key # k
          /\ UNCHANGED <<call, status, payments, audit, lock, seen, charge, gateway, batch>>
      BY <1>4, <2>2 DEF PayFlush, PendingPayments, Continue, Goto, TypeOK, tables
    <3>2. SectionInv'
      BY <1>a, <1>b, <3>1, SectionFrame DEF PaySection
    <3>3. RowInv'
      BY <3>1, RowFrame DEF Exists, Requests, Inserting
    <3>4. AuditTrailTellsStatus' /\ PaymentInv'
      BY <3>1, TableFrame
    <3>5. ChargeInv'
      BY <1>a, <2>2, <3>1 DEF ChargeInv, Recording, KeyPaid, gateway
    <3> QED BY <1>0, <3>2, <3>3, <3>4, <3>5
  <2> QED BY <1>4, <2>1, <2>2 DEF PayFlush
<1>5. CASE PayCommit(r)
  <2>2. ASSUME NEW new \in {"confirmed", "cancelled"}, NEW ps \in {"success", "failed"},
               NEW ref \in Pays \cup {None}, NEW action \in {"confirmed", "payment_failed"},
               new = "confirmed" <=> ps = "success",
               ps = "success" => ref = charge[r] /\ ref \in Pays,
               Record(r, new, ps, ref, action)
        PROVE  IInv'
    <3> DEFINE p0 == [booking |-> b, key |-> k, status |-> ps, ref |-> ref]
               e1 == Entry("payment_attempted", "reserved", "reserved")
               e2 == Entry(action, "reserved", new)
    <3>1. /\ Finish(r, new) /\ new \in Outcomes /\ new \in Statuses /\ new # "none"
          /\ status' = [status EXCEPT ![b] = new]
          /\ payments' = payments \cup {p0}
          /\ audit' = [audit EXCEPT ![b] = Append(Append(@, e1), e2)]
          /\ UNCHANGED <<call, seen, charge, processed, charged, batch>>
      BY <2>2 DEF Record, Outcomes, Statuses, gateway
    <3>2. status[b] = "reserved" /\ lock[b] = r /\ Exists(b)
      BY <1>5 DEF PayCommit, SectionInv, PaySection, Exists
    <3>3. \A c \in Creates : status'[c] = IF c = b THEN new ELSE status[c]
      BY <3>1 DEF TypeOK
    <3>4. SectionInv' /\ RowInv'
      BY <1>0, <3>1, <3>2, RowWrite
    <3>5. AuditTrailTellsStatus'
      <4> SUFFICES ASSUME NEW c \in Creates
                   PROVE  TrailTells(c)'
        BY DEF AuditTrailTellsStatus
      <4>1. CASE c # b
        <5>1. audit'[c] = audit[c] /\ status'[c] = status[c]
          BY <3>1, <3>3, <4>1 DEF TypeOK
        <5> QED BY <5>1, TrailFrame DEF AuditTrailTellsStatus
      <4>2. CASE c = b
        <5>1. /\ e1 \in Entries /\ e2 \in Entries
              /\ e1.previous = "reserved" /\ e1.new = "reserved"
              /\ e2.previous = "reserved" /\ e2.new = new
          BY DEF Entry, Entries, AuditActions, Statuses
        <5>2. Chain(audit[b], "reserved")
          BY <1>0, <3>2, TrailIsChain DEF AuditTrailTellsStatus
        <5>3. Chain(Append(audit[b], e1), "reserved")
          BY <5>1, <5>2, ChainAppend
        <5>4. Chain(Append(Append(audit[b], e1), e2), new)
          BY <5>1, <5>3, ChainAppend
        <5>5. audit'[b] = Append(Append(audit[b], e1), e2) /\ status'[b] = new
          BY <1>0, <3>1, <3>3 DEF TypeOK
        <5> QED BY <3>1, <4>2, <5>4, <5>5 DEF Chain, TrailTells, Exists
      <4> QED BY <4>1, <4>2
    <3>6. PaymentInv'
      <4>1. \A p \in payments : p.booking # b
        BY <1>0, <3>2 DEF PaymentInv
      <4>2. \A c \in Creates : c # b =>
                SuccessPayments(c)' = SuccessPayments(c)
        BY <3>1 DEF SuccessPayments
      <4>3. \A c \in Creates : c = b =>
                SuccessPayments(c)' = IF ps = "success" THEN {p0} ELSE {}
        BY <3>1, <4>1 DEF SuccessPayments
      <4>4. \A c \in Creates : status'[c] \in {"none", "reserved"} =>
                \A p \in payments' : p.booking # c
        BY <2>2, <3>1, <3>3 DEF PaymentInv
      <4>5. \A c \in Creates :
                /\ status'[c] \in {"confirmed", "refunded"} =>
                      \E p \in SuccessPayments(c)' : SuccessPayments(c)' = {p}
                /\ status'[c] \notin {"confirmed", "refunded"} => SuccessPayments(c)' = {}
        <5> SUFFICES ASSUME NEW c \in Creates
                     PROVE  /\ status'[c] \in {"confirmed", "refunded"} =>
                                  \E p \in SuccessPayments(c)' : SuccessPayments(c)' = {p}
                            /\ status'[c] \notin {"confirmed", "refunded"} =>
                                  SuccessPayments(c)' = {}
          OBVIOUS
        <5>1. CASE c = b
          <6> HIDE DEF p0
          <6> QED BY <2>2, <3>3, <4>3, <5>1
        <5>2. CASE c # b
          BY <3>3, <4>2, <5>2 DEF PaymentInv, PaymentConsistency
        <5> QED BY <5>1, <5>2
      <4> QED BY <4>4, <4>5 DEF PaymentInv, PaymentConsistency
    <3>7. ChargeInv'
      <4>1. ps = "success" => ref \in charged /\ call[ref].key = k
        BY <2>2 DEF ChargeInv
      <4>2. \A p \in payments : p.key # k
        BY <1>5 DEF PayCommit, ChargeInv, KeyPaid
      <4>3. \A q \in Pays : pc'[q] = IF q = r THEN "done" ELSE pc[q]
        BY <1>a, <3>1 DEF Finish, TypeOK
      <4>4. \A q \in Pays : pc'[q] = "pay_commit" => call[q].key # k
        BY <1>5, <4>3 DEF PayCommit, ChargeInv
      <4>5. \A q \in Pays : pc'[q] = "pay_commit" => ~KeyPaid(call[q].key)'
        BY <3>1, <4>3, <4>4 DEF ChargeInv, KeyPaid
      <4> QED BY <3>1, <4>1, <4>2, <4>3, <4>5 DEF ChargeInv, Recording
    <3> QED BY <1>0, <3>4, <3>5, <3>6, <3>7
  <2>3. charge[r] # None /\ charge[r] \in Pays \cup {Declined, None}
    BY <1>5 DEF PayCommit, ChargeInv, Recording, TypeOK
  <2>4. CASE charge[r] # Declined
             /\ Record(r, "confirmed", "success", charge[r], "confirmed")
    BY <2>2, <2>3, <2>4
  <2>5. CASE Record(r, "cancelled", "failed", None, "payment_failed")
    BY <2>2, <2>5
  <2> QED BY <1>5, <2>4, <2>5 DEF PayCommit
<1> QED BY <1>1, <1>2, <1>3, <1>4, <1>5, <1>6 DEF PayStep

\* A commit that appends one entry to the trail of each row whose status it
\* changes continues every trail.
LEMMA TrailWrite ==
    ASSUME TypeOK, AuditTrailTellsStatus, NEW B \in SUBSET Creates, NEW e \in Entries,
           e.new # "none",
           \A b \in B : Exists(b) /\ status[b] = e.previous,
           \A b \in Creates :
                /\ status'[b] = IF b \in B THEN e.new ELSE status[b]
                /\ audit'[b] = IF b \in B THEN Append(audit[b], e) ELSE audit[b]
    PROVE  AuditTrailTellsStatus'
<1> SUFFICES ASSUME NEW b \in Creates
             PROVE  TrailTells(b)'
  BY DEF AuditTrailTellsStatus
<1>1. CASE b \notin B
  BY <1>1, TrailFrame DEF AuditTrailTellsStatus
<1>2. CASE b \in B
  <2>1. Chain(audit[b], e.previous)
    BY <1>2, TrailIsChain DEF AuditTrailTellsStatus
  <2>2. Chain(Append(audit[b], e), e.new)
    BY <2>1, ChainAppend
  <2> QED BY <1>2, <2>2 DEF Chain, TrailTells, Exists
<1> QED BY <1>1, <1>2

\* refund_booking keeps the invariant.
LEMMA RefundKeeps ==
    ASSUME IInv, NEW r \in Refunds, RefundStep(r)
    PROVE  IInv'
<1> USE DEF IInv
<1> r \in Requests
  BY DEF Requests
<1> DEFINE b == call[r].booking
<1>0. TypeOK' /\ b \in Creates
  BY RefundType, CallTypes
<1>a. \A q \in Pays \cup Refunds : q \in Requests /\ call[q].booking \in Creates
  BY CallTypes DEF Requests
<1>b. \A q \in Pays : q # r
  BY Disjointness
<1>1. CASE RefundLock(r)
  <2>1. CASE Leave(r, "not_found")
    BY <2>1, LeaveKeeps DEF Outcomes
  <2>2. CASE Leave(r, RefundRefusal(r, b))
    BY <1>0, <2>2, LeaveKeeps, RefusalTypes
  <2>3. CASE /\ Exists(b) /\ Free(b) /\ RefundRefusal(r, b) = "none"
             /\ lock' = [lock EXCEPT ![b] = r] /\ Continue(r, "returning") /\ UNCHANGED seen
    <3>1. status[b] = "confirmed"
      BY <2>3 DEF RefundRefusal
    <3>2. /\ \A q \in Requests : pc'[q] = IF q = r THEN "returning" ELSE pc[q]
          /\ \A c \in Creates : lock'[c] = IF c = b THEN r ELSE lock[c]
          /\ UNCHANGED <<call, status, payments, audit, seen, charge, gateway, batch>>
      BY <2>3 DEF Continue, Goto, TypeOK, tables
    <3>3. pc[r] = "refund_lock" /\ lock[b] = None
      BY <1>1, <2>3 DEF RefundLock, Free
    <3>4. SectionInv'
      <4>1. batch \subseteq Creates /\ Cleaner # None /\ \A q \in Requests : q # None
        BY RequestsAssumption, Disjointness DEF TypeOK
      <4> QED BY <1>0, <1>a, <1>b, <3>1, <3>2, <3>3, <4>1 DEF SectionInv
    <3>5. RowInv'
      BY <3>2, <3>3, RowFrame DEF Exists, Requests, Inserting
    <3>6. AuditTrailTellsStatus' /\ PaymentInv'
      BY <3>2, TableFrame
    <3>7. ChargeInv'
      BY <1>a, <3>2, ChargeFrame DEF gateway, Recording
    <3> QED BY <1>0, <3>4, <3>5, <3>6, <3>7
  <2> QED BY <1>1, <2>1, <2>2, <2>3 DEF RefundLock
<1>2. CASE RefundReturn(r)
  <2>1. CASE Leave(r, "multiple_results")
    BY <2>1, LeaveKeeps DEF Outcomes
  <2>2. CASE ~Leave(r, "multiple_results")
    <3>1. /\ pc[r] = "returning"
          /\ \A q \in Requests : pc'[q] = IF q = r THEN "refund_commit" ELSE pc[q]
          /\ UNCHANGED <<call, status, payments, audit, lock, seen, charge,
                         processed, charged, batch>>
      BY <1>2, <2>2 DEF RefundReturn, Goto, TypeOK, tables
    <3>2. SectionInv'
      BY <1>a, <1>b, <3>1, SectionFrame DEF RefundSection
    <3>3. RowInv'
      BY <3>1, RowFrame DEF Exists, Requests, Inserting
    <3>4. AuditTrailTellsStatus' /\ PaymentInv'
      BY <3>1, TableFrame
    <3>5. ChargeInv'
      BY <1>a, <3>1, ChargeFrame DEF Recording
    <3> QED BY <1>0, <3>2, <3>3, <3>4, <3>5
  <2> QED BY <2>1, <2>2
<1>3. CASE RefundCommit(r)
  <2> DEFINE e == Entry("refunded", "confirmed", "refunded")
  <2>1. /\ Finish(r, "refunded") /\ "refunded" \in Outcomes
        /\ "refunded" \in Statuses /\ "refunded" # "none"
        /\ status' = [status EXCEPT ![b] = "refunded"]
        /\ audit' = [audit EXCEPT ![b] = Append(@, e)]
        /\ UNCHANGED <<call, payments, seen, charge, processed, charged, batch>>
    BY <1>3 DEF RefundCommit, Outcomes, Statuses, gateway
  <2>2. status[b] = "confirmed" /\ lock[b] = r /\ Exists(b)
    BY <1>3 DEF RefundCommit, SectionInv, RefundSection, Exists
  <2>3. \A c \in Creates : status'[c] = IF c = b THEN "refunded" ELSE status[c]
    BY <2>1 DEF TypeOK
  <2>4. SectionInv' /\ RowInv'
    BY <1>0, <2>1, <2>2, RowWrite
  <2>5. AuditTrailTellsStatus'
    <3>1. e \in Entries /\ e.previous = "confirmed" /\ e.new = "refunded"
      BY EntryTypes DEF Entry
    <3>2. \A c \in Creates :
              /\ status'[c] = IF c \in {b} THEN e.new ELSE status[c]
              /\ audit'[c] = IF c \in {b} THEN Append(audit[c], e) ELSE audit[c]
      BY <2>1, <2>3, <3>1 DEF TypeOK
    <3>3. {b} \in SUBSET Creates /\ \A c \in {b} : Exists(c) /\ status[c] = e.previous
      BY <1>0, <2>2, <3>1
    <3> HIDE DEF e
    <3> QED BY <3>1, <3>2, <3>3, TrailWrite
  <2>6. PaymentInv'
    <3>1. \A c \in Creates : SuccessPayments(c)' = SuccessPayments(c)
      BY <2>1 DEF SuccessPayments
    <3> QED BY <1>0, <2>1, <2>2, <2>3, <3>1 DEF PaymentInv, PaymentConsistency
  <2>7. ChargeInv'
    <3>1. \A q \in Pays : pc'[q] \in Recording => pc[q] = pc'[q]
      BY <1>a, <2>1 DEF Finish, TypeOK, Recording
    <3> QED BY <2>1, <3>1, ChargeFrame
  <2> QED BY <1>0, <2>4, <2>5, <2>6, <2>7
<1> QED BY <1>1, <1>2, <1>3 DEF RefundStep

\* So do the cleanup task and the failures.
LEMMA BackgroundKeeps ==
    ASSUME IInv,
           \/ CleanupSelect \/ CleanupCommit \/ CleanupFail \/ Crash
           \/ \E r \in Requests : Abort(r) \/ PoolTimeout(r)
    PROVE  IInv'
<1> USE DEF IInv
<1>0. TypeOK'
  BY BackgroundType
<1>a. /\ \A q \in Pays \cup Refunds :
            q \in Requests /\ q # None /\ q # Cleaner /\ call[q].booking \in Creates
      /\ \A q \in Creates : q \in Requests
      /\ batch \subseteq Creates
  BY CallTypes, Disjointness DEF Requests, TypeOK
<1>1. CASE CleanupSelect
  <2>1. /\ UNCHANGED <<call, status, payments, audit, pc, seen, charge, gateway>>
        /\ batch' = Releasable
        /\ \A b \in Creates : lock'[b] = IF b \in Releasable THEN Cleaner ELSE lock[b]
    BY <1>1 DEF CleanupSelect, tables
  <2>2. \A b \in Releasable : b \in Creates /\ status[b] = "reserved" /\ lock[b] = None
    BY DEF Releasable, Free
  <2>3. SectionInv'
    BY <1>a, <2>1, <2>2 DEF SectionInv
  <2>4. RowInv'
    BY <2>1, RowFrame DEF Exists
  <2>5. AuditTrailTellsStatus' /\ PaymentInv'
    BY <2>1, TableFrame
  <2>6. ChargeInv'
    BY <2>1, ChargeFrame DEF gateway
  <2> QED BY <1>0, <2>3, <2>4, <2>5, <2>6
<1>2. CASE CleanupCommit
  <2> DEFINE e == Entry("expired_cleanup", "reserved", "cancelled")
  <2>1. /\ UNCHANGED <<call, payments, pc, seen, charge, gateway>>
        /\ batch' = {}
        /\ \A b \in Creates : lock[b] # Cleaner => lock'[b] = lock[b]
        /\ \A b \in Creates : status'[b] = IF b \in batch THEN "cancelled" ELSE status[b]
        /\ \A b \in Creates : audit'[b] = IF b \in batch THEN Append(audit[b], e) ELSE audit[b]
    BY <1>2 DEF CleanupCommit, CleanupEnd, Unlocked
  <2>2. \A b \in batch : status[b] = "reserved" /\ lock[b] = Cleaner
    BY DEF SectionInv
  <2>3. SectionInv'
    BY <1>a, <2>1, <2>2 DEF SectionInv
  <2>4. RowInv'
    BY <2>1, <2>2, RowFrame DEF Exists
  <2>5. AuditTrailTellsStatus'
    <3>1. e \in Entries /\ e.previous = "reserved" /\ e.new = "cancelled"
      BY EntryTypes DEF Entry
    <3>2. batch \in SUBSET Creates /\ \A b \in batch : Exists(b) /\ status[b] = e.previous
      BY <1>a, <2>2, <3>1 DEF Exists
    <3>3. \A b \in Creates :
              /\ status'[b] = IF b \in batch THEN e.new ELSE status[b]
              /\ audit'[b] = IF b \in batch THEN Append(audit[b], e) ELSE audit[b]
      BY <2>1, <3>1
    <3> HIDE DEF e
    <3> QED BY <3>1, <3>2, <3>3, TrailWrite
  <2>6. PaymentInv'
    <3>1. \A b \in Creates : SuccessPayments(b)' = SuccessPayments(b)
      BY <2>1 DEF SuccessPayments
    <3>2. \A b \in batch : SuccessPayments(b) = {}
      BY <1>a, <2>2 DEF PaymentInv, PaymentConsistency
    <3> QED BY <2>1, <2>2, <3>1, <3>2 DEF PaymentInv, PaymentConsistency
  <2>7. ChargeInv'
    BY <2>1, ChargeFrame DEF gateway
  <2> QED BY <1>0, <2>3, <2>4, <2>5, <2>6, <2>7
<1>3. CASE CleanupFail
  <2>1. /\ UNCHANGED <<call, status, payments, audit, pc, seen, charge, gateway>>
        /\ batch' = {}
        /\ \A b \in Creates : lock[b] # Cleaner => lock'[b] = lock[b]
    BY <1>3 DEF CleanupFail, CleanupEnd, Unlocked
  <2>2. SectionInv'
    BY <1>a, <2>1 DEF SectionInv
  <2>3. RowInv'
    BY <2>1, RowFrame DEF Exists
  <2>4. AuditTrailTellsStatus' /\ PaymentInv'
    BY <2>1, TableFrame
  <2>5. ChargeInv'
    BY <2>1, ChargeFrame DEF gateway
  <2> QED BY <1>0, <2>2, <2>3, <2>4, <2>5
<1>4. CASE Crash
  <2>1. /\ UNCHANGED <<call, status, payments, audit, seen, charge, charged>>
        /\ batch' = {} /\ processed' = [k \in PayKeys |-> None]
        /\ \A q \in Requests : pc'[q] = IF InFlight(q) THEN "done" ELSE pc[q]
    BY <1>4 DEF Crash, tables
  <2>2. \A q \in Requests : pc'[q] \in {"idle", "done"} /\ (pc[q] = "done" => pc'[q] = "done")
    BY <2>1 DEF InFlight
  <2>3. SectionInv'
    BY <1>a, <2>1, <2>2 DEF SectionInv, PaySection, RefundSection
  <2>4. RowInv'
    BY <1>a, <2>1, <2>2, RowFrame DEF Exists, Inserting
  <2>5. AuditTrailTellsStatus' /\ PaymentInv'
    BY <2>1, TableFrame
  <2>6. ChargeInv'
    BY <1>a, <2>1, <2>2, ChargeFrame DEF Recording
  <2> QED BY <1>0, <2>3, <2>4, <2>5, <2>6
<1>5. ASSUME NEW r \in Requests, Abort(r) \/ PoolTimeout(r)
      PROVE  IInv'
  <2>1. Finish(r, "aborted") /\ "aborted" \in Outcomes
        /\ UNCHANGED <<call, status, payments, audit, seen, charge, gateway, batch>>
    BY <1>5 DEF Abort, PoolTimeout, Leave, Outcomes, tables
  <2>2. SectionInv'
    BY <2>1, FinishSection
  <2>3. RowInv'
    BY <2>1, FinishRow DEF Exists
  <2>4. AuditTrailTellsStatus' /\ PaymentInv'
    BY <2>1, TableFrame
  <2>5. \A q \in Pays : pc'[q] \in Recording => pc[q] = pc'[q]
    BY <1>a, <2>1 DEF Finish, TypeOK, Recording
  <2>6. ChargeInv'
    BY <2>1, <2>5, ChargeFrame DEF gateway
  <2> QED BY <1>0, <2>2, <2>3, <2>4, <2>6
<1> QED BY <1>1, <1>2, <1>3, <1>4, <1>5

-------------------------------------------------------------------------------
(* Theorems *)

\* The inductive invariant holds in every reachable state of the engine.
THEOREM Invariance == Spec => []IInv
<1>1. Init => IInv
  <2> SUFFICES ASSUME Init
               PROVE  IInv
    OBVIOUS
  <2>1. TypeOK
    BY TimesAssumption DEF Init, TypeOK, Statuses, Outcomes, Payments
  <2>2. SectionInv
    BY DEF Init, SectionInv, PaySection, RefundSection, Requests
  <2>3. RowInv
    BY DEF Init, RowInv, Inserting, Exists, Requests
  <2>4. AuditTrailTellsStatus
    BY DEF Init, AuditTrailTellsStatus, TrailTells, Exists
  <2>5. PaymentInv
    BY DEF Init, PaymentInv, PaymentConsistency, SuccessPayments
  <2>6. ChargeInv
    BY Disjointness DEF Init, ChargeInv, Recording, KeyPaid, Requests
  <2> QED BY <2>1, <2>2, <2>3, <2>4, <2>5, <2>6 DEF IInv
<1>2. IInv /\ [Next]_vars => IInv'
  <2> SUFFICES ASSUME IInv, [Next]_vars
               PROVE  IInv'
    OBVIOUS
  <2>1. ASSUME NEW r \in Requests, Receive(r)
        PROVE  IInv'
    <3>1. TypeOK'
      BY <2>1 DEF IInv, Receive, Goto, TypeOK, Steps, CreateSteps, PaySteps,
                  RefundSteps, Requests, tables, gateway
    <3>2. /\ pc[r] = "idle"
          /\ \A q \in Requests : pc'[q] = IF q = r THEN pc'[r] ELSE pc[q]
          /\ pc'[r] \in {"lookup", "pay_lock", "refund_lock"}
          /\ UNCHANGED <<call, tables, lock, seen, charge, gateway, batch>>
      BY <2>1 DEF IInv, Receive, Goto, TypeOK, Requests
    <3> QED BY <3>1, <3>2, MoveKeeps DEF PaySection, RefundSection, Inserting
  <2>2. CASE Tick \/ Rest \/ UNCHANGED vars
    <3>1. UNCHANGED <<call, tables, lock, pc, seen, charge, gateway, batch>>
      BY <2>2 DEF Tick, Rest, vars, tables, gateway
    <3>2. TypeOK'
      BY <2>2 DEF IInv, Tick, Rest, vars, TypeOK, tables, gateway
    <3> QED BY <3>1, <3>2, MoveKeeps
  <2> QED BY <2>1, <2>2, CreateKeeps, PayKeeps, RefundKeeps, BackgroundKeeps DEF Next
<1> QED BY <1>1, <1>2, PTL DEF Spec

\* No interleaving of any number of create_booking calls sells a seat twice.
THEOREM SeatsSoldOnce == Spec => []NoDoubleBooking
<1>1. IInv => NoDoubleBooking
  BY DEF IInv, RowInv, NoDoubleBooking, Collide, SameSlot, Holds, Holding, Exists
<1> QED BY <1>1, Invariance, PTL

\* No two rows of table bookings share an idempotency key.
THEOREM KeysAreUnique == Spec => []KeyNamesOneBooking
<1>1. IInv => KeyNamesOneBooking
  BY DEF IInv, RowInv, KeyNamesOneBooking, Collide, SameKey
<1> QED BY <1>1, Invariance, PTL

\* What a locked read has established holds until the transaction writes.
THEOREM NoStaleWrites == Spec => []LockedReadsHold
<1>1. IInv => LockedReadsHold
  BY DEF IInv, SectionInv, LockedReadsHold, PaySection, RefundSection, PaySteps
<1> QED BY <1>1, Invariance, PTL

\* The status of a booking and its payments always agree.
THEOREM PaymentsMatchStatus == Spec => []PaymentConsistency
<1>1. IInv => PaymentConsistency
  BY DEF IInv, PaymentInv
<1> QED BY <1>1, Invariance, PTL

\* No charge ever pays for two bookings.
THEOREM ChargesAreUnique == Spec => []ChargeBacksOneBooking
<1>1. IInv => ChargeBacksOneBooking
  BY DEF IInv, ChargeInv, ChargeBacksOneBooking
<1> QED BY <1>1, Invariance, PTL

\* Every audit trail is a gapless account of its booking's status.
THEOREM TrailsTellStatus == Spec => []AuditTrailTellsStatus
<1>1. IInv => AuditTrailTellsStatus
  BY DEF IInv
<1> QED BY <1>1, Invariance, PTL
===============================================================================
