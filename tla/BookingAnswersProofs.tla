------------------------- MODULE BookingAnswersProofs -------------------------
(***************************************************************************)
(* More theorems about BookingEngine, over the invariant IInv: who holds   *)
(* locks, what an answer promises, where the money is, and what the check  *)
(* of a quiet system finds.                                                *)
(***************************************************************************)
EXTENDS BookingEngineProofs, IntegrityCheck

\* The steps of a request that may hold a row lock.
LockSteps == {"overlap", "replace", "insert", "indexed", "commit"} \cup PaySection \cup RefundSection

\* A lock is held by a cleanup pass on its batch, or by a request past its locked
\* read; a create holds the lock of the inactive row it has seen.
LockInv ==
    /\ \A r \in Requests : pc[r] \in CreateSteps => r \in Creates
    /\ \A b \in Creates : lock[b] = Cleaner => b \in batch
    /\ \A b \in Creates : \A r \in Requests : lock[b] = r => pc[r] \in LockSteps
    /\ \A b, r \in Creates : lock[b] = r => seen[r] = b

\* A create past step 3 has a schedule; past step 4, and so as a row, it has a seat
\* as well.
PlaceInv ==
    \A r \in Creates :
        /\ pc[r] = "replace" => call[r].schedule \in Schedules
        /\ pc[r] \in Inserting \/ Exists(r) =>
                call[r].schedule \in Schedules /\ call[r].seat \in Seats

\* What the answer of r promises.
Answered(r) ==
    /\ r \in Creates /\ outcome[r] = "created" => Exists(r)
    /\ r \in Creates /\ outcome[r] = "found" => KeyRows(r) # {}
    /\ r \in Creates /\ outcome[r] \in {"overlapping", "multiple_results"} =>
            \E b \in Creates \ {r} :
                /\ Exists(b) /\ call[b].user = call[r].user
                /\ OnBoardTogether(call[b].schedule, call[r].schedule)
    /\ r \in Pays /\ outcome[r] = "confirmed" =>
            /\ status[call[r].booking] \in {"confirmed", "refunded"}
            /\ \E p \in SuccessPayments(call[r].booking) : p.key = call[r].key
    /\ r \in Refunds /\ outcome[r] = "refunded" => status[call[r].booking] = "refunded"

Promises == {"created", "found", "overlapping", "multiple_results", "confirmed", "refunded"}

AnswersInv == \A r \in Requests : Answered(r)

\* The request is over and has been cut off.
Aborted(r) == pc[r] = "done" /\ outcome[r] = "aborted"

\* Where the money of a charge, and of a refund call, can be.
ChargeFound(a) ==
    \/ \E p \in payments : p.ref = a
    \/ pc[a] \in Recording /\ charge[a] = a
    \/ Aborted(a)
RefundFound(r) ==
    status[call[r].booking] = "refunded" \/ pc[r] = "refund_commit" \/ Aborted(r)

\* The gateway remembers every charge that is about to be recorded; it may have
\* forgotten a payment, but then nobody is left who would charge for its key again.
MemoryInv ==
    /\ \A r \in Pays : pc[r] \in Recording => processed[call[r].key] = charge[r]
    /\ \A r \in Pays : pc[r] = "charging" /\ KeyPaid(call[r].key) =>
            processed[call[r].key] # None
    /\ \A p \in payments : processed[p.key] # None =>
            processed[p.key] = IF p.status = "success" THEN p.ref ELSE Declined

\* All money that has moved is found, and was returned once per booking.
Books ==
    /\ \A a \in charged : ChargeFound(a)
    /\ \A r \in refundCalls : RefundFound(r)
    /\ \A r, q \in refundCalls :
          call[r].booking = call[q].booking => r = q \/ Aborted(r) \/ Aborted(q)

Ledger == MemoryInv /\ Books

-------------------------------------------------------------------------------
(* Locks *)

\* The end of a request frees its locks and no others.
LEMMA FinishLocks ==
    ASSUME TypeOK, LockInv, NEW r \in Requests, NEW o, Finish(r, o), UNCHANGED <<seen, batch>>
    PROVE  LockInv'
<1>1. \A q \in Requests : pc'[q] = IF q = r THEN "done" ELSE pc[q]
  BY DEF Finish, TypeOK
<1>2. \A b \in Creates : lock'[b] = IF lock[b] = r THEN None ELSE lock[b]
  BY DEF Finish, Unlocked
<1>3. /\ \A q \in Requests : q # None /\ q # Cleaner
      /\ \A q \in Creates : q \in Requests /\ q # None
      /\ None # Cleaner
  BY Disjointness, RequestsAssumption DEF Requests
<1>4. "done" \notin CreateSteps
  BY DEF CreateSteps
<1> QED BY <1>1, <1>2, <1>3, <1>4 DEF LockInv

\* A request that goes on keeps its locks.
LEMMA MoveLocks ==
    ASSUME LockInv, UNCHANGED <<lock, seen, batch>>, NEW r \in Requests,
           \A q \in Requests : q # r => pc'[q] = pc[q],
           pc'[r] \in CreateSteps => r \in Creates,
           pc[r] \in LockSteps => pc'[r] \in LockSteps
    PROVE  LockInv'
BY DEF LockInv

\* A request locks the row it has read.
LEMMA TakeLock ==
    ASSUME TypeOK, LockInv, UNCHANGED batch, NEW r \in Requests, NEW b \in Creates,
           Free(b), lock' = [lock EXCEPT ![b] = r], NEW step \in LockSteps, Goto(r, step),
           step \in CreateSteps => r \in Creates,
           r \in Creates => /\ \A c \in Creates : lock[c] # r
                            /\ seen' = [seen EXCEPT ![r] = b],
           r \notin Creates => seen' = seen
    PROVE  LockInv'
<1>1. \A q \in Requests : pc'[q] = IF q = r THEN step ELSE pc[q]
  BY DEF Goto, TypeOK
<1>2. \A c \in Creates : lock'[c] = IF c = b THEN r ELSE lock[c]
  BY DEF TypeOK
<1>3. \A q \in Creates : q # r => seen'[q] = seen[q]
  BY DEF TypeOK
<1>4. r \in Creates => seen'[r] = b
  BY DEF TypeOK
<1>5. r # Cleaner /\ \A q \in Creates : q \in Requests
  BY Disjointness DEF Requests
<1> QED BY <1>1, <1>2, <1>3, <1>4, <1>5 DEF LockInv

\* Every step of create_booking keeps the locks accounted for.
LEMMA CreateLocks ==
    ASSUME TypeOK, LockInv, NEW r \in Creates, CreateStep(r)
    PROVE  LockInv'
<1> r \in Requests
  BY DEF Requests
<1> USE DEF LockSteps, CreateSteps
<1>1. CASE \E o \in Outcomes : Leave(r, o)
  BY <1>1, FinishLocks DEF Leave
<1>2. CASE /\ \E step \in CreateSteps \ {"lookup"} : Goto(r, step)
           /\ UNCHANGED <<lock, seen, batch>>
           /\ pc[r] \in LockSteps => pc'[r] \in LockSteps
  BY <1>2, MoveLocks DEF Goto, TypeOK
<1>3. CASE CreateLookup(r)
  BY <1>1, <1>2, <1>3 DEF CreateLookup, Continue, Outcomes, PaySection, RefundSection
<1>4. CASE CreateLock(r)
  <2>1. ASSUME NEW b \in SlotRows(r), Free(b), lock' = [lock EXCEPT ![b] = r],
               seen' = [seen EXCEPT ![r] = b], Continue(r, "overlap")
        PROVE  LockInv'
    <3>1. b \in Creates
      BY DEF SlotRows
    <3>2. \A c \in Creates : lock[c] # r
      BY <1>4 DEF CreateLock, LockInv, PaySection, RefundSection
    <3> QED BY <2>1, <3>1, <3>2, TakeLock DEF Continue
  <2> QED BY <1>1, <1>2, <1>4, <2>1
          DEF CreateLock, Continue, Outcomes, PaySection, RefundSection
<1>5. CASE CreateOverlap(r)
  <2>1. OverlapAnswer(r) \in Outcomes
    BY RefusalTypes
  <2> QED BY <1>1, <1>2, <1>5, <2>1 DEF CreateOverlap, Continue, Goto, TypeOK, Outcomes
<1>6. CASE CreateReplace(r)
  BY <1>1, <1>2, <1>6 DEF CreateReplace, Goto, TypeOK, Outcomes
<1>7. CASE CreateInsert(r) \/ CreateIndex(r)
  BY <1>1, <1>2, <1>7 DEF CreateInsert, CreateIndex, Continue, Goto, TypeOK, Outcomes
<1>8. CASE CreateCommit(r)
  BY <1>8, FinishLocks DEF CreateCommit
<1> QED BY <1>3, <1>4, <1>5, <1>6, <1>7, <1>8 DEF CreateStep

\* Every step of pay_booking keeps the locks accounted for.
LEMMA PayLocks ==
    ASSUME TypeOK, LockInv, NEW r \in Pays, PayStep(r)
    PROVE  LockInv'
<1> r \in Requests /\ r \notin Creates
  BY Disjointness DEF Requests
<1> call[r].booking \in Creates
  BY CallTypes
<1> USE DEF LockSteps, CreateSteps, PaySection
<1>1. CASE \E o \in Outcomes : Leave(r, o)
  BY <1>1, FinishLocks DEF Leave
<1>2. CASE /\ \E step \in {"answering", "charging", "recording", "pay_commit"} : Goto(r, step)
           /\ UNCHANGED <<lock, seen, batch>>
  BY <1>2, MoveLocks DEF Goto, TypeOK
<1>3. CASE PayLock(r)
  <2>1. PayRefusal(r, call[r].booking) \in Outcomes
    BY RefusalTypes
  <2>2. CASE /\ Free(call[r].booking) /\ lock' = [lock EXCEPT ![call[r].booking] = r]
             /\ Continue(r, "pay_lookup") /\ UNCHANGED seen
    BY <2>2, TakeLock DEF Continue
  <2> QED BY <1>1, <1>3, <2>1, <2>2 DEF PayLock, Outcomes
<1>4. CASE PayLookup(r)
  BY <1>2, <1>4 DEF PayLookup, Continue
<1>8. CASE PayAnswer(r)
  BY <1>1, <1>8 DEF PayAnswer, Outcomes
<1>5. CASE PayCharge(r)
  BY <1>2, <1>5 DEF PayCharge
<1>6. CASE PayFlush(r)
  BY <1>1, <1>2, <1>6 DEF PayFlush, Continue, Outcomes
<1>7. CASE PayCommit(r)
  BY <1>7, FinishLocks DEF PayCommit, Record
<1> QED BY <1>3, <1>4, <1>5, <1>6, <1>7, <1>8 DEF PayStep

\* Every step of refund_booking keeps the locks accounted for.
LEMMA RefundLocks ==
    ASSUME TypeOK, LockInv, NEW r \in Refunds, RefundStep(r)
    PROVE  LockInv'
<1> r \in Requests /\ r \notin Creates
  BY Disjointness DEF Requests
<1> call[r].booking \in Creates
  BY CallTypes
<1> USE DEF LockSteps, CreateSteps, RefundSection
<1>1. CASE \E o \in Outcomes : Leave(r, o)
  BY <1>1, FinishLocks DEF Leave
<1>2. CASE RefundLock(r)
  <2>1. RefundRefusal(r, call[r].booking) \in Outcomes
    BY RefusalTypes
  <2>2. CASE /\ Free(call[r].booking) /\ lock' = [lock EXCEPT ![call[r].booking] = r]
             /\ Continue(r, "returning") /\ UNCHANGED seen
    BY <2>2, TakeLock DEF Continue
  <2> QED BY <1>1, <1>2, <2>1, <2>2 DEF RefundLock, Outcomes
<1>3. CASE RefundReturn(r)
  <2>1. CASE Goto(r, "refund_commit") /\ UNCHANGED <<lock, seen, batch>>
    BY <2>1, MoveLocks DEF Goto, TypeOK
  <2> QED BY <1>1, <1>3, <2>1 DEF RefundReturn, Outcomes
<1>4. CASE RefundCommit(r)
  BY <1>4, FinishLocks DEF RefundCommit
<1> QED BY <1>2, <1>3, <1>4 DEF RefundStep

\* A cleanup pass frees the locks of its batch, whether it commits or fails.
LEMMA CleanupLocks ==
    ASSUME TypeOK, LockInv, CleanupSelect \/ CleanupEnd
    PROVE  LockInv'
<1>1. \A r \in Creates : r # Cleaner /\ r # None
  BY Disjointness DEF Requests
<1>2. \A r \in Requests : r # Cleaner /\ r # None
  BY Disjointness
<1>3. CASE CleanupSelect
  BY <1>1, <1>2, <1>3 DEF CleanupSelect, LockInv, Releasable
<1>4. CASE CleanupEnd
  <2>1. \A b \in Creates : lock'[b] = IF lock[b] = Cleaner THEN None ELSE lock[b]
    BY <1>4 DEF CleanupEnd, Unlocked
  <2>2. None # Cleaner
    BY RequestsAssumption
  <2> QED BY <1>1, <1>2, <1>4, <2>1, <2>2 DEF CleanupEnd, LockInv
<1> QED BY <1>3, <1>4

\* So do the failures and the rest.
LEMMA OtherLocks ==
    ASSUME TypeOK, LockInv,
           \/ \E r \in Requests : Receive(r) \/ PoolTimeout(r) \/ Abort(r)
           \/ Crash \/ Tick \/ Rest \/ UNCHANGED vars
    PROVE  LockInv'
<1>1. ASSUME NEW r \in Requests, Receive(r)
      PROVE  LockInv'
  <2>1. /\ \A q \in Requests : q # r => pc'[q] = pc[q]
        /\ pc'[r] \in CreateSteps => r \in Creates
        /\ pc[r] \notin LockSteps
        /\ UNCHANGED <<lock, seen, batch>>
    BY <1>1, Disjointness
       DEF Receive, Goto, TypeOK, CreateSteps, LockSteps, PaySection, RefundSection, Requests
  <2> QED BY <2>1, MoveLocks
<1>2. ASSUME NEW r \in Requests, PoolTimeout(r) \/ Abort(r)
      PROVE  LockInv'
  BY <1>2, FinishLocks DEF PoolTimeout, Abort, Leave
<1>3. CASE Crash
  <2>1. \A b \in Creates : lock'[b] = None
    BY <1>3 DEF Crash
  <2>2. /\ None # Cleaner /\ \A r \in Requests : r # None
        /\ \A r \in Creates : r \in Requests
    BY RequestsAssumption, Disjointness DEF Requests
  <2>3. \A r \in Requests : pc'[r] \in CreateSteps => r \in Creates
    BY <1>3 DEF Crash, LockInv, CreateSteps
  <2> QED BY <2>1, <2>2, <2>3 DEF LockInv
<1>4. CASE Tick \/ Rest \/ UNCHANGED vars
  BY <1>4 DEF Tick, Rest, vars, LockInv
<1> QED BY <1>1, <1>2, <1>3, <1>4

\* LockInv is an invariant.
LEMMA LocksKept ==
    ASSUME TypeOK, LockInv, [Next]_vars
    PROVE  LockInv'
<1>1. CASE \E r \in Creates : CreateStep(r)
  BY <1>1, CreateLocks
<1>2. CASE \E r \in Pays : PayStep(r)
  BY <1>2, PayLocks
<1>3. CASE \E r \in Refunds : RefundStep(r)
  BY <1>3, RefundLocks
<1>4. CASE CleanupSelect \/ CleanupCommit \/ CleanupFail
  BY <1>4, CleanupLocks DEF CleanupCommit, CleanupFail
<1>5. CASE \/ \E r \in Requests : Receive(r) \/ PoolTimeout(r) \/ Abort(r)
           \/ Crash \/ Tick \/ Rest \/ UNCHANGED vars
  BY <1>5, OtherLocks
<1> QED BY <1>1, <1>2, <1>3, <1>4, <1>5 DEF Next

\* Every row lock of every reachable state has an accountable holder.
THEOREM LockDiscipline == Spec => []LockInv
<1>1. Init => LockInv
  <2>1. /\ None # Cleaner /\ \A r \in Requests : r # None
        /\ \A r \in Creates : r \in Requests
    BY RequestsAssumption, Disjointness DEF Requests
  <2> QED BY <2>1 DEF Init, LockInv, CreateSteps
<1>2. IInv /\ LockInv /\ [Next]_vars => LockInv'
  BY LocksKept DEF IInv
<1> QED BY <1>1, <1>2, Invariance, PTL DEF Spec

\* No transaction that waits for a row or a pending booking has a row lock in its
\* hands, whatever the number of requests: at the INSERT a create has seen no row,
\* since none is deleted.
THEOREM NobodyWaitsInACircle == Spec => []WaitersHoldNothing
<1>1. IInv /\ LockInv => WaitersHoldNothing
  <2> SUFFICES ASSUME IInv, LockInv, NEW r \in Requests, NEW b \in Creates, lock[b] = r,
                      pc[r] \in {"lock", "insert", "indexed", "pay_lock", "refund_lock"}
               PROVE  FALSE
    BY DEF WaitersHoldNothing
  <2>1. pc[r] \in Inserting /\ r \in Creates
    BY DEF LockInv, LockSteps, Inserting, PaySection, RefundSection, CreateSteps
  <2>2. seen[r] = None /\ seen[r] = b
    BY <2>1 DEF IInv, RowInv, LockInv
  <2>3. b # None
    BY Disjointness DEF Requests
  <2> QED BY <2>2, <2>3
<1> QED BY <1>1, Invariance, LockDiscipline, PTL

\* The statements at which a request waits for a row, its INSERT for a pending row
\* of its key, its slot, or a payment for one of its key.
LEMMA WaitsOnlyThere ==
    ASSUME NEW h \in Requests, WaitsFor(h) # {}
    PROVE  pc[h] \in {"lock", "insert", "indexed", "pay_lock", "refund_lock", "recording"}
BY DEF WaitsFor, BlockingRows, PendingTwins, PendingPayments

\* Whoever is waited for is at work and himself waits for a slot or for the key of
\* a payment, if at all.
LEMMA BlockersWork ==
    ASSUME IInv, LockInv, WaitersHoldNothing, NEW r \in Requests, NEW h \in WaitsFor(r)
    PROVE  /\ AtWork(h)
           /\ \/ h = Cleaner
              \/ h \in Requests /\ pc[h] \notin {"lock", "insert", "pay_lock", "refund_lock"}
<1>0. r # Cleaner /\ Creates \subseteq Requests /\ Pays \subseteq Requests
  BY Disjointness DEF Requests
<1>1. CASE \E b \in BlockingRows(r) : h = lock[b]
  <2>1. PICK b \in Creates : h = lock[b] /\ lock[b] # None
    BY <1>1 DEF BlockingRows, Free
  <2>2. h \in Requests \cup {Cleaner}
    BY <2>1 DEF IInv, TypeOK
  <2>3. CASE h = Cleaner
    BY <2>1, <2>3 DEF LockInv, AtWork
  <2>4. CASE h \in Requests
    <3>1. pc[h] \in LockSteps /\ h # Cleaner
      BY <2>1, <2>4, Disjointness DEF LockInv
    <3>2. pc[h] \notin {"lock", "insert", "indexed", "pay_lock", "refund_lock"}
      BY <2>1, <2>4 DEF WaitersHoldNothing
    <3>3. InFlight(h)
      BY <3>1 DEF InFlight, LockSteps, PaySection, RefundSection
    <3> QED BY <2>4, <3>1, <3>2, <3>3 DEF AtWork
  <2> QED BY <2>2, <2>3, <2>4
<1>2. CASE h \in PendingTwins(r) \cup PendingPayments(r)
  <2>1. h \in Requests /\ h # Cleaner /\ pc[h] \in {"indexed", "commit", "pay_commit"}
    BY <1>0, <1>2, Disjointness DEF PendingTwins, PendingPayments
  <2> QED BY <2>1 DEF AtWork, InFlight
<1> QED BY <1>0, <1>1, <1>2 DEF WaitsFor

\* And whoever is waited for at one of these two waits for nobody: he has only to
\* commit.
LEMMA LastInLine ==
    ASSUME NEW h \in Requests, pc[h] \in {"indexed", "recording"}, NEW g \in WaitsFor(h)
    PROVE  AtWork(g) /\ WaitsFor(g) = {}
<1>1. h # Cleaner /\ Creates \subseteq Requests /\ Pays \subseteq Requests
  BY Disjointness DEF Requests
<1>2. g \in PendingTwins(h) \cup PendingPayments(h)
  BY <1>1 DEF WaitsFor, BlockingRows
<1>3. g \in Requests /\ g # Cleaner /\ pc[g] \in {"commit", "pay_commit"}
  BY <1>1, <1>2, Disjointness DEF PendingTwins, PendingPayments
<1> QED BY <1>3, WaitsOnlyThere DEF AtWork, InFlight

\* For any number of requests: whoever is waited for is at work, and if he waits, as
\* a payment may with its booking locked, then for somebody who only has to commit.
THEOREM EveryWaitIsForSomebodyAtWork == Spec => []WaitsAreShort
<1>1. IInv /\ LockInv /\ WaitersHoldNothing => WaitsAreShort
  <2> SUFFICES ASSUME IInv, LockInv, WaitersHoldNothing,
                      NEW r \in Requests, NEW h \in WaitsFor(r), NEW g \in WaitsFor(h)
               PROVE  AtWork(g) /\ WaitsFor(g) = {}
    BY BlockersWork DEF WaitsAreShort
  <2>1. h \in Requests /\ pc[h] \notin {"lock", "insert", "pay_lock", "refund_lock"}
    BY BlockersWork DEF WaitsFor
  <2>2. pc[h] \in {"indexed", "recording"}
    BY <2>1, WaitsOnlyThere
  <2> QED BY <2>1, <2>2, LastInLine
<1> QED BY <1>1, Invariance, LockDiscipline, NobodyWaitsInACircle, PTL

\* Once the system is quiet the check of the tables finds nothing: above all, an
\* overdue reservation can only be out of the cleanup's reach while somebody who
\* is still at work holds its lock.
THEOREM QuietTablesVerify == Spec => []QuietSystemVerifies
<1>1. IInv /\ LockInv => QuietSystemVerifies
  <2> SUFFICES ASSUME IInv, LockInv, \A r \in Requests : ~InFlight(r),
                      batch = {}, Releasable = {}
               PROVE  ExitCode = 0
    BY DEF QuietSystemVerifies
  <2> USE DEF IInv
  <2>1. DoubleBooked = {}
    BY DEF DoubleBooked, RowInv, Holds, Holding, Exists, Collide, SameSlot
  <2>2. Unaudited = {}
    BY DEF Unaudited, AuditTrailTellsStatus, TrailTells
  <2>3. ASSUME NEW b \in Stale
        PROVE  FALSE
    <3>1. b \in Creates /\ status[b] = "reserved" /\ Expired(b)
      BY StaleAfterAssumption DEF Stale, Expired, TypeOK
    <3>2. lock[b] # None
      BY <3>1 DEF Releasable, Free
    <3>3. PICK r \in Requests : lock[b] = r
      BY <3>1, <3>2 DEF TypeOK, LockInv
    <3>4. pc[r] \in LockSteps
      BY <3>1, <3>3 DEF LockInv
    <3> QED BY <3>4 DEF InFlight, LockSteps, PaySection, RefundSection
  <2>4. Unpaid = {}
    BY DEF Unpaid, PaymentInv, PaymentConsistency
  <2> QED BY <2>1, <2>2, <2>3, <2>4 DEF ExitCode
<1> QED BY <1>1, Invariance, LockDiscipline, PTL

-------------------------------------------------------------------------------
(* What a step may do to the tables *)

\* Arguments never change, payments are never deleted, and a row only moves
\* forward: reserved to anything, confirmed to refunded, otherwise it stays.
Forward ==
    /\ call' = call
    /\ payments \subseteq payments'
    /\ \A b \in Creates :
          \/ status'[b] = status[b]
          \/ status[b] = "none"
          \/ status[b] = "reserved" /\ status'[b] # "none"
          \/ status[b] = "confirmed" /\ status'[b] = "refunded"

\* Every step moves the tables forward.
LEMMA StepsForward ==
    ASSUME IInv, [Next]_vars
    PROVE  Forward
<1> USE DEF IInv
<1>1. ASSUME NEW r \in Creates, CreateStep(r)
      PROVE  Forward
  <2>1. CASE CreateCommit(r)
    <3>1. seen[r] = None /\ \A b \in Creates : b # None
      BY <2>1, Disjointness DEF CreateCommit, RowInv, Inserting, Requests
    <3>2. status[r] = "none"
      BY <2>1 DEF CreateCommit, RowInv, Exists
    <3> QED BY <2>1, <3>1, <3>2 DEF CreateCommit, Forward
  <2>2. CASE ~CreateCommit(r)
    BY <1>1, <2>2 DEF CreateStep, CreateLookup, CreateLock, CreateOverlap,
                      CreateReplace, CreateInsert, CreateIndex, Leave, Continue, Goto, tables,
                      Forward
  <2> QED BY <2>1, <2>2
<1>2. ASSUME NEW r \in Pays, PayStep(r)
      PROVE  Forward
  <2>1. CASE PayCommit(r)
    <3>1. call[r].booking \in Creates /\ status[call[r].booking] = "reserved"
      BY <2>1, CallTypes DEF PayCommit, SectionInv, PaySection
    <3> QED BY <2>1, <3>1 DEF PayCommit, Record, Forward, TypeOK
  <2>2. CASE ~PayCommit(r)
    BY <1>2, <2>2 DEF PayStep, PayLock, PayLookup, PayAnswer, PayCharge, PayFlush, Leave, Continue,
                      tables, Forward
  <2> QED BY <2>1, <2>2
<1>3. ASSUME NEW r \in Refunds, RefundStep(r)
      PROVE  Forward
  <2>1. CASE RefundCommit(r)
    <3>1. call[r].booking \in Creates /\ status[call[r].booking] = "confirmed"
      BY <2>1, CallTypes DEF RefundCommit, SectionInv, RefundSection
    <3> QED BY <2>1, <3>1 DEF RefundCommit, Forward, TypeOK
  <2>2. CASE ~RefundCommit(r)
    BY <1>3, <2>2 DEF RefundStep, RefundLock, RefundReturn, Leave, Continue, tables, Forward
  <2> QED BY <2>1, <2>2
<1>4. CASE CleanupCommit
  BY <1>4 DEF CleanupCommit, CleanupEnd, SectionInv, Forward
<1>5. CASE \/ \E r \in Requests : Receive(r) \/ PoolTimeout(r) \/ Abort(r)
           \/ CleanupSelect \/ CleanupFail \/ Crash \/ Tick \/ Rest \/ UNCHANGED vars
  BY <1>5 DEF Receive, PoolTimeout, Leave, Abort, CleanupSelect, CleanupFail, CleanupEnd,
              Crash, Tick, Rest, vars, tables, Forward
<1> QED BY <1>1, <1>2, <1>3, <1>4, <1>5 DEF Next

\* The steps that only some requests take, seen from one of them: who has a
\* schedule when it reaches its writes, and who commits a row.
LEMMA CreateProgress ==
    ASSUME IInv, [Next]_vars, NEW q \in Creates
    PROVE  /\ pc'[q] = "replace" => pc[q] = "replace" \/ call[q].schedule \in Schedules
           /\ pc'[q] \in Inserting =>
                \/ pc[q] \in Inserting
                \/ pc[q] = "replace" /\ call[q].seat \in Seats
           /\ status'[q] # "none" => status[q] # "none" \/ pc[q] = "commit"
<1> USE DEF IInv, TypeOK
<1>0. \A r \in Creates \cup Pays \cup Refunds : r \in Requests
  BY DEF Requests
<1>1. ASSUME NEW r \in Creates, CreateStep(r)
      PROVE  /\ pc'[q] = "replace" => pc[q] = "replace" \/ call[q].schedule \in Schedules
             /\ pc'[q] \in Inserting =>
                  \/ pc[q] \in Inserting
                  \/ pc[q] = "replace" /\ call[q].seat \in Seats
             /\ status'[q] # "none" => status[q] # "none" \/ pc[q] = "commit"
  BY <1>0, <1>1 DEF CreateStep, CreateLookup, CreateLock, CreateOverlap, CreateReplace,
     CreateInsert, CreateIndex, CreateCommit, Leave, Continue, Finish, Goto, tables, Inserting
<1>2. ASSUME NEW r \in Pays, PayStep(r)
      PROVE  pc'[q] = pc[q] /\ (status'[q] # "none" => status[q] # "none")
  <2>1. r # q
    BY Disjointness
  <2>2. pc[r] = "pay_commit" => call[r].booking \in Creates
                               /\ status[call[r].booking] = "reserved"
    BY CallTypes DEF SectionInv, PaySection
  <2> QED BY <1>0, <1>2, <2>1, <2>2 DEF PayStep, PayLock, PayLookup, PayAnswer, PayCharge, PayFlush,
             PayCommit, Record, Leave, Continue, Finish, Goto, tables
<1>3. ASSUME NEW r \in Refunds, RefundStep(r)
      PROVE  pc'[q] = pc[q] /\ (status'[q] # "none" => status[q] # "none")
  <2>1. r # q
    BY Disjointness
  <2>2. pc[r] = "refund_commit" => call[r].booking \in Creates
                                   /\ status[call[r].booking] = "confirmed"
    BY CallTypes DEF SectionInv, RefundSection
  <2> QED BY <1>0, <1>3, <2>1, <2>2 DEF RefundStep, RefundLock, RefundReturn, RefundCommit,
             Leave, Continue, Finish, Goto, tables
<1>4. CASE \/ \E r \in Requests : Receive(r) \/ PoolTimeout(r) \/ Abort(r)
           \/ CleanupSelect \/ CleanupCommit \/ CleanupFail
           \/ Crash \/ Tick \/ Rest \/ UNCHANGED vars
  <2>1. pc'[q] = pc[q] \/ pc'[q] \in {"lookup", "pay_lock", "refund_lock", "done"}
    BY <1>0, <1>4 DEF Receive, PoolTimeout, Leave, Abort, Finish, Goto, CleanupSelect,
       CleanupCommit, CleanupFail, CleanupEnd, Crash, Tick, Rest, vars
  <2>2. status'[q] # "none" => status[q] # "none"
    BY <1>4 DEF Receive, PoolTimeout, Leave, Abort, CleanupSelect, CleanupCommit,
       CleanupFail, CleanupEnd, Crash, Tick, Rest, vars, tables, SectionInv
  <2> QED BY <2>1, <2>2 DEF Inserting
<1> QED BY <1>1, <1>2, <1>3, <1>4 DEF Next

\* Whoever writes a row has a schedule and a seat.
LEMMA PlacesKept ==
    ASSUME IInv, PlaceInv, [Next]_vars
    PROVE  PlaceInv'
BY StepsForward, CreateProgress DEF PlaceInv, Exists, Inserting, Forward

\* The next statement of request q.
OwnStep(q) ==
    \/ q \in Creates /\ CreateStep(q)
    \/ q \in Pays /\ PayStep(q)
    \/ q \in Refunds /\ RefundStep(q)

\* What the other processes do to a request: at most they start it or cut it off.
LEMMA OthersLeaveIt ==
    ASSUME TypeOK, [Next]_vars, NEW q \in Requests, ~OwnStep(q)
    PROVE  /\ q \in Creates => seen'[q] = seen[q]
           /\ q \in Pays => charge'[q] = charge[q]
           /\ \/ pc'[q] = pc[q] /\ outcome'[q] = outcome[q]
              \/ /\ pc[q] = "idle" /\ pc'[q] \in {"lookup", "pay_lock", "refund_lock"}
                 /\ outcome'[q] = outcome[q]
              \/ pc[q] # "done" /\ pc'[q] = "done" /\ outcome'[q] = "aborted"
<1> USE DEF TypeOK
<1>0. /\ \A r \in Creates \cup Pays \cup Refunds : r \in Requests
      /\ q \in Creates \cup Pays \cup Refunds
  BY DEF Requests
<1>1. ASSUME NEW r \in Creates, CreateStep(r)
      PROVE  /\ q \in Creates => seen'[q] = seen[q]
             /\ q \in Pays => charge'[q] = charge[q]
             /\ pc'[q] = pc[q] /\ outcome'[q] = outcome[q]
  <2>1. r # q
    BY <1>1 DEF OwnStep
  <2> QED BY <1>0, <1>1, <2>1 DEF CreateStep, CreateLookup, CreateLock, CreateOverlap,
             CreateReplace, CreateInsert, CreateIndex, CreateCommit, Leave, Continue, Finish, Goto
<1>2. ASSUME NEW r \in Pays, PayStep(r)
      PROVE  /\ q \in Creates => seen'[q] = seen[q]
             /\ q \in Pays => charge'[q] = charge[q]
             /\ pc'[q] = pc[q] /\ outcome'[q] = outcome[q]
  <2>1. r # q
    BY <1>2 DEF OwnStep
  <2> QED BY <1>0, <1>2, <2>1 DEF PayStep, PayLock, PayLookup, PayAnswer, PayCharge, PayFlush,
             PayCommit, Record, Leave, Continue, Finish, Goto
<1>3. ASSUME NEW r \in Refunds, RefundStep(r)
      PROVE  /\ q \in Creates => seen'[q] = seen[q]
             /\ q \in Pays => charge'[q] = charge[q]
             /\ pc'[q] = pc[q] /\ outcome'[q] = outcome[q]
  <2>1. r # q
    BY <1>3 DEF OwnStep
  <2> QED BY <1>0, <1>3, <2>1 DEF RefundStep, RefundLock, RefundReturn, RefundCommit,
             Leave, Continue, Finish, Goto
<1>4. ASSUME NEW r \in Requests, Receive(r) \/ PoolTimeout(r) \/ Abort(r)
      PROVE  /\ seen' = seen /\ charge' = charge
             /\ \/ pc'[q] = pc[q] /\ outcome'[q] = outcome[q]
                \/ /\ pc[q] = "idle" /\ pc'[q] \in {"lookup", "pay_lock", "refund_lock"}
                   /\ outcome'[q] = outcome[q]
                \/ pc[q] # "done" /\ pc'[q] = "done" /\ outcome'[q] = "aborted"
  <2>1. CASE Receive(r)
    BY <1>0, <2>1 DEF Receive, Goto, Requests
  <2>2. CASE PoolTimeout(r) \/ Abort(r)
    BY <1>0, <2>2 DEF PoolTimeout, Abort, InFlight, Leave, Finish
  <2> QED BY <1>4, <2>1, <2>2
<1>5. CASE \/ CleanupSelect \/ CleanupCommit \/ CleanupFail
           \/ Crash \/ Tick \/ Rest \/ UNCHANGED vars
  BY <1>0, <1>5 DEF CleanupSelect, CleanupCommit, CleanupFail, CleanupEnd, Crash, InFlight,
     Tick, Rest, vars
<1> QED BY <1>1, <1>2, <1>3, <1>4, <1>5 DEF Next

-------------------------------------------------------------------------------
(* Answers *)

\* What has been promised stays true while the tables move forward.
LEMMA AnsweredStays ==
    ASSUME TypeOK, Forward, NEW q \in Requests, Answered(q), outcome'[q] = outcome[q]
    PROVE  Answered(q)'
<1>1. /\ q \in Pays => call[q].booking \in Creates
      /\ q \in Refunds => call[q].booking \in Creates
  BY CallTypes
<1>2. \A b \in Creates : Exists(b) => status'[b] # "none"
  BY DEF Forward, Exists
<1>3. ASSUME q \in Creates, outcome[q] = "found"
      PROVE  KeyRows(q)' # {}
  BY <1>2, <1>3 DEF Answered, KeyRows, Exists, Forward
<1>4. ASSUME q \in Creates, outcome[q] \in {"overlapping", "multiple_results"}
      PROVE  \E b \in Creates \ {q} :
                /\ status'[b] # "none" /\ call'[b].user = call'[q].user
                /\ OnBoardTogether(call'[b].schedule, call'[q].schedule)
  BY <1>2, <1>4 DEF Answered, Forward
<1>5. ASSUME q \in Pays, outcome[q] = "confirmed"
      PROVE  /\ status'[call'[q].booking] \in {"confirmed", "refunded"}
             /\ \E p \in payments' : /\ p.booking = call'[q].booking
                                     /\ p.status = "success" /\ p.key = call'[q].key
  BY <1>1, <1>5 DEF Answered, SuccessPayments, Forward
<1>6. ASSUME q \in Refunds, outcome[q] = "refunded"
      PROVE  status'[call'[q].booking] = "refunded"
  BY <1>1, <1>6 DEF Answered, Forward
<1>7. ASSUME q \in Creates, outcome[q] = "created"
      PROVE  status'[q] # "none"
  BY <1>2, <1>7 DEF Answered
<1> QED BY <1>3, <1>4, <1>5, <1>6, <1>7 DEF Answered, Exists, SuccessPayments

\* An answer that promises nothing is kept.
LEMMA NoPromise ==
    ASSUME NEW q \in Requests, outcome'[q] \notin Promises
    PROVE  Answered(q)'
BY DEF Answered, Promises

\* The end of one request only has its own promise to keep.
LEMMA OneAnswer ==
    ASSUME TypeOK, Forward, AnswersInv, NEW r \in Requests, NEW o, Finish(r, o),
           Answered(r)'
    PROVE  AnswersInv'
<1> SUFFICES ASSUME NEW q \in Requests
             PROVE  Answered(q)'
  BY DEF AnswersInv
<1>1. CASE q = r
  BY <1>1
<1>2. CASE q # r
  <2>1. outcome'[q] = outcome[q] /\ Answered(q)
    BY <1>2 DEF Finish, TypeOK, AnswersInv
  <2> QED BY <2>1, AnsweredStays
<1> QED BY <1>1, <1>2

\* A refusal promises nothing.
LEMMA RefusalKeeps ==
    ASSUME TypeOK, Forward, AnswersInv, NEW r \in Requests, NEW o \in Outcomes \ Promises,
           Finish(r, o)
    PROVE  AnswersInv'
<1>1. outcome'[r] \notin Promises
  BY DEF Finish, TypeOK
<1> QED BY <1>1, NoPromise, OneAnswer

\* A step that answers nobody.
LEMMA SilenceKeeps ==
    ASSUME TypeOK, Forward, AnswersInv, outcome' = outcome
    PROVE  AnswersInv'
<1> SUFFICES ASSUME NEW q \in Requests
             PROVE  Answered(q)'
  BY DEF AnswersInv
<1> QED BY AnsweredStays DEF AnswersInv

\* Two journeys that pass the overlap comparison do share an instant.
LEMMA OverlapIsReal ==
    ASSUME NEW s1 \in Schedules, NEW s2 \in Schedules, JourneysOverlap(s1, s2)
    PROVE  OnBoardTogether(s1, s2)
<1>1. /\ Departs[s1] \in Nat /\ Departs[s2] \in Nat /\ Arrives[s1] \in Nat /\ Arrives[s2] \in Nat
      /\ Departs[s1] < Arrives[s1] /\ Departs[s2] < Arrives[s2]
  BY TimesAssumption
<1>2. CASE Departs[s1] <= Departs[s2]
  <2>1. Departs[s2] \in Departs[s1] .. Arrives[s1] - 1 /\ Departs[s2] \in Departs[s2] .. Arrives[s2] - 1
    BY <1>1, <1>2 DEF JourneysOverlap
  <2> QED BY <2>1 DEF OnBoardTogether
<1>3. CASE Departs[s2] <= Departs[s1]
  <2>1. Departs[s1] \in Departs[s1] .. Arrives[s1] - 1 /\ Departs[s1] \in Departs[s2] .. Arrives[s2] - 1
    BY <1>1, <1>3 DEF JourneysOverlap
  <2> QED BY <2>1 DEF OnBoardTogether
<1> QED BY <1>1, <1>2, <1>3

\* The comparison of the overlap query is exact: two journeys pass it if and only if
\* some instant finds a passenger of both on board of both trains.
THEOREM OverlapIsExact ==
    ASSUME NEW s1 \in Schedules, NEW s2 \in Schedules
    PROVE  JourneysOverlap(s1, s2) <=> OnBoardTogether(s1, s2)
<1>1. /\ Departs[s1] \in Nat /\ Departs[s2] \in Nat /\ Arrives[s1] \in Nat /\ Arrives[s2] \in Nat
  BY TimesAssumption
<1>2. ASSUME NEW t \in Departs[s1] .. Arrives[s1] - 1, t \in Departs[s2] .. Arrives[s2] - 1
      PROVE  JourneysOverlap(s1, s2)
  BY <1>1, <1>2 DEF JourneysOverlap
<1> QED BY <1>2, OverlapIsReal DEF OnBoardTogether

\* The answers of create_booking.
LEMMA CreateAnswers ==
    ASSUME IInv, PlaceInv, Forward, AnswersInv, NEW r \in Creates, CreateStep(r)
    PROVE  AnswersInv'
<1> r \in Requests
  BY DEF Requests
<1> USE DEF IInv
<1>0. ASSUME NEW o \in {"seat_taken", "not_found", "child_rows", "unique_violation", "unknown_user"},
             Leave(r, o)
      PROVE  AnswersInv'
  BY <1>0, RefusalKeeps DEF Leave, Outcomes, Promises
<1>1. CASE outcome' = outcome
  BY <1>1, SilenceKeeps
<1>2. CASE CreateLookup(r)
  <2>1. CASE KeyRows(r) # {} /\ Leave(r, "found")
    <3>1. outcome'[r] = "found" /\ KeyRows(r)' # {}
      BY <2>1 DEF Leave, Finish, TypeOK, tables, KeyRows, Exists
    <3>2. Answered(r)'
      BY <3>1, Disjointness DEF Answered
    <3> QED BY <2>1, <3>2, OneAnswer DEF Leave
  <2> QED BY <1>1, <1>2, <2>1 DEF CreateLookup, Continue
<1>3. CASE CreateLock(r)
  BY <1>0, <1>1, <1>3 DEF CreateLock, Continue
<1>4. CASE CreateOverlap(r)
  <2>1. CASE /\ call[r].schedule \in Schedules /\ Overlapping(r) # {}
             /\ Leave(r, OverlapAnswer(r))
    <3>1. PICK b \in Creates : /\ Holds(b) /\ call[b].user = call[r].user
                               /\ JourneysOverlap(call[b].schedule, call[r].schedule)
      BY <2>1 DEF Overlapping
    <3>2. Exists(b) /\ b # r
      BY <1>4, <3>1 DEF CreateOverlap, RowInv, Holds, Holding, Exists
    <3>3. OnBoardTogether(call[b].schedule, call[r].schedule)
      BY <2>1, <3>1, <3>2, OverlapIsReal DEF PlaceInv
    <3>4. /\ outcome'[r] \in {"overlapping", "multiple_results"}
          /\ call' = call /\ status' = status
      BY <2>1 DEF Leave, Finish, TypeOK, OverlapAnswer, tables
    <3>5. Answered(r)'
      BY <3>1, <3>2, <3>3, <3>4, Disjointness DEF Answered, Exists
    <3>6. Finish(r, OverlapAnswer(r))
      BY <2>1 DEF Leave
    <3> QED BY <3>5, <3>6, OneAnswer
  <2> QED BY <1>0, <1>1, <1>4, <2>1 DEF CreateOverlap, Continue
<1>5. CASE CreateReplace(r)
  BY <1>0, <1>1, <1>5 DEF CreateReplace
<1>6. CASE CreateInsert(r) \/ CreateIndex(r)
  BY <1>0, <1>1, <1>6 DEF CreateInsert, CreateIndex, Continue
<1>7. CASE CreateCommit(r)
  <2>1. outcome'[r] = "created" /\ status'[r] = "reserved" /\ Finish(r, "created")
    BY <1>7 DEF CreateCommit, Finish, TypeOK
  <2>2. Answered(r)'
    BY <2>1, Disjointness DEF Answered, Exists
  <2> QED BY <2>1, <2>2, OneAnswer
<1> QED BY <1>2, <1>3, <1>4, <1>5, <1>6, <1>7 DEF CreateStep

\* The answers of pay_booking.
LEMMA PayAnswers ==
    ASSUME IInv, Forward, AnswersInv, NEW r \in Pays, PayStep(r)
    PROVE  AnswersInv'
<1> r \in Requests /\ call[r].booking \in Creates
  BY CallTypes DEF Requests, IInv
<1> USE DEF IInv
<1>0. ASSUME NEW o \in Outcomes \ Promises, Leave(r, o)
      PROVE  AnswersInv'
  BY <1>0, RefusalKeeps DEF Leave
<1>1. CASE outcome' = outcome
  BY <1>1, SilenceKeeps
<1>2. CASE PayLock(r)
  <2>1. PayRefusal(r, call[r].booking) \in Outcomes \ Promises
        \/ PayRefusal(r, call[r].booking) = "none"
    BY DEF PayRefusal, Outcomes, Promises
  <2>2. "not_found" \in Outcomes \ Promises
    BY DEF Outcomes, Promises
  <2> QED BY <1>0, <1>1, <1>2, <2>1, <2>2 DEF PayLock, Continue
<1>3. CASE PayLookup(r)
  BY <1>1, <1>3 DEF PayLookup, Continue
<1>7. CASE PayAnswer(r)
  <2>1. "already_paid" \in Outcomes \ Promises
    BY DEF Outcomes, Promises
  <2> QED BY <1>0, <1>7, <2>1 DEF PayAnswer
<1>4. CASE PayCharge(r)
  BY <1>1, <1>4 DEF PayCharge
<1>5. CASE PayFlush(r)
  <2>1. "unique_violation" \in Outcomes \ Promises
    BY DEF Outcomes, Promises
  <2> QED BY <1>0, <1>1, <1>5, <2>1 DEF PayFlush, Continue
<1>6. CASE PayCommit(r)
  <2>2. CASE Record(r, "cancelled", "failed", None, "payment_failed")
    BY <2>2, RefusalKeeps DEF Record, Outcomes, Promises
  <2>3. CASE Record(r, "confirmed", "success", charge[r], "confirmed")
    <3> DEFINE p0 == [booking |-> call[r].booking, key |-> call[r].key,
                      status |-> "success", ref |-> charge[r]]
    <3>1. /\ outcome'[r] = "confirmed" /\ call' = call
          /\ status'[call[r].booking] = "confirmed" /\ p0 \in payments'
          /\ Finish(r, "confirmed")
      BY <2>3 DEF Record, Finish, TypeOK
    <3>2. p0 \in SuccessPayments(call[r].booking)' /\ p0.key = call[r].key
      BY <3>1 DEF SuccessPayments
    <3>3. Answered(r)'
      BY <3>1, <3>2, Disjointness DEF Answered
    <3> QED BY <3>1, <3>3, OneAnswer
  <2> QED BY <1>6, <2>2, <2>3 DEF PayCommit
<1> QED BY <1>2, <1>3, <1>4, <1>5, <1>6, <1>7 DEF PayStep

\* The answers of refund_booking.
LEMMA RefundAnswers ==
    ASSUME IInv, Forward, AnswersInv, NEW r \in Refunds, RefundStep(r)
    PROVE  AnswersInv'
<1> r \in Requests /\ call[r].booking \in Creates
  BY CallTypes DEF Requests, IInv
<1> USE DEF IInv
<1>0. ASSUME NEW o \in Outcomes \ {"created", "found", "overlapping", "confirmed", "refunded"},
             Leave(r, o)
      PROVE  AnswersInv'
  <2>1. outcome'[r] = o /\ Finish(r, o)
    BY <1>0 DEF Leave, Finish, TypeOK
  <2>2. Answered(r)'
    BY <2>1, Disjointness DEF Answered
  <2> QED BY <2>1, <2>2, OneAnswer
<1>1. CASE outcome' = outcome
  BY <1>1, SilenceKeeps
<1>2. CASE RefundLock(r)
  <2>1. \/ RefundRefusal(r, call[r].booking) \in {"forbidden", "not_confirmed", "too_late"}
        \/ RefundRefusal(r, call[r].booking) = "none"
    BY DEF RefundRefusal
  <2> QED BY <1>0, <1>1, <1>2, <2>1 DEF RefundLock, Continue, Outcomes
<1>3. CASE RefundReturn(r)
  BY <1>0, <1>1, <1>3 DEF RefundReturn, Outcomes
<1>4. CASE RefundCommit(r)
  <2>1. /\ outcome'[r] = "refunded" /\ call' = call /\ Finish(r, "refunded")
        /\ status'[call[r].booking] = "refunded"
    BY <1>4 DEF RefundCommit, Finish, TypeOK
  <2>2. Answered(r)'
    BY <2>1, Disjointness DEF Answered
  <2> QED BY <2>1, <2>2, OneAnswer
<1> QED BY <1>2, <1>3, <1>4 DEF RefundStep

\* Every step keeps every promise.
LEMMA AnswersKept ==
    ASSUME IInv, PlaceInv, AnswersInv, [Next]_vars
    PROVE  AnswersInv'
<1>0. Forward /\ TypeOK
  BY StepsForward DEF IInv
<1>1. CASE \/ \E r \in Creates : CreateStep(r)
           \/ \E r \in Pays : PayStep(r)
           \/ \E r \in Refunds : RefundStep(r)
  BY <1>0, <1>1, CreateAnswers, PayAnswers, RefundAnswers
<1>2. CASE \E r \in Requests : PoolTimeout(r) \/ Abort(r)
  BY <1>0, <1>2, RefusalKeeps DEF PoolTimeout, Abort, Leave, Outcomes, Promises
<1>3. CASE Crash
  <2> SUFFICES ASSUME NEW q \in Requests
               PROVE  Answered(q)'
    BY DEF AnswersInv
  <2>1. outcome'[q] = outcome[q] \/ outcome'[q] = "aborted"
    BY <1>3 DEF Crash
  <2>2. Answered(q)
    BY DEF AnswersInv
  <2> QED BY <1>0, <2>1, <2>2, AnsweredStays, NoPromise DEF Promises
<1>4. CASE \/ \E r \in Requests : Receive(r)
           \/ CleanupSelect \/ CleanupCommit \/ CleanupFail \/ Tick \/ Rest \/ UNCHANGED vars
  <2>1. outcome' = outcome
    BY <1>4 DEF Receive, CleanupSelect, CleanupCommit, CleanupFail, CleanupEnd, Tick, Rest, vars
  <2> QED BY <1>0, <2>1, SilenceKeeps
<1> QED BY <1>1, <1>2, <1>3, <1>4 DEF Next

\* The promises of every answer hold in every later state.
THEOREM PromisesAreKept == Spec => [](PlaceInv /\ AnswersInv)
<1>1. Init => PlaceInv /\ AnswersInv
  BY DEF Init, PlaceInv, AnswersInv, Answered, Exists, Inserting, Requests
<1>2. IInv /\ PlaceInv /\ AnswersInv /\ [Next]_vars => PlaceInv' /\ AnswersInv'
  BY PlacesKept, AnswersKept
<1> QED BY <1>1, <1>2, Invariance, PTL DEF Spec

\* What an answer of the engine said stays true, whoever acts afterwards and
\* whatever fails.
THEOREM AnswersAreLasting == Spec => []AnswersLast
<1>1. AnswersInv => AnswersLast
  BY DEF AnswersInv, Answered, AnswersLast, Requests
<1> QED BY <1>1, PromisesAreKept, PTL

\* Nobody is ever refused a journey for another he could make as well.
THEOREM RefusalsAreJustified == Spec => []OverlapRefusalsJustified
<1>1. AnswersInv => OverlapRefusalsJustified
  BY DEF AnswersInv, Answered, OverlapRefusalsJustified, Requests
<1> QED BY <1>1, PromisesAreKept, PTL

-------------------------------------------------------------------------------
(* Why a create request ended as it did *)

\* The ways a create request ends.
CreateEnds == {"created", "found", "seat_taken", "overlapping", "multiple_results",
               "not_found", "child_rows", "unique_violation", "unknown_user", "aborted"}

\* Somebody else's row has the slot, or the key, of create request r.
SlotTaken(r) == \E b \in Creates \ {r} : Exists(b) /\ Slot(b) = Slot(r)
KeyTaken(r) == \E b \in Creates \ {r} : Exists(b) /\ call[b].key = call[r].key

\* Why r was not booked.
Reason(r) ==
    /\ outcome[r] = "found" => KeyTaken(r)
    /\ outcome[r] \in {"seat_taken", "child_rows"} => SlotTaken(r)
    /\ outcome[r] = "unique_violation" => SlotTaken(r) \/ KeyTaken(r)
    /\ outcome[r] = "not_found" =>
            call[r].schedule \notin Schedules \/ call[r].seat \notin Seats
    /\ outcome[r] = "unknown_user" => call[r].user \notin Users

\* Every create request that is over has ended in one of its ways and for a reason
\* that is still there; the row one has seen is another one of its slot.
ReasonInv ==
    \A r \in Creates :
        /\ pc[r] = "done" => outcome[r] \in CreateEnds
        /\ Reason(r)
        /\ seen[r] # None => seen[r] # r /\ Slot(seen[r]) = Slot(r)

\* A reason does not go away while the tables move forward.
LEMMA ReasonStays ==
    ASSUME Forward, NEW r \in Creates, Reason(r), outcome'[r] = outcome[r]
    PROVE  Reason(r)'
<1>1. \A b \in Creates : Exists(b) => status'[b] # "none"
  BY DEF Forward, Exists
<1>2. call' = call
  BY DEF Forward
<1>3. SlotTaken(r) => \E b \in Creates \ {r} : /\ status'[b] # "none"
                                               /\ call'[b].schedule = call'[r].schedule
                                               /\ call'[b].seat = call'[r].seat
  BY <1>1, <1>2 DEF SlotTaken, Slot
<1>4. KeyTaken(r) => \E b \in Creates \ {r} : status'[b] # "none" /\ call'[b].key = call'[r].key
  BY <1>1, <1>2 DEF KeyTaken
<1>5. (SlotTaken(r) => SlotTaken(r)') /\ (KeyTaken(r) => KeyTaken(r)')
  BY <1>3, <1>4 DEF SlotTaken, KeyTaken, Slot, Exists
<1> QED BY <1>2, <1>5 DEF Reason

\* A request that goes on has no reason to give, and one that gives up a true one.
LEMMA EarlyReturn ==
    ASSUME TypeOK, NEW r \in Creates, NEW o \in CreateEnds, Leave(r, o),
           o = "found" => KeyTaken(r),
           o \in {"seat_taken", "child_rows"} => SlotTaken(r),
           o = "unique_violation" => SlotTaken(r) \/ KeyTaken(r),
           o = "not_found" => call[r].schedule \notin Schedules \/ call[r].seat \notin Seats,
           o = "unknown_user" => call[r].user \notin Users
    PROVE  outcome'[r] \in CreateEnds /\ Reason(r)' /\ seen'[r] = seen[r]
<1>1. outcome'[r] = o /\ UNCHANGED <<call, status, seen>>
  BY DEF Leave, Finish, TypeOK, tables, Requests
<1>2. (SlotTaken(r) => SlotTaken(r)') /\ (KeyTaken(r) => KeyTaken(r)')
  BY <1>1 DEF SlotTaken, KeyTaken, Slot, Exists
<1> QED BY <1>1, <1>2 DEF Reason

\* Every step of create_booking that ends it has its reason.
LEMMA CreateReasons ==
    ASSUME IInv, ReasonInv, Forward, NEW r \in Creates, CreateStep(r)
    PROVE  /\ pc'[r] = "done" => outcome'[r] \in CreateEnds
           /\ Reason(r)'
           /\ seen'[r] # None => seen'[r] # r /\ Slot(seen'[r]) = Slot(r)
<1> USE DEF IInv
<1>0. /\ r \in Requests /\ call' = call
      /\ \A b \in Creates : b # None
      /\ seen[r] # None => seen[r] \in Creates
  BY Disjointness DEF Requests, Forward, TypeOK
<1>1. pc[r] # "done" /\ ~Exists(r)
  BY DEF RowInv, CreateStep, CreateLookup, CreateLock, CreateOverlap, CreateReplace,
         CreateInsert, CreateIndex, CreateCommit
<1>2. ASSUME outcome' = outcome, pc'[r] # "done"
      PROVE  (pc'[r] = "done" => outcome'[r] \in CreateEnds) /\ Reason(r)'
  BY <1>2, ReasonStays DEF ReasonInv
<1>3. ASSUME seen'[r] = seen[r]
      PROVE  seen'[r] # None => seen'[r] # r /\ Slot(seen'[r]) = Slot(r)
  BY <1>3 DEF ReasonInv
<1>4. ASSUME NEW step \in CreateSteps, Continue(r, step)
      PROVE  outcome' = outcome /\ pc'[r] # "done"
  BY <1>0, <1>4 DEF Continue, Goto, TypeOK, CreateSteps
<1>5. CASE CreateLookup(r)
  <2>1. CASE KeyRows(r) # {} /\ Leave(r, "found")
    <3>1. KeyTaken(r)
      BY <1>1, <2>1 DEF KeyRows, KeyTaken
    <3> QED BY <1>3, <2>1, <3>1, EarlyReturn DEF CreateEnds
  <2>2. CASE Continue(r, "lock") /\ UNCHANGED <<lock, seen>>
    BY <1>2, <1>3, <1>4, <2>2 DEF CreateSteps
  <2> QED BY <1>5, <2>1, <2>2 DEF CreateLookup
<1>6. CASE CreateLock(r)
  <2>1. CASE Continue(r, "overlap") /\ UNCHANGED <<lock, seen>>
    BY <1>2, <1>3, <1>4, <2>1 DEF CreateSteps
  <2>2. ASSUME NEW b \in SlotRows(r), Leave(r, "seat_taken")
        PROVE  /\ pc'[r] = "done" => outcome'[r] \in CreateEnds
               /\ Reason(r)'
               /\ seen'[r] # None => seen'[r] # r /\ Slot(seen'[r]) = Slot(r)
    <3>1. SlotTaken(r)
      BY <1>1 DEF SlotRows, SlotTaken
    <3> QED BY <1>3, <2>2, <3>1, EarlyReturn DEF CreateEnds
  <2>3. ASSUME NEW b \in SlotRows(r), seen' = [seen EXCEPT ![r] = b], Continue(r, "overlap")
        PROVE  /\ pc'[r] = "done" => outcome'[r] \in CreateEnds
               /\ Reason(r)'
               /\ seen'[r] # None => seen'[r] # r /\ Slot(seen'[r]) = Slot(r)
    <3>1. seen'[r] = b /\ Slot(b) = Slot(r) /\ b # r
      BY <1>1, <2>3 DEF TypeOK, SlotRows
    <3> QED BY <1>2, <1>4, <2>3, <3>1 DEF CreateSteps
  <2> QED BY <1>6, <2>1, <2>2, <2>3 DEF CreateLock
<1>7. CASE CreateOverlap(r)
  <2>1. CASE call[r].schedule \notin Schedules /\ Leave(r, "not_found")
    BY <1>3, <2>1, EarlyReturn DEF CreateEnds
  <2>2. CASE Leave(r, OverlapAnswer(r))
    <3>1. OverlapAnswer(r) \in {"overlapping", "multiple_results"}
      BY DEF OverlapAnswer
    <3> QED BY <1>3, <2>2, <3>1, EarlyReturn DEF CreateEnds
  <2>3. CASE Continue(r, "replace") /\ UNCHANGED <<lock, seen>>
    BY <1>2, <1>3, <1>4, <2>3 DEF CreateSteps
  <2> QED BY <1>7, <2>1, <2>2, <2>3 DEF CreateOverlap
<1>8. CASE CreateReplace(r)
  <2>1. CASE call[r].seat \notin Seats /\ Leave(r, "not_found")
    BY <1>3, <2>1, EarlyReturn DEF CreateEnds
  <2>2. CASE seen[r] # None /\ Leave(r, "child_rows")
    <3>1. Exists(seen[r]) /\ Slot(seen[r]) = Slot(r)
      BY <1>0, <2>2 DEF RowInv, ReasonInv
    <3>2. SlotTaken(r)
      BY <1>0, <1>1, <2>2, <3>1 DEF SlotTaken
    <3> QED BY <1>3, <2>2, <3>2, EarlyReturn DEF CreateEnds
  <2>3. CASE Goto(r, "insert") /\ UNCHANGED <<seen, outcome>>
    <3>1. pc'[r] # "done"
      BY <1>0, <2>3 DEF Goto, TypeOK
    <3> QED BY <1>2, <1>3, <2>3, <3>1
  <2> QED BY <1>8, <2>1, <2>2, <2>3 DEF CreateReplace
<1>9. CASE CreateInsert(r) \/ CreateIndex(r)
  <2>1. CASE /\ \E b \in Creates : Exists(b) /\ (SameKey(r, b) \/ SameSlot(r, b))
             /\ Leave(r, "unique_violation")
    <3>1. SlotTaken(r) \/ KeyTaken(r)
      BY <1>1, <2>1 DEF SameKey, SameSlot, SlotTaken, KeyTaken
    <3> QED BY <1>3, <2>1, <3>1, EarlyReturn DEF CreateEnds
  <2>2. CASE call[r].user \notin Users /\ Leave(r, "unknown_user")
    BY <1>3, <2>2, EarlyReturn DEF CreateEnds
  <2>3. CASE (Continue(r, "indexed") \/ Continue(r, "commit")) /\ UNCHANGED <<lock, seen>>
    BY <1>2, <1>3, <1>4, <2>3 DEF CreateSteps
  <2> QED BY <1>9, <2>1, <2>2, <2>3 DEF CreateInsert, CreateIndex
<1>10. CASE CreateCommit(r)
  <2>1. outcome'[r] = "created" /\ seen' = seen
    BY <1>0, <1>10 DEF CreateCommit, Finish, TypeOK
  <2> QED BY <1>3, <2>1 DEF Reason, CreateEnds
<1> QED BY <1>5, <1>6, <1>7, <1>8, <1>9, <1>10 DEF CreateStep

\* ReasonInv is an invariant.
LEMMA ReasonsKept ==
    ASSUME IInv, ReasonInv, [Next]_vars
    PROVE  ReasonInv'
<1>0. Forward /\ call' = call /\ TypeOK
  BY StepsForward DEF Forward, IInv
<1> SUFFICES ASSUME NEW r \in Creates
             PROVE  /\ pc'[r] = "done" => outcome'[r] \in CreateEnds
                    /\ Reason(r)'
                    /\ seen'[r] # None => seen'[r] # r /\ Slot(seen'[r]) = Slot(r)
  BY <1>0 DEF ReasonInv, Slot
<1>1. CASE CreateStep(r)
  BY <1>0, <1>1, CreateReasons
<1>2. CASE ~CreateStep(r)
  <2>0. ~OwnStep(r) /\ r \in Requests
    BY <1>2, Disjointness DEF OwnStep, Requests
  <2>1. seen'[r] = seen[r]
    BY <1>0, <2>0, OthersLeaveIt
  <2>2. CASE outcome'[r] = outcome[r] /\ (pc'[r] = "done" => pc[r] = "done")
    BY <1>0, <2>1, <2>2, ReasonStays DEF ReasonInv
  <2>3. CASE outcome'[r] = "aborted"
    <3>1. Reason(r)' /\ outcome'[r] \in CreateEnds
      BY <2>3 DEF Reason, CreateEnds
    <3> QED BY <2>1, <3>1 DEF ReasonInv
  <2> QED BY <1>0, <2>0, <2>2, <2>3, OthersLeaveIt
<1> QED BY <1>1, <1>2

\* Every create request that is over tells the truth: a key found is somebody
\* else's row, a refused seat has a row in its slot, a failed INSERT met a row with
\* the slot or the key, or has no user, and what was not found is not there.
THEOREM RefusalsHaveReasons == Spec => []ReasonInv
<1>1. Init => ReasonInv
  BY DEF Init, ReasonInv, Reason, Requests
<1>2. IInv /\ ReasonInv /\ [Next]_vars => ReasonInv'
  BY ReasonsKept
<1> QED BY <1>1, <1>2, Invariance, PTL DEF Spec

-------------------------------------------------------------------------------
(* Money *)

\* Who has been cut off stays so.
LEMMA AbortedStays ==
    ASSUME TypeOK, [Next]_vars, NEW q \in Requests, Aborted(q)
    PROVE  Aborted(q)'
<1>1. ~OwnStep(q)
  BY DEF Aborted, OwnStep, CreateStep, CreateLookup, CreateLock, CreateOverlap, CreateReplace,
         CreateInsert, CreateIndex, CreateCommit, PayStep, PayLock, PayLookup, PayAnswer,
         PayCharge, PayFlush, PayCommit,
         RefundStep, RefundLock, RefundReturn, RefundCommit
<1> QED BY <1>1, OthersLeaveIt DEF Aborted

\* The three steps of a payment that move its charge.
MoneyStep(q) == PayCharge(q) \/ PayFlush(q) \/ PayCommit(q)

\* How a pay request comes to the gateway and leaves the recording of its charge,
\* those three steps apart.
LEMMA PayMoves ==
    ASSUME TypeOK, [Next]_vars, NEW q \in Pays, ~MoneyStep(q)
    PROVE  /\ pc'[q] \in Recording => pc'[q] = pc[q]
           /\ pc[q] \in Recording => pc'[q] = pc[q] \/ Aborted(q)'
           /\ pc'[q] = "charging" => pc[q] = "charging" \/ ~KeyPaid(call[q].key)
<1> q \in Requests /\ q \notin Creates /\ q \notin Refunds
  BY Disjointness DEF Requests
<1>1. CASE PayStep(q)
  BY <1>1 DEF MoneyStep, Recording, PayStep, PayLock, PayLookup, PayAnswer, Leave, Continue, Finish,
             Goto, TypeOK
<1>2. CASE ~PayStep(q)
  BY <1>2, OthersLeaveIt DEF OwnStep, Aborted, Recording
<1> QED BY <1>1, <1>2

\* A refund leaves its commit with the booking refunded, or cut off.
LEMMA RefundMoves ==
    ASSUME TypeOK, [Next]_vars, NEW q \in Refunds, pc[q] = "refund_commit"
    PROVE  \/ pc'[q] = "refund_commit" \/ Aborted(q)'
           \/ status'[call[q].booking] = "refunded"
<1> q \in Requests /\ q \notin Creates /\ q \notin Pays
  BY Disjointness DEF Requests
<1>1. CASE RefundStep(q)
  <2>1. RefundCommit(q) /\ call[q].booking \in Creates
    BY <1>1, CallTypes DEF RefundStep, RefundLock, RefundReturn
  <2> QED BY <2>1 DEF RefundCommit, TypeOK
<1>2. CASE ~RefundStep(q)
  BY <1>2, OthersLeaveIt DEF OwnStep, Aborted
<1> QED BY <1>1, <1>2

\* Money that has been given back stays accounted for.
LEMMA ReturnsStay ==
    ASSUME TypeOK, Forward, [Next]_vars, NEW q \in Refunds, RefundFound(q)
    PROVE  RefundFound(q)'
<1>1. q \in Requests /\ call[q].booking \in Creates /\ call' = call
  BY CallTypes DEF Requests, Forward
<1>2. status[call[q].booking] = "refunded" => status'[call[q].booking] = "refunded"
  BY <1>1 DEF Forward
<1>3. \/ status'[call[q].booking] = "refunded" \/ pc'[q] = "refund_commit" \/ Aborted(q)'
  BY <1>1, <1>2, AbortedStays, RefundMoves DEF RefundFound
<1> QED BY <1>1, <1>3 DEF RefundFound

\* A step that returns no money keeps the returns of each booking apart.
LEMMA ReturnsFrame ==
    ASSUME TypeOK, Books, Forward, [Next]_vars, refundCalls' = refundCalls
    PROVE  /\ \A q \in refundCalls' : RefundFound(q)'
           /\ \A x, q \in refundCalls' : call'[x].booking = call'[q].booking =>
                  x = q \/ Aborted(x)' \/ Aborted(q)'
<1>1. refundCalls \subseteq Refunds /\ call' = call
  BY DEF TypeOK, Forward
<1>2. \A q \in refundCalls : RefundFound(q)'
  BY <1>1, ReturnsStay DEF Books
<1>3. \A q \in refundCalls : Aborted(q) => Aborted(q)'
  BY <1>1, AbortedStays DEF Requests
<1> QED BY <1>1, <1>2, <1>3 DEF Books

\* A charge is found again after a step that is none of those of its request.
LEMMA ChargeStays ==
    ASSUME TypeOK, Forward, [Next]_vars, NEW a \in Pays, ChargeFound(a), ~MoneyStep(a)
    PROVE  ChargeFound(a)'
<1>1. a \in Requests /\ a \notin Creates /\ a \notin Refunds
  BY Disjointness DEF Requests
<1>2. CASE \E p \in payments : p.ref = a
  BY <1>2 DEF Forward, ChargeFound
<1>3. CASE pc[a] \in Recording /\ charge[a] = a
  <2>1. ~PayStep(a)
    BY <1>3 DEF MoneyStep, Recording, PayStep, PayLock, PayLookup, PayAnswer
  <2>2. charge'[a] = a
    BY <1>1, <1>3, <2>1, OthersLeaveIt DEF OwnStep
  <2> QED BY <1>3, <2>2, PayMoves DEF ChargeFound
<1>4. CASE Aborted(a)
  BY <1>1, <1>4, AbortedStays DEF ChargeFound
<1> QED BY <1>2, <1>3, <1>4 DEF ChargeFound

\* A step without charges and payments; the gateway forgets only when nobody is
\* charging or recording.
LEMMA LedgerFrame ==
    ASSUME TypeOK, Ledger, Forward, [Next]_vars,
           UNCHANGED <<payments, charge, charged, refundCalls>>,
           \A q \in Pays : ~MoneyStep(q),
           \/ processed' = processed
           \/ /\ processed' = [k \in PayKeys |-> None]
              /\ \A q \in Pays : pc'[q] \notin {"charging", "recording", "pay_commit"}
    PROVE  Ledger'
<1> USE DEF Ledger
<1>1. call' = call /\ charged \subseteq Pays
  BY DEF Forward, TypeOK
<1>2. \A a \in charged' : ChargeFound(a)'
  BY <1>1, ChargeStays DEF Books
<1>3. Books'
  BY <1>2, ReturnsFrame DEF Books
<1>4. \A q \in Pays : /\ pc'[q] \in Recording => pc[q] \in Recording
                      /\ pc'[q] = "charging" => pc[q] = "charging" \/ ~KeyPaid(call[q].key)
  BY PayMoves
<1>5. \A q \in Pays : call[q].key \in PayKeys
  BY CallTypes
<1>6. \A p \in payments : p.key \in PayKeys
  BY DEF TypeOK, Payments
<1>7. CASE processed' = processed
  BY <1>1, <1>3, <1>4, <1>7 DEF MemoryInv, KeyPaid
<1>8. CASE /\ processed' = [k \in PayKeys |-> None]
           /\ \A q \in Pays : pc'[q] \notin {"charging", "recording", "pay_commit"}
  BY <1>3, <1>6, <1>8 DEF MemoryInv, Recording
<1> QED BY <1>7, <1>8

\* Each of the three steps moves its request on.
LEMMA MoneyStepMoves ==
    ASSUME TypeOK, NEW q \in Pays, MoneyStep(q)
    PROVE  pc'[q] # pc[q]
<1> q \in Requests
  BY DEF Requests
<1>1. CASE PayCharge(q)
  BY <1>1 DEF PayCharge, Goto, TypeOK
<1>2. CASE PayFlush(q)
  BY <1>2 DEF PayFlush, Leave, Continue, Goto, Finish, TypeOK
<1>3. CASE PayCommit(q)
  BY <1>3 DEF PayCommit, Record, Finish, TypeOK
<1> QED BY <1>1, <1>2, <1>3 DEF MoneyStep

\* A charge is remembered under its key from the moment it takes money.
LEMMA ChargeLedger ==
    ASSUME IInv, Ledger, Forward, [Next]_vars, NEW r \in Pays, PayCharge(r)
    PROVE  Ledger'
<1> USE DEF IInv
<1> DEFINE k == call[r].key
<1>0. k \in PayKeys /\ r # Declined /\ r # None /\ None # Declined /\ r \in Requests
  BY CallTypes, RequestsAssumption, Disjointness DEF Requests
<1>1. PICK a \in GatewayAnswers(r) :
            /\ charge' = [charge EXCEPT ![r] = a]
            /\ processed' = [processed EXCEPT ![k] = a]
            /\ charged' = IF a = r THEN charged \cup {r} ELSE charged
  BY DEF PayCharge
<1>2. /\ pc[r] = "charging" /\ UNCHANGED <<call, payments, refundCalls>>
      /\ pc' = [pc EXCEPT ![r] = "recording"]
  BY DEF PayCharge, Goto, tables
<1>3. a # None /\ (processed[k] # None => a = processed[k])
  BY <1>0 DEF GatewayAnswers
<1>4. charge'[r] = a /\ \A q \in Pays : q # r => charge'[q] = charge[q]
  BY <1>1 DEF TypeOK
<1>5. processed'[k] = a /\ \A j \in PayKeys : j # k => processed'[j] = processed[j]
  BY <1>0, <1>1 DEF TypeOK
<1>6. pc'[r] = "recording" /\ \A q \in Requests : q # r => pc'[q] = pc[q]
  BY <1>0, <1>2 DEF TypeOK
<1>7. \A q \in Pays : call[q].key \in PayKeys /\ q \in Requests
  BY CallTypes DEF Requests
<1>8. \A p \in payments : p.key \in PayKeys
  BY DEF TypeOK, Payments
<1>9. \A c \in charged' : ChargeFound(c)'
  <2> SUFFICES ASSUME NEW c \in charged'
               PROVE  ChargeFound(c)'
    OBVIOUS
  <2>1. CASE c = r
    <3>1. CASE c \notin charged
      BY <1>1, <1>4, <1>6, <2>1, <3>1 DEF ChargeFound, Recording
    <3>2. CASE c \in charged
      \* It took money before: then a payment has its reference.
      BY <1>2, <2>1, <3>2 DEF Ledger, Books, ChargeFound, Recording, Aborted
    <3> QED BY <3>1, <3>2
  <2>2. CASE c # r
    <3>1. c \in charged /\ c \in Pays
      BY <1>1, <2>2 DEF TypeOK
    <3>2. ~MoneyStep(c)
      BY <1>6, <1>7, <2>2, <3>1, MoneyStepMoves
    <3> QED BY <3>1, <3>2, ChargeStays DEF Ledger, Books
  <2> QED BY <2>1, <2>2
<1>10. Books'
  BY <1>2, <1>9, ReturnsFrame DEF Ledger, Books
<1>11. \A q \in Pays : pc'[q] \in Recording => processed'[call'[q].key] = charge'[q]
  <2> SUFFICES ASSUME NEW q \in Pays, q # r, pc[q] \in Recording
               PROVE  processed'[call[q].key] = charge[q]
    BY <1>2, <1>4, <1>5, <1>6, <1>7
  <2>1. processed[call[q].key] = charge[q] /\ charge[q] # None
    BY DEF Ledger, MemoryInv, ChargeInv
  <2> QED BY <1>3, <1>5, <1>7, <2>1
<1>12. \A q \in Pays : pc'[q] = "charging" /\ KeyPaid(call[q].key) => processed'[call[q].key] # None
  <2> SUFFICES ASSUME NEW q \in Pays, pc[q] = "charging", KeyPaid(call[q].key)
               PROVE  processed'[call[q].key] # None
    BY <1>6, <1>7
  <2>1. processed[call[q].key] # None
    BY DEF Ledger, MemoryInv
  <2> QED BY <1>3, <1>5, <1>7, <2>1
<1>13. \A p \in payments : processed'[p.key] # None =>
            processed'[p.key] = IF p.status = "success" THEN p.ref ELSE Declined
  <2> SUFFICES ASSUME NEW p \in payments
               PROVE  processed'[p.key] # None =>
                         processed'[p.key] = IF p.status = "success" THEN p.ref ELSE Declined
    OBVIOUS
  <2>1. CASE p.key = k
    <3>1. processed[k] # None
      BY <1>2, <2>1 DEF Ledger, MemoryInv, KeyPaid
    <3> QED BY <1>3, <1>5, <2>1, <3>1 DEF Ledger, MemoryInv
  <2>2. CASE p.key # k
    BY <1>5, <1>8, <2>2 DEF Ledger, MemoryInv
  <2> QED BY <2>1, <2>2
<1>14. MemoryInv'
  BY <1>2, <1>11, <1>12, <1>13 DEF MemoryInv, KeyPaid, Recording
<1> QED BY <1>10, <1>14 DEF Ledger

\* The commit of pay_booking turns the charge into a payment; one whose flush meets
\* the payment of its key has only been told of the charge that payment records.
LEMMA RecordLedger ==
    ASSUME IInv, Ledger, Forward, [Next]_vars, NEW r \in Pays, PayFlush(r) \/ PayCommit(r)
    PROVE  Ledger'
<1> USE DEF IInv
<1> DEFINE k == call[r].key
           a == charge[r]
<1>0. /\ r \in Requests /\ r # Declined /\ r # None /\ None # Declined
      /\ \A q \in Pays : q \in Requests /\ q # Declined /\ q # None
  BY RequestsAssumption, Disjointness DEF Requests
<1>1. /\ pc[r] \in Recording /\ processed[k] = a /\ a # None
      /\ UNCHANGED <<call, charge, processed, charged, refundCalls>>
  BY DEF PayFlush, PayCommit, Leave, Continue, Record, Recording, gateway, Ledger, MemoryInv,
         ChargeInv
<1>2. /\ pc'[r] \in {"done", "pay_commit"}
      /\ \A q \in Requests : q # r => pc'[q] = pc[q]
  BY <1>0 DEF PayFlush, PayCommit, Leave, Continue, Goto, Record, Finish, TypeOK
<1>3. ASSUME a = r => pc'[r] = "pay_commit" \/ \E p \in payments' : p.ref = r
      PROVE  Books'
  <2>1. \A c \in charged : ChargeFound(c)'
    <3> SUFFICES ASSUME NEW c \in charged
                 PROVE  ChargeFound(c)'
      OBVIOUS
    <3>1. c \in Pays /\ ChargeFound(c)
      BY DEF TypeOK, Ledger, Books
    <3>2. CASE c = r
      <4>1. CASE \E p \in payments : p.ref = c
        BY <4>1 DEF Forward, ChargeFound
      <4>2. CASE a = r
        BY <1>1, <1>3, <3>2, <4>2 DEF ChargeFound, Recording
      <4> QED BY <1>1, <3>1, <3>2, <4>1, <4>2 DEF ChargeFound, Recording, Aborted
    <3>3. CASE c # r
      BY <1>0, <1>2, <3>1, <3>3, MoneyStepMoves, ChargeStays
    <3> QED BY <3>2, <3>3
  <2> QED BY <1>1, <2>1, ReturnsFrame DEF Ledger, Books
<1>4. \A q \in Pays : pc'[q] \in Recording => processed'[call'[q].key] = charge'[q]
  BY <1>0, <1>1, <1>2 DEF Ledger, MemoryInv
<1>a. CASE Continue(r, "pay_commit")
  <2>1. payments' = payments /\ pc'[r] = "pay_commit"
    BY <1>0, <1>a DEF Continue, Goto, TypeOK, tables
  <2>2. Books'
    BY <1>3, <2>1
  <2>3. MemoryInv'
    BY <1>0, <1>1, <1>2, <1>4, <2>1 DEF Ledger, MemoryInv, KeyPaid
  <2> QED BY <2>2, <2>3 DEF Ledger
<1>5. CASE KeyPaid(k) /\ Leave(r, "unique_violation")
  <2>1. PICK p \in payments : p.key = k
    BY <1>5 DEF KeyPaid
  <2>2. payments' = payments
    BY <1>5 DEF Leave, tables
  <2>3. a = r => p.ref = r
    BY <1>0, <1>1, <2>1 DEF Ledger, MemoryInv
  <2>4. Books'
    BY <1>3, <2>2, <2>3
  <2>5. MemoryInv'
    BY <1>0, <1>1, <1>2, <1>4, <2>2 DEF Ledger, MemoryInv, KeyPaid
  <2> QED BY <2>4, <2>5 DEF Ledger
<1>6. ASSUME NEW new, NEW ps \in {"success", "failed"}, NEW ref, NEW action,
             Record(r, new, ps, ref, action),
             IF ps = "success" THEN a # Declined /\ ref = a ELSE a = Declined
      PROVE  Ledger'
  <2> DEFINE p0 == [booking |-> call[r].booking, key |-> k, status |-> ps, ref |-> ref]
  <2>1. payments' = payments \cup {p0}
    BY <1>6 DEF Record
  <2>2. p0.key = k /\ p0.status = ps /\ p0.ref = ref
    OBVIOUS
  <2> HIDE DEF p0
  <2>3. a = r => p0.ref = r
    BY <1>0, <1>6, <2>2
  <2>4. Books'
    BY <1>3, <2>1, <2>3
  <2>5. \A q \in Pays : pc'[q] = "charging" /\ (\E p \in payments' : p.key = call[q].key)
                        => processed[call[q].key] # None
    BY <1>0, <1>1, <1>2, <2>1, <2>2 DEF Ledger, MemoryInv, KeyPaid
  <2>6. \A p \in payments' : processed[p.key] # None =>
            processed[p.key] = IF p.status = "success" THEN p.ref ELSE Declined
    BY <1>1, <1>6, <2>1, <2>2 DEF Ledger, MemoryInv
  <2>7. MemoryInv'
    BY <1>1, <1>4, <2>5, <2>6 DEF MemoryInv, KeyPaid
  <2> QED BY <2>4, <2>7 DEF Ledger
<1> QED BY <1>a, <1>5, <1>6 DEF PayFlush, PayCommit

\* Money goes back under the lock of a confirmed booking: whoever gave it back before
\* and did not refund the booking has been cut off.
LEMMA ReturnLedger ==
    ASSUME IInv, Ledger, Forward, [Next]_vars, NEW r \in Refunds, RefundReturn(r),
           ~Leave(r, "multiple_results")
    PROVE  Ledger'
<1> USE DEF IInv
<1>1. /\ UNCHANGED <<call, payments, status, processed, charged, charge, outcome>>
      /\ pc' = [pc EXCEPT ![r] = "refund_commit"] /\ pc[r] = "returning"
      /\ refundCalls' \subseteq refundCalls \cup {r}
  BY DEF RefundReturn, Goto, tables
<1>2. lock[call[r].booking] = r /\ status[call[r].booking] = "confirmed"
  BY <1>1 DEF SectionInv, RefundSection
<1>3. /\ \A q \in Pays : q \in Requests /\ q # r
      /\ r \in Requests /\ refundCalls \subseteq Refunds
      /\ \A q \in Refunds : q \in Requests
  BY Disjointness DEF Requests, TypeOK
<1>4. pc'[r] = "refund_commit" /\ \A q \in Requests : q # r => pc'[q] = pc[q]
  BY <1>1, <1>3 DEF TypeOK
<1>5. \A q \in refundCalls : call[q].booking = call[r].booking => q = r \/ Aborted(q)
  <2> SUFFICES ASSUME NEW q \in refundCalls, call[q].booking = call[r].booking, ~Aborted(q)
               PROVE  q = r
    OBVIOUS
  <2>1. pc[q] = "refund_commit"
    BY <1>2 DEF Ledger, Books, RefundFound
  <2>2. lock[call[q].booking] = q
    BY <1>3, <2>1 DEF SectionInv, RefundSection
  <2> QED BY <1>2, <2>2
<1>6. \A q \in refundCalls : Aborted(q) => Aborted(q)'
  BY <1>3, AbortedStays
<1>7. \A q \in refundCalls' : RefundFound(q)'
  <2> SUFFICES ASSUME NEW q \in refundCalls'
               PROVE  RefundFound(q)'
    OBVIOUS
  <2>1. CASE q = r
    BY <1>4, <2>1 DEF RefundFound
  <2>2. CASE q \in refundCalls
    BY <1>3, <2>2, ReturnsStay DEF Ledger, Books
  <2> QED BY <1>1, <2>1, <2>2
<1>8. \A x, q \in refundCalls' : call'[x].booking = call'[q].booking =>
          x = q \/ Aborted(x)' \/ Aborted(q)'
  <2> SUFFICES ASSUME NEW x \in refundCalls', NEW q \in refundCalls',
                      call[x].booking = call[q].booking, x # q
               PROVE  Aborted(x)' \/ Aborted(q)'
    BY <1>1
  <2>1. CASE x = r
    BY <1>1, <1>5, <1>6, <2>1
  <2>2. CASE q = r
    BY <1>1, <1>5, <1>6, <2>2
  <2>3. CASE x # r /\ q # r
    BY <1>1, <1>6, <2>3 DEF Ledger, Books
  <2> QED BY <2>1, <2>2, <2>3
<1>9. \A c \in charged : ChargeFound(c)'
  BY <1>1, <1>3, <1>4 DEF Ledger, Books, ChargeFound, Recording, Aborted, TypeOK
<1>10. MemoryInv'
  BY <1>1, <1>3, <1>4 DEF Ledger, MemoryInv, KeyPaid
<1> QED BY <1>1, <1>7, <1>8, <1>9, <1>10 DEF Ledger, Books

\* Only the gateway's two calls and the commit of a payment touch the books; a crash
\* lets the gateway forget, but cuts off whoever was about to charge or record.
LEMMA OtherwiseNoMoneyMoves ==
    ASSUME TypeOK, [Next]_vars,
           \A r \in Pays : ~MoneyStep(r),
           \A r \in Refunds : RefundReturn(r) => Leave(r, "multiple_results")
    PROVE  /\ UNCHANGED <<payments, charge, charged, refundCalls>>
           /\ \/ processed' = processed
              \/ /\ processed' = [k \in PayKeys |-> None]
                 /\ \A q \in Pays : pc'[q] \notin {"charging", "recording", "pay_commit"}
<1>1. CASE \E r \in Creates : CreateStep(r)
  BY <1>1 DEF CreateStep, CreateLookup, CreateLock, CreateOverlap, CreateReplace,
     CreateInsert, CreateIndex, CreateCommit, Leave, Continue, tables, gateway
<1>2. CASE \E r \in Pays : PayStep(r)
  BY <1>2 DEF MoneyStep, PayStep, PayLock, PayLookup, PayAnswer, Leave, Continue, tables, gateway
<1>3. CASE \E r \in Refunds : RefundStep(r)
  BY <1>3 DEF RefundStep, RefundLock, RefundCommit, Leave, Continue, tables, gateway
<1>4. CASE Crash
  <2>1. \A q \in Pays : pc'[q] \notin {"charging", "recording", "pay_commit"}
    BY <1>4 DEF Crash, InFlight, Requests
  <2> QED BY <1>4, <2>1 DEF Crash, tables
<1>5. CASE \/ \E r \in Requests : Receive(r) \/ PoolTimeout(r) \/ Abort(r)
           \/ CleanupSelect \/ CleanupCommit \/ CleanupFail
           \/ Tick \/ Rest \/ UNCHANGED vars
  BY <1>5 DEF Receive, PoolTimeout, Leave, Abort, CleanupSelect, CleanupCommit,
     CleanupFail, CleanupEnd, Tick, Rest, vars, tables, gateway
<1> QED BY <1>1, <1>2, <1>3, <1>4, <1>5 DEF Next

\* Every step keeps the books, also one that fails.
LEMMA MoneyKept ==
    ASSUME IInv, Ledger, [Next]_vars
    PROVE  Ledger'
<1>0. Forward /\ TypeOK
  BY StepsForward DEF IInv
<1>1. CASE \E r \in Pays : MoneyStep(r)
  BY <1>0, <1>1, ChargeLedger, RecordLedger DEF MoneyStep
<1>2. CASE \E r \in Refunds : RefundReturn(r) /\ ~Leave(r, "multiple_results")
  BY <1>0, <1>2, ReturnLedger
<1>3. CASE /\ \A r \in Pays : ~MoneyStep(r)
           /\ \A r \in Refunds : RefundReturn(r) => Leave(r, "multiple_results")
  BY <1>0, <1>3, OtherwiseNoMoneyMoves, LedgerFrame
<1> QED BY <1>1, <1>2, <1>3

\* The gateway never answers for a payment with anything but what the payment says,
\* and every charge and every refund call is accounted for.
THEOREM MoneyIsFound == Spec => []Ledger
<1>1. Init => Ledger
  BY DEF Init, Ledger, MemoryInv, Recording, Books, Requests
<1>2. IInv /\ Ledger /\ [Next]_vars => Ledger'
  BY MoneyKept
<1> QED BY <1>1, <1>2, Invariance, PTL DEF Spec

\* No charge is lost and no booking's money is returned twice but by the failure of
\* the request that was moving it.
THEOREM MoneyIsNeverLost == Spec => []MoneyAccounted
<1>1. IInv /\ Ledger => MoneyAccounted
  BY DEF Ledger, Books, ChargeFound, RefundFound, Recording, Aborted, MoneyAccounted
<1> QED BY <1>1, Invariance, MoneyIsFound, PTL
===============================================================================
