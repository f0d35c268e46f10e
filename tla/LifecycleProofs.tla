---------------------------- MODULE LifecycleProofs ----------------------------
(***************************************************************************)
(* BookingEngine implements BookingLifecycle, and what a step may do to    *)
(* the committed tables.                                                   *)
(***************************************************************************)
EXTENDS BookingAnswersProofs

-------------------------------------------------------------------------------
(* The engine implements the atomic life cycle *)

\* A step that commits nothing is a stutter of the life cycle.
LEMMA StutterStep ==
    ASSUME UNCHANGED <<call, status, payments, audit>>
    PROVE  UNCHANGED Lifecycle!lifecycleVars
BY DEF Lifecycle!lifecycleVars, SlotOf, Receipts, Slot, Exists

\* The commit of create_booking is Reserve.
LEMMA CreateImplements ==
    ASSUME IInv, PlaceInv, NEW r \in Creates, CreateCommit(r)
    PROVE  Slot(r) \in Schedules \X Seats /\ Lifecycle!Reserve(r, Slot(r))
<1> USE DEF IInv
<1>1. /\ pc[r] = "commit" /\ seen[r] = None /\ status[r] = "none"
      /\ UNCHANGED <<call, payments>>
  BY DEF CreateCommit, RowInv, Inserting, Exists
<1>2. status' = [status EXCEPT ![r] = "reserved"]
  BY <1>1, Disjointness DEF CreateCommit, TypeOK, Requests
<1>3. \A c \in Creates : status[c] \in Holding => SlotOf[c] # Slot(r)
  BY <1>1 DEF RowInv, SlotOf, Slot, Exists, Holding, SameSlot
<1>4. SlotOf' = [SlotOf EXCEPT ![r] = Slot(r)]
  BY <1>1, <1>2 DEF SlotOf, Exists, Slot, TypeOK
<1>5. Receipts' = Receipts
  BY <1>1 DEF Receipts
<1>6. Slot(r) \in Schedules \X Seats
  BY <1>1 DEF PlaceInv, Inserting, Slot
<1> QED BY <1>1, <1>2, <1>3, <1>4, <1>5, <1>6 DEF Lifecycle!Reserve, Lifecycle!Entry, Lifecycle!Holding, Entry, Holding, CreateCommit

\* The commit of pay_booking is Confirm or Decline.
LEMMA PayImplements ==
    ASSUME IInv, NEW r \in Pays, PayCommit(r)
    PROVE  \/ Lifecycle!Confirm(call[r].booking)
           \/ Lifecycle!Decline(call[r].booking)
<1> USE DEF IInv
<1> DEFINE b == call[r].booking
<1>0. b \in Creates /\ status[b] = "reserved"
  BY CallTypes DEF PayCommit, SectionInv, PaySection
<1>1. ASSUME NEW new \in {"confirmed", "cancelled"}, NEW ps, NEW ref, NEW action,
             Record(r, new, ps, ref, action)
      PROVE  Lifecycle!Settle(b, new, ps, action)
  <2>1. SlotOf' = SlotOf
    BY <1>0, <1>1 DEF Record, SlotOf, Slot, Exists, TypeOK
  <2>2. Receipts' = Receipts \cup {[booking |-> b, status |-> ps]}
    <3> DEFINE p0 == [booking |-> b, key |-> call[r].key, status |-> ps, ref |-> ref]
               x0 == [booking |-> b, status |-> ps]
    <3>1. payments' = payments \cup {p0}
      BY <1>1 DEF Record
    <3>2. [booking |-> p0.booking, status |-> p0.status] = x0
      OBVIOUS
    <3> HIDE DEF p0, x0
    <3>3. \A x : x \in Receipts' <=> x \in Receipts \/ x = x0
      BY <3>1, <3>2 DEF Receipts
    <3> QED BY <3>3 DEF x0
  <2> QED BY <1>0, <1>1, <2>1, <2>2 DEF Record, Lifecycle!Settle, Lifecycle!Entry, Entry
<1> QED BY <1>1 DEF PayCommit, Lifecycle!Confirm, Lifecycle!Decline

\* The commit of refund_booking is Refund.
LEMMA RefundImplements ==
    ASSUME IInv, NEW r \in Refunds, RefundCommit(r)
    PROVE  Lifecycle!Refund(call[r].booking)
<1> USE DEF IInv
<1> DEFINE b == call[r].booking
<1>0. b \in Creates /\ status[b] = "confirmed"
  BY CallTypes DEF RefundCommit, SectionInv, RefundSection
<1>1. SlotOf' = SlotOf
  BY <1>0 DEF RefundCommit, SlotOf, Slot, Exists, TypeOK
<1>2. Receipts' = Receipts
  BY DEF RefundCommit, Receipts
<1> QED BY <1>0, <1>1, <1>2 DEF RefundCommit, Lifecycle!Refund, Lifecycle!Entry, Entry

\* The commit of a cleanup pass is Expire.
LEMMA CleanupImplements ==
    ASSUME IInv, CleanupCommit
    PROVE  Lifecycle!Expire(batch)
<1> USE DEF IInv
<1>0. batch \subseteq Creates /\ \A b \in batch : status[b] = "reserved"
  BY DEF TypeOK, SectionInv
<1>1. SlotOf' = SlotOf
  BY <1>0 DEF CleanupCommit, CleanupEnd, SlotOf, Slot, Exists
<1>2. Receipts' = Receipts
  BY DEF CleanupCommit, CleanupEnd, Receipts
<1> QED BY <1>0, <1>1, <1>2 DEF CleanupCommit, Lifecycle!Expire, Lifecycle!Entry, Entry

\* Every behaviour of the engine, with all its statements, locks, retries and
\* failures, is a behaviour of the atomic life cycle over the seats and schedules
\* that exist.
THEOREM Refinement == Spec => Implements
<1>1. Init => Lifecycle!Init
  BY DEF Init, Lifecycle!Init, SlotOf, Receipts, Exists
<1>2. IInv /\ PlaceInv /\ [Next]_vars => [Lifecycle!Next]_(Lifecycle!lifecycleVars)
  <2> SUFFICES ASSUME IInv, PlaceInv, [Next]_vars
               PROVE  Lifecycle!Next \/ UNCHANGED Lifecycle!lifecycleVars
    OBVIOUS
  <2>1. ASSUME NEW r \in Creates, CreateStep(r)
        PROVE  Lifecycle!Next \/ UNCHANGED Lifecycle!lifecycleVars
    <3>1. CASE CreateCommit(r)
      BY <3>1, CreateImplements DEF Lifecycle!Next
    <3>2. CASE ~CreateCommit(r)
      <4>1. UNCHANGED <<call, status, payments, audit>>
        BY <2>1, <3>2 DEF CreateStep, CreateLookup, CreateLock, CreateOverlap,
                          CreateReplace, CreateInsert, CreateIndex, Leave, Continue, Goto,
                          tables
      <4> QED BY <4>1, StutterStep
    <3> QED BY <3>1, <3>2
  <2>2. ASSUME NEW r \in Pays, PayStep(r)
        PROVE  Lifecycle!Next \/ UNCHANGED Lifecycle!lifecycleVars
    <3>1. CASE PayCommit(r)
      <4>1. call[r].booking \in Creates
        BY CallTypes DEF IInv
      <4> QED BY <3>1, <4>1, PayImplements DEF Lifecycle!Next
    <3>2. CASE ~PayCommit(r)
      <4>1. UNCHANGED <<call, status, payments, audit>>
        BY <2>2, <3>2 DEF PayStep, PayLock, PayLookup, PayAnswer, PayCharge, PayFlush, Leave,
                          Continue, tables
      <4> QED BY <4>1, StutterStep
    <3> QED BY <3>1, <3>2
  <2>3. ASSUME NEW r \in Refunds, RefundStep(r)
        PROVE  Lifecycle!Next \/ UNCHANGED Lifecycle!lifecycleVars
    <3>1. CASE RefundCommit(r)
      <4>1. call[r].booking \in Creates
        BY CallTypes DEF IInv
      <4> QED BY <3>1, <4>1, RefundImplements DEF Lifecycle!Next
    <3>2. CASE ~RefundCommit(r)
      <4>1. UNCHANGED <<call, status, payments, audit>>
        BY <2>3, <3>2 DEF RefundStep, RefundLock, RefundReturn, Leave, Continue, tables
      <4> QED BY <4>1, StutterStep
    <3> QED BY <3>1, <3>2
  <2>4. CASE CleanupCommit
    <3>1. batch \in SUBSET Creates
      BY DEF IInv, TypeOK
    <3> QED BY <2>4, <3>1, CleanupImplements DEF Lifecycle!Next
  <2>5. CASE \/ \E r \in Requests : Receive(r) \/ PoolTimeout(r) \/ Abort(r)
             \/ CleanupSelect \/ CleanupFail \/ Crash \/ Tick \/ Rest \/ UNCHANGED vars
    <3>1. UNCHANGED <<call, status, payments, audit>>
      BY <2>5 DEF Receive, PoolTimeout, Leave, Abort, CleanupSelect, CleanupFail, CleanupEnd, Crash,
                  Tick, Rest, vars, tables
    <3> QED BY <3>1, StutterStep
  <2> QED BY <2>1, <2>2, <2>3, <2>4, <2>5 DEF Next
<1> QED BY <1>1, <1>2, Invariance, PromisesAreKept, PTL DEF Spec, Implements, Lifecycle!Spec

-------------------------------------------------------------------------------
(* What no step does *)

\* No step of the engine takes anything back: payments stay, a row is never deleted,
\* and its status only moves forward.
THEOREM TablesMoveForward == Spec => [][Forward]_vars
<1>1. IInv /\ [Next]_vars => [Forward]_vars
  BY StepsForward
<1> QED BY <1>1, Invariance, PTL DEF Spec

\* A slot is sold once in the life of the system: no second row of a slot is ever
\* created, also after the first is cancelled or refunded, whatever step 5 of
\* create_booking means to do about an inactive row.
SlotsSoldOnce ==
    /\ \A b, c \in Creates : Exists(b) /\ Exists(c) /\ Slot(b) = Slot(c) => b = c
    /\ \A r \in Creates : seen[r] # None => ~Exists(r)

\* No seat that was cancelled or refunded is booked again.
THEOREM SeatsAreNeverResold == Spec => []SlotsSoldOnce
<1>1. IInv /\ ReasonInv => SlotsSoldOnce
  <2> SUFFICES ASSUME IInv, ReasonInv
               PROVE  SlotsSoldOnce
    OBVIOUS
  <2>1. \A b, c \in Creates : Exists(b) /\ Exists(c) /\ Slot(b) = Slot(c) => b = c
    BY DEF IInv, RowInv, Collide, SameSlot
  <2>2. ASSUME NEW r \in Creates, seen[r] # None
        PROVE  ~Exists(r)
    <3>1. seen[r] \in Creates /\ Exists(seen[r])
      BY <2>2 DEF IInv, TypeOK, RowInv
    <3>2. seen[r] # r /\ Slot(seen[r]) = Slot(r)
      BY <2>2 DEF ReasonInv
    <3> QED BY <2>1, <3>1, <3>2
  <2> QED BY <2>1, <2>2 DEF SlotsSoldOnce
<1> QED BY <1>1, Invariance, RefusalsHaveReasons, PTL
===============================================================================
