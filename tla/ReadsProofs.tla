------------------------------ MODULE ReadsProofs ------------------------------
(***************************************************************************)
(* Theorems about Reads, for every number of bookings, schedules, seats    *)
(* and readers and every time to live.                                     *)
(***************************************************************************)
EXTENDS Reads, TLAPS

USE CacheAssumption

\* The rows: a booking that exists has a slot, a booking that was confirmed a
\* successful payment.
RowInv ==
    /\ status \in [Bookings -> Statuses]
    /\ slot \in [Bookings -> Slots \cup {NoSlot}]
    /\ \A b \in Bookings : status[b] # "none" => slot[b] \in Slots
    /\ \A b \in Bookings : status[b] \in {"confirmed", "refunded"} =>
            [booking |-> b, status |-> "success"] \in receipts

\* What the statements of get_stats have told so far.
StatsInv ==
    /\ ran = 0 => settled = {}
    /\ \A b \in answer["confirmed"] : [booking |-> b, status |-> "success"] \in receipts
    /\ \A b \in settled : status[b] \in {"confirmed", "cancelled", "refunded"}
    /\ ran >= 2 => \A b \in settled :
            b \in answer["confirmed"] \/ status[b] \in {"cancelled", "refunded"}
    /\ ran >= 4 => \A b \in settled :
            b \in answer["confirmed"] \cup answer["cancelled"] \/ status[b] = "refunded"

CacheInv == CacheTypeOK /\ HealsWithinTTL /\ StalenessExplained
ReportInv == StatsTypeOK /\ StatsInv /\ RevenueCoversConfirmed /\ SettledAreCounted

\* A commit of the booking engine.
Commit(b) == (\E s \in Slots : Reserve(b, s)) \/ Confirm(b) \/ Decline(b) \/ Refund(b)

-------------------------------------------------------------------------------
(* The rows *)

\* A commit of the engine changes one booking.
LEMMA CommitChanges ==
    ASSUME RowInv, NEW b \in Bookings, Commit(b)
    PROVE  /\ status'[b] \in Statuses \ {"none"} /\ slot'[b] \in Slots
           /\ \A c \in Bookings \ {b} : status'[c] = status[c] /\ slot'[c] = slot[c]
           /\ status[b] # "none" => slot'[b] = slot[b]
<1>1. ASSUME NEW s \in Slots, Reserve(b, s)
      PROVE  /\ status'[b] \in Statuses \ {"none"} /\ slot'[b] \in Slots
             /\ \A c \in Bookings \ {b} : status'[c] = status[c] /\ slot'[c] = slot[c]
             /\ status[b] # "none" => slot'[b] = slot[b]
  BY <1>1 DEF RowInv, Reserve, Statuses
<1>2. CASE Confirm(b) \/ Decline(b) \/ Refund(b)
  BY <1>2 DEF RowInv, Confirm, Decline, Settle, Refund, Statuses
<1> QED
  BY <1>1, <1>2 DEF Commit

\* A step of the life cycle is a commit of the engine or of the cleanup task.
LEMMA LifecycleSteps ==
    ASSUME Next
    PROVE  (\E b \in Bookings : Commit(b)) \/ (\E batch \in SUBSET Bookings : Expire(batch))
  BY DEF Next, Commit

\* The rows change as the life cycle says: payments are kept, what was settled stays
\* settled, and a cancelled or refunded booking is what it is for ever.
LEMMA RowsKept ==
    ASSUME RowInv, Next
    PROVE  /\ RowInv' /\ receipts \subseteq receipts'
           /\ \A b \in Bookings :
                /\ status[b] \in {"cancelled", "refunded"} => status'[b] = status[b]
                /\ status[b] = "confirmed" => status'[b] \in {"confirmed", "refunded"}
<1> DEFINE Goal == /\ RowInv' /\ receipts \subseteq receipts'
                   /\ \A b \in Bookings :
                        /\ status[b] \in {"cancelled", "refunded"} => status'[b] = status[b]
                        /\ status[b] = "confirmed" => status'[b] \in {"confirmed", "refunded"}
<1>1. ASSUME NEW b \in Bookings, NEW s \in Slots, Reserve(b, s) PROVE Goal
  BY <1>1 DEF RowInv, Reserve, Statuses
<1>2. ASSUME NEW b \in Bookings, Confirm(b) PROVE Goal
  BY <1>2 DEF RowInv, Confirm, Settle, Statuses
<1>3. ASSUME NEW b \in Bookings, Decline(b) PROVE Goal
  BY <1>3 DEF RowInv, Decline, Settle, Statuses
<1>4. ASSUME NEW b \in Bookings, Refund(b) PROVE Goal
  BY <1>4 DEF RowInv, Refund, Statuses
<1>5. ASSUME NEW batch \in SUBSET Bookings, Expire(batch) PROVE Goal
  BY <1>5 DEF RowInv, Expire, Statuses
<1> QED
  BY <1>1, <1>2, <1>3, <1>4, <1>5 DEF Next

\* A commit of the engine changes the seat map of its own schedule only.
LEMMA CommitIsLocal ==
    ASSUME RowInv, NEW b \in Bookings, Commit(b),
           NEW s \in Schedules, s # slot'[b][1]
    PROVE  SeatMap'[s] = SeatMap[s]
<1>1. ~Concerns(b, s) /\ ~Concerns(b, s)'
  BY CommitChanges DEF Concerns
<1>2. \A c \in Bookings \ {b} :
        status'[c] = status[c] /\ slot'[c] = slot[c] /\ (Concerns(c, s)' <=> Concerns(c, s))
  BY CommitChanges DEF Concerns
<1> QED
  BY <1>1, <1>2 DEF SeatMap

\* A pass of the cleanup task changes the maps of the schedules of its batch only.
LEMMA PassIsLocal ==
    ASSUME NEW batch \in SUBSET Bookings, Expire(batch), RowInv,
           NEW s \in Schedules, \A b \in batch : ~Concerns(b, s)
    PROVE  SeatMap'[s] = SeatMap[s]
<1>1. \A b \in batch : ~Concerns(b, s) /\ ~Concerns(b, s)'
  BY DEF Concerns, Expire
<1>2. \A c \in Bookings \ batch :
        status'[c] = status[c] /\ slot'[c] = slot[c] /\ (Concerns(c, s)' <=> Concerns(c, s))
  BY DEF Concerns, Expire, RowInv
<1> QED
  BY <1>1, <1>2 DEF SeatMap

\* The seat map of a schedule is a seat map.
LEMMA SeatMapType ==
    ASSUME RowInv, NEW s \in Schedules
    PROVE  SeatMap[s] \in SeatMaps
<1> SUFFICES ASSUME NEW b \in Bookings, status[b] \in Holding, Concerns(b, s)
             PROVE  <<slot[b][2], status[b]>> \in Seats \X Holding
  BY DEF SeatMap, SeatMaps
<1>1. slot[b] \in Schedules \X Seats
  BY DEF RowInv, Concerns
<1> QED
  BY <1>1

-------------------------------------------------------------------------------
(* The seat cache *)

\* Nothing is cached or asked for.
LEMMA CacheInitially == CacheInit => RowInv /\ CacheInv
<1> SUFFICES ASSUME CacheInit PROVE RowInv /\ CacheInv
  OBVIOUS
<1>1. RowInv
  BY DEF CacheInit, Init, RowInv, Statuses
<1>2. CacheTypeOK
  BY DEF CacheInit, CacheTypeOK, SeatMaps
<1>3. Outdated = {}
  BY DEF CacheInit, Outdated
<1> QED
  BY <1>1, <1>2, <1>3 DEF CacheInv, HealsWithinTTL, StalenessExplained

\* A commit that changes the map under a key starts its time, and gives a reason.
LEMMA DisturbKeeps ==
    ASSUME RowInv, CacheInv, UNCHANGED <<redis, readers>>, Disturb,
           owed' \in [Schedules -> Nat],
           causes' \in [Schedules -> SUBSET {"late_fill", "lost_deletion", "cleanup"}],
           \A s \in Schedules : owed'[s] >= owed[s] /\ causes[s] \subseteq causes'[s],
           \A s \in Schedules : ttl[s] > 0 =>
               SeatMap'[s] = SeatMap[s] \/ owed'[s] > 0 \/ causes'[s] # {}
    PROVE  CacheInv'
<1> USE DEF redis, readers
<1>0. \A s \in Schedules :
        calm'[s] = IF Cached(s) /\ SeatMap'[s] # SeatMap[s] THEN 0 ELSE calm[s]
  BY DEF Disturb
<1>1. CacheTypeOK'
  <2>1. calm' \in [Schedules -> 0 .. TTL]
    <3>1. calm \in [Schedules -> 0 .. TTL] /\ 0 \in 0 .. TTL
      BY DEF CacheInv, CacheTypeOK
    <3>2. calm' = [s \in Schedules |-> calm'[s]]
      BY DEF Disturb
    <3> QED
      BY <1>0, <3>1, <3>2
  <2>2. cache' = cache /\ ttl' = ttl /\ at' = at /\ read' = read
    OBVIOUS
  <2> QED
    BY <2>1, <2>2 DEF CacheInv, CacheTypeOK
<1>2. HealsWithinTTL'
  <2> SUFFICES ASSUME NEW s \in Schedules, s \in Outdated'
               PROVE  ttl'[s] + calm'[s] <= TTL
    BY DEF HealsWithinTTL, Outdated
  <2>1. Cached(s) /\ ttl'[s] = ttl[s] /\ cache'[s] = cache[s] /\ ttl[s] \in 0 .. TTL
    BY DEF Outdated, Cached, CacheInv, CacheTypeOK
  <2>2. CASE SeatMap'[s] = SeatMap[s]
    BY <1>0, <2>1, <2>2 DEF Outdated, CacheInv, HealsWithinTTL
  <2>3. CASE SeatMap'[s] # SeatMap[s]
    BY <1>0, <2>1, <2>3
  <2> QED
    BY <2>2, <2>3
<1>3. StalenessExplained'
  <2> SUFFICES ASSUME NEW s \in Schedules, s \in Outdated'
               PROVE  owed'[s] > 0 \/ causes'[s] # {}
    BY DEF StalenessExplained, Outdated
  <2>1. owed[s] \in Nat /\ owed'[s] \in Nat
    BY DEF CacheInv, CacheTypeOK
  <2>2. CASE SeatMap'[s] = SeatMap[s]
    BY <2>1, <2>2 DEF Outdated, CacheInv, StalenessExplained
  <2> QED
    BY <2>2 DEF Outdated
<1> QED
  BY <1>1, <1>2, <1>3 DEF CacheInv

\* create_booking, pay_booking and refund_booking owe a deletion.
LEMMA EngineKeeps == RowInv /\ CacheInv /\ EngineCommit => RowInv' /\ CacheInv'
<1> SUFFICES ASSUME RowInv, CacheInv, EngineCommit PROVE RowInv' /\ CacheInv'
  OBVIOUS
<1>1. PICK b \in Bookings : Commit(b) /\ Owe(b)
  BY DEF EngineCommit, Commit
<1>2. RowInv'
  BY <1>1, RowsKept DEF Next, Commit
<1>3. slot'[b][1] \in Schedules
  BY <1>1, CommitChanges
<1>4. /\ owed' \in [Schedules -> Nat] /\ owed'[slot'[b][1]] > 0
      /\ \A s \in Schedules : owed'[s] >= owed[s]
  BY <1>1, <1>3 DEF Owe, CacheInv, CacheTypeOK
<1>5. \A s \in Schedules : s # slot'[b][1] => SeatMap'[s] = SeatMap[s]
  BY <1>1, CommitIsLocal
<1>6. /\ UNCHANGED <<redis, readers>> /\ Disturb /\ causes' = causes
      /\ causes \in [Schedules -> SUBSET {"late_fill", "lost_deletion", "cleanup"}]
  BY DEF EngineCommit, CacheInv, CacheTypeOK
<1>7. CacheInv'
  BY <1>4, <1>5, <1>6, DisturbKeeps
<1> QED
  BY <1>2, <1>7

\* The cleanup task gives itself as the reason.
LEMMA PassKeeps == RowInv /\ CacheInv /\ CleanupPass => RowInv' /\ CacheInv'
<1> SUFFICES ASSUME RowInv, CacheInv, CleanupPass PROVE RowInv' /\ CacheInv'
  OBVIOUS
<1>1. PICK batch \in SUBSET Bookings :
        /\ Expire(batch)
        /\ causes' = [s \in Schedules |->
                        IF Cached(s) /\ \E b \in batch : Concerns(b, s)
                        THEN causes[s] \cup {"cleanup"} ELSE causes[s]]
        /\ Disturb /\ UNCHANGED <<redis, readers, owed>>
  BY DEF CleanupPass
<1>2. RowInv'
  BY <1>1, RowsKept DEF Next
<1>3. /\ causes' \in [Schedules -> SUBSET {"late_fill", "lost_deletion", "cleanup"}]
      /\ \A s \in Schedules : causes[s] \subseteq causes'[s]
  BY <1>1 DEF CacheInv, CacheTypeOK
<1>4. owed' \in [Schedules -> Nat] /\ \A s \in Schedules : owed'[s] >= owed[s]
  BY <1>1 DEF CacheInv, CacheTypeOK
<1>5. ASSUME NEW s \in Schedules, ttl[s] > 0
      PROVE  SeatMap'[s] = SeatMap[s] \/ causes'[s] # {}
  <2>1. CASE \E b \in batch : Concerns(b, s)
    BY <1>1, <1>5, <2>1 DEF Cached
  <2>2. CASE \A b \in batch : ~Concerns(b, s)
    BY <1>1, <2>2, PassIsLocal
  <2> QED
    BY <2>1, <2>2
<1>6. CacheInv'
  BY <1>1, <1>3, <1>4, <1>5, DisturbKeeps
<1> QED
  BY <1>2, <1>6

\* What is not a commit changes no map.
LEMMA SameMaps ==
    ASSUME UNCHANGED lifecycleVars
    PROVE  /\ RowInv' <=> RowInv
           /\ SeatMap' = SeatMap
  BY DEF lifecycleVars, RowInv, SeatMap, Concerns

\* The deletions, and those that are lost.
LEMMA DeletionKeeps ==
    ASSUME RowInv, CacheInv, NEW s \in Schedules, Invalidate(s) \/ LoseInvalidation(s)
    PROVE  RowInv' /\ CacheInv'
<1>1. CASE Invalidate(s)
  <2>1. RowInv' /\ SeatMap' = SeatMap
    BY <1>1, SameMaps DEF Invalidate
  <2>2. CacheTypeOK'
    BY <1>1 DEF Invalidate, Deleted, CacheInv, CacheTypeOK, SeatMaps, readers
  <2>3. s \notin Outdated'
    BY <1>1 DEF Invalidate, Outdated, CacheInv, CacheTypeOK
  <2>4. \A x \in Schedules \ {s} :
          /\ ttl'[x] = ttl[x] /\ calm'[x] = calm[x] /\ owed'[x] = owed[x]
          /\ causes'[x] = causes[x] /\ (x \in Outdated' <=> x \in Outdated)
    BY <1>1, <2>1 DEF Invalidate, Deleted, Outdated, CacheInv, CacheTypeOK
  <2> QED
    BY <2>1, <2>2, <2>3, <2>4 DEF CacheInv, HealsWithinTTL, StalenessExplained, Outdated
<1>2. CASE LoseInvalidation(s)
  <2>1. RowInv' /\ SeatMap' = SeatMap
    BY <1>2, SameMaps DEF LoseInvalidation
  <2>2. CacheTypeOK'
    BY <1>2 DEF LoseInvalidation, Deleted, CacheInv, CacheTypeOK, readers, redis
  <2>3. \A x \in Schedules :
          ttl'[x] = ttl[x] /\ calm'[x] = calm[x] /\ (x \in Outdated' <=> x \in Outdated)
    BY <1>2, <2>1 DEF LoseInvalidation, Outdated, redis
  <2>4. s \in Outdated => causes'[s] # {}
    BY <1>2 DEF LoseInvalidation, Outdated, Cached, CacheInv, CacheTypeOK
  <2>5. \A x \in Schedules \ {s} : owed'[x] = owed[x] /\ causes'[x] = causes[x]
    BY <1>2 DEF LoseInvalidation, Deleted, CacheInv, CacheTypeOK
  <2> QED
    BY <2>1, <2>2, <2>3, <2>4, <2>5 DEF CacheInv, HealsWithinTTL, StalenessExplained, Outdated
<1> QED
  BY <1>1, <1>2

\* A reader moves without writing to Redis.
LEMMA MoveKeeps ==
    ASSUME RowInv, CacheInv, UNCHANGED <<lifecycleVars, redis, owed, calm, causes>>,
           at' \in [Readers -> {"idle", "lookup", "query", "fill"}],
           read' \in [Readers -> SeatMaps]
    PROVE  RowInv' /\ CacheInv'
<1>1. RowInv' /\ SeatMap' = SeatMap
  BY SameMaps
<1> QED
  BY <1>1 DEF CacheInv, CacheTypeOK, HealsWithinTTL, StalenessExplained, Outdated, redis

\* The readers.
LEMMA ReaderKeeps ==
    ASSUME RowInv, CacheInv, NEW r \in Readers, ReaderStep(r)
    PROVE  RowInv' /\ CacheInv'
<1> DEFINE Places == {"idle", "lookup", "query", "fill"}
<1>a. at \in [Readers -> Places] /\ read \in [Readers -> SeatMaps] /\ {} \in SeatMaps
  BY DEF CacheInv, CacheTypeOK, SeatMaps
<1>1. CASE Ask(r) \/ Miss(r)
  BY <1>1, <1>a, MoveKeeps DEF Ask, Miss, Goto
<1>2. CASE Hit(r) \/ GiveUp(r)
  BY <1>2, <1>a, MoveKeeps DEF Hit, GiveUp, Done, Goto
<1>3. CASE Query(r)
  <2>1. CASE Asks[r] \in Schedules
    <3>1. SeatMap[Asks[r]] \in SeatMaps
      BY <2>1, SeatMapType
    <3> QED
      BY <1>3, <1>a, <2>1, <3>1, MoveKeeps DEF Query, Goto
  <2>2. CASE Asks[r] \notin Schedules
    BY <1>3, <1>a, <2>2, MoveKeeps DEF Query, Done, Goto
  <2> QED
    BY <2>1, <2>2
<1>4. CASE Fill(r)
  <2> DEFINE s == Asks[r]
             late == read[r] # SeatMap[s]
  <2>1. RowInv' /\ SeatMap' = SeatMap
    BY <1>4, SameMaps DEF Fill
  <2>2. CacheTypeOK'
    <3>1. /\ at' \in [Readers -> Places] /\ read' \in [Readers -> SeatMaps]
          /\ read[r] \in SeatMaps /\ owed' = owed
      BY <1>4, <1>a DEF Fill, Done, Goto
    <3>2. cache' \in [Schedules -> SeatMaps]
      BY <1>4, <3>1 DEF Fill, CacheInv, CacheTypeOK
    <3>3. 0 \in 0 .. TTL /\ TTL \in 0 .. TTL
      OBVIOUS
    <3>4. ttl' \in [Schedules -> 0 .. TTL] /\ calm' \in [Schedules -> 0 .. TTL]
      BY <1>4, <3>3 DEF Fill, CacheInv, CacheTypeOK
    <3>5. causes' \in [Schedules -> SUBSET {"late_fill", "lost_deletion", "cleanup"}]
      BY <1>4 DEF Fill, CacheInv, CacheTypeOK
    <3> QED
      BY <3>1, <3>2, <3>4, <3>5 DEF CacheInv, CacheTypeOK
  <2>3. s \in Schedules /\ s \in Outdated' => late /\ calm'[s] = 0 /\ causes'[s] # {} /\ ttl'[s] = TTL
    BY <1>4, <2>1 DEF Fill, Outdated, CacheInv, CacheTypeOK
  <2>4. \A x \in Schedules \ {s} :
          /\ ttl'[x] = ttl[x] /\ calm'[x] = calm[x] /\ owed'[x] = owed[x]
          /\ causes'[x] = causes[x] /\ (x \in Outdated' <=> x \in Outdated)
    BY <1>4, <2>1 DEF Fill, Outdated, CacheInv, CacheTypeOK
  <2> QED
    BY <2>1, <2>2, <2>3, <2>4 DEF CacheInv, HealsWithinTTL, StalenessExplained, Outdated
<1> QED
  BY <1>1, <1>2, <1>3, <1>4 DEF ReaderStep

\* Redis restarts, or time passes in it.
LEMMA RedisKeeps ==
    ASSUME RowInv, CacheInv, RedisRestart \/ Tick
    PROVE  RowInv' /\ CacheInv'
<1>1. CASE RedisRestart
  <2>1. RowInv'
    BY <1>1, SameMaps DEF RedisRestart
  <2>2. CacheTypeOK'
    BY <1>1 DEF RedisRestart, CacheInv, CacheTypeOK, SeatMaps, readers
  <2>3. Outdated' = {}
    BY <1>1 DEF RedisRestart, Outdated
  <2> QED
    BY <2>1, <2>2, <2>3 DEF CacheInv, HealsWithinTTL, StalenessExplained
<1>2. CASE Tick
  <2>1. RowInv' /\ SeatMap' = SeatMap
    BY <1>2, SameMaps DEF Tick
  <2>2. \A x \in Schedules : ttl[x] \in 0 .. TTL /\ calm[x] \in 0 .. TTL
    BY DEF CacheInv, CacheTypeOK
  <2>3. CacheTypeOK'
    <3>1. cache' \in [Schedules -> SeatMaps]
      BY <1>2 DEF Tick, CacheInv, CacheTypeOK, SeatMaps
    <3>2. ttl' \in [Schedules -> 0 .. TTL] /\ calm' \in [Schedules -> 0 .. TTL]
      BY <1>2, <2>2 DEF Tick
    <3> QED
      BY <1>2, <3>1, <3>2 DEF Tick, CacheInv, CacheTypeOK, readers
  <2>4. ASSUME NEW x \in Schedules, x \in Outdated'
        PROVE  x \in Outdated /\ ttl'[x] + calm'[x] <= TTL /\ owed'[x] = owed[x] /\ causes'[x] = causes[x]
    <3>1. ttl[x] > 1 /\ ttl'[x] = ttl[x] - 1
      BY <1>2, <2>2, <2>4 DEF Tick, Outdated
    <3>2. x \in Outdated /\ owed'[x] = owed[x] /\ causes'[x] = causes[x]
      <4>1. cache'[x] = cache[x] /\ causes'[x] = causes[x] /\ owed' = owed
        BY <1>2, <3>1 DEF Tick
      <4> QED
        BY <2>1, <2>2, <2>4, <3>1, <4>1 DEF Outdated
    <3>3. ttl[x] + calm[x] <= TTL
      BY <3>2 DEF CacheInv, HealsWithinTTL
    <3> QED
      BY <1>2, <2>2, <3>1, <3>2, <3>3 DEF Tick
  <2> QED
    BY <2>1, <2>3, <2>4 DEF CacheInv, HealsWithinTTL, StalenessExplained, Outdated
<1> QED
  BY <1>1, <1>2

\* Every step of the cache keeps its invariant.
LEMMA CacheInductive == RowInv /\ CacheInv /\ CacheNext => RowInv' /\ CacheInv'
  BY EngineKeeps, PassKeeps, DeletionKeeps, ReaderKeeps, RedisKeeps DEF CacheNext

-------------------------------------------------------------------------------
(* The statistics *)

\* No statement has run.
LEMMA StatsInitially == StatsInit => ReportInv
  BY DEF StatsInit, ReportInv, StatsTypeOK, StatsInv, RevenueCoversConfirmed,
         SettledAreCounted, Queries

\* While the statements wait, bookings go on; what is settled stays settled.
LEMMA TrafficKeeps ==
    ASSUME RowInv, ReportInv, Next, UNCHANGED statsVars
    PROVE  ReportInv'
<1>1. /\ receipts \subseteq receipts'
      /\ \A b \in Bookings :
            /\ status[b] \in {"cancelled", "refunded"} => status'[b] = status[b]
            /\ status[b] = "confirmed" => status'[b] \in {"confirmed", "refunded"}
  BY RowsKept
<1>2. ran' = ran /\ answer' = answer /\ settled' = settled /\ settled \subseteq Bookings
  BY DEF statsVars, ReportInv, StatsTypeOK
<1>3. ran \in 0 .. 5
  BY DEF ReportInv, StatsTypeOK
<1>4. StatsTypeOK' /\ RevenueCoversConfirmed' /\ SettledAreCounted'
  BY <1>2 DEF ReportInv, StatsTypeOK, RevenueCoversConfirmed, SettledAreCounted
<1>5. \A b \in answer["confirmed"] : [booking |-> b, status |-> "success"] \in receipts'
  BY <1>1 DEF ReportInv, StatsInv
<1>6. \A b \in settled : status'[b] \in {"confirmed", "cancelled", "refunded"}
  BY <1>1, <1>2 DEF ReportInv, StatsInv
<1>7. ran >= 2 => \A b \in settled :
        b \in answer["confirmed"] \/ status'[b] \in {"cancelled", "refunded"}
  BY <1>1, <1>2 DEF ReportInv, StatsInv
<1>8. ran >= 4 => \A b \in settled :
        b \in answer["confirmed"] \cup answer["cancelled"] \/ status'[b] = "refunded"
  BY <1>1, <1>2 DEF ReportInv, StatsInv
<1>9. StatsInv'
  BY <1>2, <1>5, <1>6, <1>7, <1>8 DEF ReportInv, StatsInv
<1> QED
  BY <1>4, <1>9 DEF ReportInv

\* What each statement finds.
LEMMA StatementFinds ==
    ASSUME ReportInv, Statement
    PROVE  /\ ran \in 0 .. 4 /\ ran' = ran + 1
           /\ \A q \in Queries :
                answer'[q] = IF q = Statements[ran + 1] THEN Found(q) ELSE answer[q]
           /\ Found("total") \subseteq Bookings /\ Found("revenue") \subseteq Bookings
           /\ Found("revenue") =
                {b \in Bookings : [booking |-> b, status |-> "success"] \in receipts}
           /\ \A x \in {"confirmed", "cancelled", "refunded"} :
                Found(x) = {b \in Bookings : status[b] = x}
<1>1. ran \in 0 .. 4 /\ ran' = ran + 1
  BY DEF Statement, ReportInv, StatsTypeOK
<1>2. \A q \in Queries : answer'[q] = IF q = Statements[ran + 1] THEN Found(q) ELSE answer[q]
  BY DEF Statement, ReportInv, StatsTypeOK
<1>3. Found("total") \subseteq Bookings /\ Found("revenue") \subseteq Bookings
  BY DEF Found
<1>4. Found("revenue") = {b \in Bookings : [booking |-> b, status |-> "success"] \in receipts}
  BY DEF Found
<1>5. \A x \in {"confirmed", "cancelled", "refunded"} :
        Found(x) = {b \in Bookings : status[b] = x}
  BY DEF Found
<1> QED
  BY <1>1, <1>2, <1>3, <1>4, <1>5

\* A statement adds what it finds to what the earlier ones have told.
LEMMA StatementKeeps ==
    ASSUME RowInv, ReportInv, Statement
    PROVE  ReportInv'
<1> USE DEF Queries
<1>0. UNCHANGED lifecycleVars /\ status' = status /\ receipts' = receipts
  BY DEF Statement, lifecycleVars
<1>1. CASE ran = 0
  <2>1. Statements[ran + 1] = "total"
    BY <1>1 DEF Statements
  <2>2. ran' = 1 /\ answer' = [answer EXCEPT !["total"] = Found("total")] /\ settled' = Settled
    BY <1>1, <2>1 DEF Statement
  <2>3. Settled \subseteq Bookings /\ Found("total") \subseteq Bookings
    BY StatementFinds DEF Settled
  <2>4. StatsTypeOK'
    BY <2>2, <2>3 DEF ReportInv, StatsTypeOK
  <2>5. StatsInv'
    BY <1>0, <2>2 DEF ReportInv, StatsTypeOK, StatsInv, Settled
  <2> QED
    BY <2>2, <2>4, <2>5 DEF ReportInv, RevenueCoversConfirmed, SettledAreCounted
<1>2. CASE ran = 1
  <2>1. Statements[ran + 1] = "confirmed"
    BY <1>2 DEF Statements
  <2>2. /\ ran' = 2 /\ answer' = [answer EXCEPT !["confirmed"] = Found("confirmed")]
        /\ settled' = settled
    BY <1>2, <2>1 DEF Statement
  <2>3. Found("confirmed") = {b \in Bookings : status[b] = "confirmed"}
    BY StatementFinds
  <2>4. StatsTypeOK' /\ answer'["confirmed"] = Found("confirmed")
    BY <2>2, <2>3 DEF ReportInv, StatsTypeOK
  <2>5. StatsInv'
    BY <1>0, <2>2, <2>3, <2>4 DEF ReportInv, StatsTypeOK, StatsInv, RowInv
  <2> QED
    BY <2>2, <2>4, <2>5 DEF ReportInv, RevenueCoversConfirmed, SettledAreCounted
<1>3. CASE ran = 2
  <2>1. Statements[ran + 1] = "revenue"
    BY <1>3 DEF Statements
  <2>2. /\ ran' = 3 /\ answer' = [answer EXCEPT !["revenue"] = Found("revenue")]
        /\ settled' = settled
    BY <1>3, <2>1 DEF Statement
  <2>3. Found("revenue") = {b \in Bookings : [booking |-> b, status |-> "success"] \in receipts}
    BY StatementFinds
  <2>4. /\ StatsTypeOK' /\ answer'["revenue"] = Found("revenue")
        /\ answer'["confirmed"] = answer["confirmed"] /\ answer["confirmed"] \subseteq Bookings
    <3>1. Found("revenue") \in SUBSET Bookings
      BY StatementFinds
    <3>2. answer' \in [Queries -> SUBSET Bookings]
      BY <2>2, <3>1 DEF ReportInv, StatsTypeOK
    <3> QED
      BY <2>2, <3>2 DEF ReportInv, StatsTypeOK
  <2>5. StatsInv'
    BY <1>0, <1>3, <2>2, <2>4 DEF ReportInv, StatsInv
  <2>6. RevenueCoversConfirmed'
    BY <2>3, <2>4 DEF ReportInv, StatsInv, RevenueCoversConfirmed
  <2> QED
    BY <2>2, <2>4, <2>5, <2>6 DEF ReportInv, SettledAreCounted
<1>4. CASE ran = 3
  <2>1. Statements[ran + 1] = "cancelled"
    BY <1>4 DEF Statements
  <2>2. /\ ran' = 4 /\ answer' = [answer EXCEPT !["cancelled"] = Found("cancelled")]
        /\ settled' = settled
    BY <1>4, <2>1 DEF Statement
  <2>3. Found("cancelled") = {b \in Bookings : status[b] = "cancelled"}
    BY StatementFinds
  <2>4. /\ StatsTypeOK' /\ answer'["cancelled"] = Found("cancelled")
        /\ answer'["confirmed"] = answer["confirmed"] /\ answer'["revenue"] = answer["revenue"]
    BY <2>2, <2>3 DEF ReportInv, StatsTypeOK
  <2>5. StatsInv'
    BY <1>0, <1>4, <2>2, <2>3, <2>4 DEF ReportInv, StatsTypeOK, StatsInv
  <2> QED
    BY <1>4, <2>2, <2>4, <2>5 DEF ReportInv, RevenueCoversConfirmed, SettledAreCounted
<1>5. CASE ran = 4
  <2>1. Statements[ran + 1] = "refunded"
    BY <1>5 DEF Statements
  <2>2. /\ ran' = 5 /\ answer' = [answer EXCEPT !["refunded"] = Found("refunded")]
        /\ settled' = settled
    BY <1>5, <2>1 DEF Statement
  <2>3. Found("refunded") = {b \in Bookings : status[b] = "refunded"}
    BY StatementFinds
  <2>4. /\ StatsTypeOK' /\ answer'["refunded"] = Found("refunded")
        /\ answer'["confirmed"] = answer["confirmed"] /\ answer'["revenue"] = answer["revenue"]
        /\ answer'["cancelled"] = answer["cancelled"] /\ settled \subseteq Bookings
    BY <2>2, <2>3 DEF ReportInv, StatsTypeOK
  <2>5. StatsInv'
    BY <1>0, <1>5, <2>2, <2>4 DEF ReportInv, StatsTypeOK, StatsInv
  <2>6. SettledAreCounted'
    BY <1>5, <2>2, <2>3, <2>4 DEF ReportInv, StatsInv, SettledAreCounted
  <2> QED
    BY <1>5, <2>2, <2>4, <2>5, <2>6 DEF ReportInv, RevenueCoversConfirmed
<1> QED
  BY <1>1, <1>2, <1>3, <1>4, <1>5, StatementFinds

\* Every step of the statistics keeps the report.
LEMMA StatsInductive == RowInv /\ ReportInv /\ StatsNext => RowInv' /\ ReportInv'
<1> SUFFICES ASSUME RowInv, ReportInv, StatsNext PROVE RowInv' /\ ReportInv'
  OBVIOUS
<1>1. CASE Statement
  BY <1>1, StatementKeeps, SameMaps DEF Statement
<1>2. CASE Answered
  <2>1. RowInv' /\ UNCHANGED lifecycleVars
    BY <1>2, SameMaps DEF Answered
  <2>2. ran' = 0 /\ answer' = [q \in Queries |-> {}] /\ settled' = {}
    BY <1>2 DEF Answered
  <2> QED
    BY <2>1, <2>2 DEF ReportInv, StatsTypeOK, StatsInv, RevenueCoversConfirmed,
                      SettledAreCounted, Queries
<1>3. CASE Next /\ UNCHANGED statsVars
  BY <1>3, RowsKept, TrafficKeeps
<1> QED
  BY <1>1, <1>2, <1>3 DEF StatsNext

-------------------------------------------------------------------------------
(* The theorems *)

\* Who reads maps asks for no statistics; who asks for statistics caches nothing.
ReadsInv ==
    /\ RowInv /\ CacheInv /\ ReportInv /\ audience \in {"maps", "statistics"}
    /\ audience = "statistics" => \A s \in Schedules : ttl[s] = 0

\* A step of the cache is a step of the life cycle or leaves the tables alone.
LEMMA CacheSteps == CacheNext => Next \/ UNCHANGED lifecycleVars
  BY DEF CacheNext, EngineCommit, CleanupPass, Invalidate, LoseInvalidation, ReaderStep,
         Ask, Hit, Miss, Query, Fill, GiveUp, RedisRestart, Tick, Next

\* A report is about the tables and the statements.
LEMMA ReportFrame ==
    ASSUME ReportInv, UNCHANGED <<lifecycleVars, statsVars>>
    PROVE  ReportInv'
  BY DEF ReportInv, StatsTypeOK, StatsInv, RevenueCoversConfirmed, SettledAreCounted,
         lifecycleVars, statsVars

\* Every step of either kind of readers keeps the invariant.
LEMMA ReadsInductive == ReadsInv /\ [ReadsNext]_readsVars => ReadsInv'
<1> SUFFICES ASSUME ReadsInv, [ReadsNext]_readsVars PROVE ReadsInv'
  OBVIOUS
<1>1. CASE MapStep
  <2>1. RowInv' /\ CacheInv' /\ audience' = "maps" /\ UNCHANGED statsVars
    BY <1>1, CacheInductive DEF MapStep, ReadsInv
  <2>2. ReportInv'
    BY <1>1, <2>1, CacheSteps, TrafficKeeps, ReportFrame DEF MapStep, ReadsInv
  <2> QED
    BY <2>1, <2>2 DEF ReadsInv
<1>2. CASE StatsStep
  <2>1. RowInv' /\ ReportInv' /\ audience' = "statistics" /\ UNCHANGED cacheVars
    BY <1>2, StatsInductive DEF StatsStep, ReadsInv
  <2>2. /\ ttl' = ttl /\ \A s \in Schedules : ttl[s] = 0
        /\ CacheTypeOK'
    BY <1>2, <2>1 DEF StatsStep, ReadsInv, CacheInv, CacheTypeOK, cacheVars, redis, readers
  <2>3. Outdated' = {}
    BY <2>2 DEF Outdated
  <2>4. CacheInv'
    BY <2>2, <2>3 DEF CacheInv, HealsWithinTTL, StalenessExplained
  <2> QED
    BY <2>1, <2>2, <2>4 DEF ReadsInv
<1>3. CASE UNCHANGED readsVars
  <2>1. /\ UNCHANGED <<lifecycleVars, redis, owed, calm, causes, statsVars>>
        /\ ttl' = ttl /\ at' = at /\ read' = read /\ audience' = audience
    BY <1>3 DEF readsVars, seatVars, cacheVars, redis, readers
  <2>2. RowInv' /\ CacheInv'
    BY <2>1, MoveKeeps DEF ReadsInv, CacheInv, CacheTypeOK
  <2>3. ReportInv'
    BY <2>1, ReportFrame DEF ReadsInv
  <2> QED
    BY <2>1, <2>2, <2>3 DEF ReadsInv
<1> QED
  BY <1>1, <1>2, <1>3 DEF ReadsNext

\* The invariant of the readers: rows, cache, reports.
THEOREM ReadsInvariance == ReadsSpec => []ReadsInv
<1>1. ReadsInit => ReadsInv
  <2> SUFFICES ASSUME ReadsInit PROVE ReadsInv
    OBVIOUS
  <2>1. \A s \in Schedules : ttl[s] = 0
    BY DEF ReadsInit, CacheInit
  <2> QED
    BY <2>1, CacheInitially, StatsInitially DEF ReadsInit, ReadsInv
<1> QED
  BY <1>1, ReadsInductive, PTL DEF ReadsSpec

\* Every variable of the readers has its type in every reachable state.
THEOREM ReadsTypes == ReadsSpec => []ReadsTypeOK
<1>1. ReadsInv => ReadsTypeOK
  BY DEF ReadsInv, CacheInv, ReportInv, ReadsTypeOK
<1> QED
  BY <1>1, ReadsInvariance, PTL

\* An outdated seat map is gone one time to live after the last change or fill.
THEOREM MapsHeal == ReadsSpec => []HealsWithinTTL
<1>1. ReadsInv => HealsWithinTTL
  BY DEF ReadsInv, CacheInv
<1> QED
  BY <1>1, ReadsInvariance, PTL

\* An outdated seat map has a deletion on its way, or one of three reasons.
THEOREM MapsExplained == ReadsSpec => []StalenessExplained
<1>1. ReadsInv => StalenessExplained
  BY DEF ReadsInv, CacheInv
<1> QED
  BY <1>1, ReadsInvariance, PTL

\* The revenue has the payment of every booking reported confirmed.
THEOREM RevenueCovers == ReadsSpec => []RevenueCoversConfirmed
<1>1. ReadsInv => RevenueCoversConfirmed
  BY DEF ReadsInv, ReportInv
<1> QED
  BY <1>1, ReadsInvariance, PTL

\* A settled booking is in one of the three counts.
THEOREM SettledCounted == ReadsSpec => []SettledAreCounted
<1>1. ReadsInv => SettledAreCounted
  BY DEF ReadsInv, ReportInv
<1> QED
  BY <1>1, ReadsInvariance, PTL

\* Nobody who reads disturbs the tables: with their caches, late fills, lost deletions
\* and half-told statistics, the readers and the traffic implement the life cycle, the
\* same specification that the booking engine implements.
THEOREM ReadersOnlyRead == ReadsSpec => Spec
<1>1. ReadsInit => Init
  BY DEF ReadsInit, CacheInit
<1>2. [ReadsNext]_readsVars => [Next]_lifecycleVars
  <2> SUFFICES ASSUME [ReadsNext]_readsVars PROVE Next \/ UNCHANGED lifecycleVars
    OBVIOUS
  <2>1. CASE MapStep
    BY <2>1, CacheSteps DEF MapStep
  <2>2. CASE StatsStep
    BY <2>2 DEF StatsStep, StatsNext, Statement, Answered
  <2>3. CASE UNCHANGED readsVars
    BY <2>3 DEF readsVars, seatVars
  <2> QED
    BY <2>1, <2>2, <2>3 DEF ReadsNext
<1> QED
  BY <1>1, <1>2, PTL DEF ReadsSpec, Spec
===============================================================================
