------------------------------- MODULE SeatCache -------------------------------
(***************************************************************************)
(* The seat maps of GET /trains/schedules/{id}/seats and their Redis cache: *)
(* readers that look up, query and fill, the time to live, and the         *)
(* deletions the booking engine makes after its commits.  The tables change *)
(* by the steps of BookingLifecycle, the committed transactions.  A step   *)
(* of a reader is what it does between two awaits, so what it has read may *)
(* be outdated when it is written to Redis.                                *)
(***************************************************************************)
EXTENDS Naturals, BookingLifecycle

CONSTANTS
    ScheduleIds,    \* schedule ids a client may send
    Schedules,      \* rows of table schedules
    Seats,          \* rows of table seats
    SeatsOf,        \* SeatsOf[s]: the seats of the train of schedule s
    Readers,        \* clients that ask for a seat map again and again
    Asks,           \* Asks[r]: the schedule id that reader r asks for
    TTL             \* the five seconds of redis.set(..., ex=5)

\* A seat map tells the booking status of the seats that are taken.
SeatMaps == SUBSET (Seats \X Holding)

ASSUME CacheAssumption ==
    /\ Schedules \subseteq ScheduleIds /\ Slots \subseteq Schedules \X Seats
    /\ SeatsOf \in [Schedules -> SUBSET Seats] /\ Asks \in [Readers -> ScheduleIds]
    /\ TTL \in Nat \ {0}

VARIABLES
    cache,      \* cache[s]: the value of key seats:<s>, if there is one
    ttl,        \* ttl[s]: the time the key has left, 0 while there is none
    owed,       \* owed[s]: requests that have committed a change to schedule s
                \* and have still to delete its key
    at,         \* at[r]: what reader r does next
    read,       \* read[r]: the map it has queried
    calm,       \* calm[s]: time since the map of s changed under its key or an
                \* outdated one was cached, TTL and more being the same (history)
    causes      \* causes[s]: what may have outdated the key of s (history)

redis == <<cache, ttl>>
readers == <<at, read>>
cacheVars == <<redis, owed, readers, calm, causes>>
seatVars == <<lifecycleVars, cacheVars>>

CacheTypeOK ==
    /\ cache \in [Schedules -> SeatMaps]
    /\ ttl \in [Schedules -> 0 .. TTL]
    /\ owed \in [Schedules -> Nat]
    /\ at \in [Readers -> {"idle", "lookup", "query", "fill"}]
    /\ read \in [Readers -> SeatMaps]
    /\ calm \in [Schedules -> 0 .. TTL]
    /\ causes \in [Schedules -> SUBSET {"late_fill", "lost_deletion", "cleanup"}]

CacheInit ==
    /\ Init
    /\ cache = [s \in Schedules |-> {}]
    /\ ttl = [s \in Schedules |-> 0]
    /\ owed = [s \in Schedules |-> 0]
    /\ at = [r \in Readers |-> "idle"]
    /\ read = [r \in Readers |-> {}]
    /\ calm = [s \in Schedules |-> TTL]
    /\ causes = [s \in Schedules |-> {}]

-------------------------------------------------------------------------------
(* Commits and the deletions that follow them *)

Concerns(b, s) == status[b] # "none" /\ slot[b][1] = s

\* The query: the seats of the train, outer joined with their live bookings.  A
\* booking of the schedule for a seat of another train has no row in it.
SeatMap == [s \in Schedules |->
    {<<slot[b][2], status[b]>> : b \in {x \in Bookings :
        status[x] \in Holding /\ Concerns(x, s) /\ slot[x][2] \in SeatsOf[s]}}]

Cached(s) == s \in Schedules /\ ttl[s] > 0

\* A commit disturbs the cached schedules whose map it changes.
Disturb ==
    calm' = [s \in Schedules |-> IF Cached(s) /\ SeatMap'[s] # SeatMap[s] THEN 0 ELSE calm[s]]

\* The committed request of booking b goes on to delete the key of its schedule.
Owe(b) == owed' = [owed EXCEPT ![slot'[b][1]] = @ + 1]

\* Faulty variant: pay_booking deletes nothing when the payment failed.
EngineCommit_DeclineForgets ==
    /\ \E b \in Bookings :
         \/ ((\E s \in Slots : Reserve(b, s)) \/ Confirm(b) \/ Refund(b)) /\ Owe(b)
         \/ Decline(b) /\ UNCHANGED owed
    /\ Disturb
    /\ UNCHANGED <<redis, readers, causes>>

\* create_booking, pay_booking or refund_booking commits.
EngineCommit ==
    /\ \E b \in Bookings :
         /\ (\E s \in Slots : Reserve(b, s)) \/ Confirm(b) \/ Decline(b) \/ Refund(b)
         /\ Owe(b)
    /\ Disturb
    /\ UNCHANGED <<redis, readers, causes>>

\* A pass of the cleanup task commits, and deletes no key.
CleanupPass ==
    \E batch \in SUBSET Bookings :
        /\ Expire(batch)
        /\ causes' = [s \in Schedules |->
                        IF Cached(s) /\ \E b \in batch : Concerns(b, s)
                        THEN causes[s] \cup {"cleanup"} ELSE causes[s]]
        /\ Disturb
        /\ UNCHANGED <<redis, readers, owed>>

\* Faulty variant: a request deletes again and again.
Deleted_Again(s) == owed' = [owed EXCEPT ![s] = @ - 1]

\* A request that owes the deletion is done with it.
Deleted(s) == owed[s] > 0 /\ owed' = [owed EXCEPT ![s] = @ - 1]

\* _invalidate_seat_cache
Invalidate(s) ==
    /\ Deleted(s)
    /\ cache' = [cache EXCEPT ![s] = {}]
    /\ ttl' = [ttl EXCEPT ![s] = 0]
    /\ calm' = [calm EXCEPT ![s] = TTL]
    /\ causes' = [causes EXCEPT ![s] = {}]
    /\ UNCHANGED <<lifecycleVars, readers>>

\* Redis refuses the deletion, or the process dies before it.
LoseInvalidation(s) ==
    /\ Deleted(s)
    /\ causes' = [causes EXCEPT ![s] = IF Cached(s) THEN @ \cup {"lost_deletion"} ELSE @]
    /\ UNCHANGED <<lifecycleVars, redis, readers, calm>>

-------------------------------------------------------------------------------
(* Readers: get_seat_availability *)

Goto(r, step) == at' = [at EXCEPT ![r] = step]

\* The request of r is over.
Done(r) == Goto(r, "idle") /\ read' = [read EXCEPT ![r] = {}]

Ask(r) ==
    /\ at[r] = "idle"
    /\ Goto(r, "lookup")
    /\ UNCHANGED <<lifecycleVars, redis, owed, read, calm, causes>>

\* Faulty variant: a hit renews the time to live.
Hit_Renews(r) ==
    /\ at[r] = "lookup" /\ Cached(Asks[r])
    /\ Done(r)
    /\ ttl' = [ttl EXCEPT ![Asks[r]] = TTL]
    /\ UNCHANGED <<lifecycleVars, cache, owed, calm, causes>>

\* The cached map is the answer.
Hit(r) ==
    /\ at[r] = "lookup" /\ Cached(Asks[r])
    /\ Done(r)
    /\ UNCHANGED <<lifecycleVars, redis, owed, calm, causes>>

\* The key is not there, or Redis does not answer.
Miss(r) ==
    /\ at[r] = "lookup"
    /\ Goto(r, "query")
    /\ UNCHANGED <<lifecycleVars, redis, owed, read, calm, causes>>

\* The schedule is unknown, 404, or its map is read.
Query(r) ==
    /\ at[r] = "query"
    /\ IF Asks[r] \in Schedules
       THEN Goto(r, "fill") /\ read' = [read EXCEPT ![r] = SeatMap[Asks[r]]]
       ELSE Done(r)
    /\ UNCHANGED <<lifecycleVars, redis, owed, calm, causes>>

\* The map read is cached, whatever has happened since, and is the answer.
Fill(r) ==
    LET s == Asks[r]
        late == read[r] # SeatMap[s]
    IN  /\ at[r] = "fill"
        /\ Done(r)
        /\ cache' = [cache EXCEPT ![s] = read[r]]
        /\ ttl' = [ttl EXCEPT ![s] = TTL]
        /\ calm' = [calm EXCEPT ![s] = IF late THEN 0 ELSE TTL]
        /\ causes' = [causes EXCEPT ![s] = IF late THEN {"late_fill"} ELSE {}]
        /\ UNCHANGED <<lifecycleVars, owed>>

\* Redis refuses the fill, or the request dies.
GiveUp(r) ==
    /\ at[r] # "idle"
    /\ Done(r)
    /\ UNCHANGED <<lifecycleVars, redis, owed, calm, causes>>

-------------------------------------------------------------------------------
(* Time, Redis, and the whole *)

\* Redis restarts, and keeps nothing on disk.
RedisRestart ==
    /\ cache' = [s \in Schedules |-> {}]
    /\ ttl' = [s \in Schedules |-> 0]
    /\ calm' = [s \in Schedules |-> TTL]
    /\ causes' = [s \in Schedules |-> {}]
    /\ UNCHANGED <<lifecycleVars, readers, owed>>

Tick ==
    /\ ttl' = [s \in Schedules |-> IF ttl[s] = 0 THEN 0 ELSE ttl[s] - 1]
    /\ cache' = [s \in Schedules |-> IF ttl[s] > 1 THEN cache[s] ELSE {}]
    /\ causes' = [s \in Schedules |-> IF ttl[s] > 1 THEN causes[s] ELSE {}]
    /\ calm' = [s \in Schedules |-> IF ttl[s] > 1 /\ calm[s] < TTL THEN calm[s] + 1 ELSE TTL]
    /\ UNCHANGED <<lifecycleVars, readers, owed>>

ReaderStep(r) ==
    \/ Ask(r) \/ Hit(r) \/ Miss(r) \/ Query(r) \/ Fill(r) \/ GiveUp(r)

CacheNext ==
    \/ EngineCommit \/ CleanupPass
    \/ \E s \in Schedules : Invalidate(s) \/ LoseInvalidation(s)
    \/ \E r \in Readers : ReaderStep(r)
    \/ RedisRestart \/ Tick

CacheSpec == CacheInit /\ [][CacheNext]_seatVars

\* Time goes on in Redis, whatever else does not.
FairCacheSpec == CacheSpec /\ WF_seatVars(Tick)

-------------------------------------------------------------------------------
(* Properties *)

Outdated == {s \in Schedules : ttl[s] > 0 /\ cache[s] # SeatMap[s]}

\* An outdated map has a bounded life whatever was lost, forgotten or late: TTL
\* after the last change of the map and the last outdated fill none is left.
HealsWithinTTL == \A s \in Outdated : ttl[s] + calm[s] <= TTL

\* The engine's deletions are enough: a cached map is outdated only while one is
\* under way, or if one was lost, or if a reader filled with a map read before
\* a commit, or after a cleanup pass.
StalenessExplained == \A s \in Outdated : owed[s] > 0 \/ causes[s] # {}

\* An outdated map does not stay: it goes, or the tables come to agree with it.
StaleMapsVanish == \A s \in Schedules : s \in Outdated ~> s \notin Outdated

\* "The cache is invalidated after every booking mutation": with no deletion
\* lost and no late fill, an outdated map has a deletion on its way.  Violated:
\* the cleanup task mutates bookings and deletes nothing.
InvalidatedAfterEveryMutation ==
    \A s \in Outdated : causes[s] \subseteq {"cleanup"} => owed[s] > 0
===============================================================================
