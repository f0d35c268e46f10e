------------------------------ MODULE RateLimiter ------------------------------
(***************************************************************************)
(* RateLimiter.check: a sliding window in a Redis sorted set per key.  A   *)
(* call reads its clock, then sends one MULTI/EXEC pipeline that prunes,   *)
(* adds, counts and sets the key to expire; between the two other calls    *)
(* run and time passes.  Any exception lets the request through.           *)
(***************************************************************************)
EXTENDS HostClock, FiniteSets

CONSTANTS
    Calls,      \* calls of check
    Keys,       \* keys of sorted sets
    Limit,      \* Limit[k]: limit of the endpoint of k
    Window,     \* Window[k]: window_seconds of the endpoint of k
    RedisPool,  \* max_connections of the Redis pool
    NoKey       \* a call that has not been made yet

ASSUME LimiterAssumption ==
    /\ Limit \in [Keys -> Nat \ {0}] /\ Window \in [Keys -> Nat \ {0}]
    /\ RedisPool \in Nat /\ MaxTime \in Nat /\ NoKey \notin Keys

VARIABLES
    key,        \* key[c]: the key of call c
    stamp,      \* stamp[c]: the time c has read
    verdict,    \* verdict[c]: "idle", "sent", or how the call ended
    window,     \* window[k]: the members of the sorted set, which are their scores
    lapses,     \* lapses[k]: when the key expires
    ran         \* calls whose pipeline ran since Redis lost its data (history)

sets == <<window, lapses, ran>>
limiterVars == <<now, key, stamp, verdict, sets>>

\* "open": let through without having been counted, or with the count lost.
Verdicts == {"idle", "sent", "allowed", "denied", "open"}

LimiterTypeOK ==
    /\ now \in Nat
    /\ key \in [Calls -> Keys \cup {NoKey}]
    /\ stamp \in [Calls -> Nat]
    /\ verdict \in [Calls -> Verdicts]
    /\ window \in [Keys -> SUBSET Nat]
    /\ lapses \in [Keys -> Nat]
    /\ ran \subseteq Calls

LimiterInit ==
    /\ now \in 0..MaxTime
    /\ key = [c \in Calls |-> NoKey]
    /\ stamp = [c \in Calls |-> 0]
    /\ verdict = [c \in Calls |-> "idle"]
    /\ window = [k \in Keys |-> {}]
    /\ lapses = [k \in Keys |-> 0]
    /\ ran = {}

Return(c, v) == verdict' = [verdict EXCEPT ![c] = v]

\* now = time.time(), and the pipeline is sent over a connection of the pool that
\* the process shares with peers; a pool without a free connection raises.
Check(c, k, peers) ==
    /\ verdict[c] = "idle"
    /\ key' = [key EXCEPT ![c] = k]
    /\ stamp' = [stamp EXCEPT ![c] = now]
    /\ Return(c, IF Cardinality({d \in peers : verdict[d] = "sent"}) < RedisPool
                 THEN "sent" ELSE "open")
    /\ UNCHANGED <<now, sets>>

\* The members of a key that has not expired.
Live(k) == IF now < lapses[k] THEN window[k] ELSE {}

\* Faulty variant: the prune keeps the member that is a window old.
Kept_Boundary(c) ==
    {t \in Live(key[c]) : t + Window[key[c]] >= stamp[c]} \cup {stamp[c]}

\* The set after the prune and the insertion.  Members are named by their
\* score, so two calls at one instant are one member.
Kept(c) == {t \in Live(key[c]) : t + Window[key[c]] > stamp[c]} \cup {stamp[c]}

\* Faulty variant: the key expires a unit early.
Run_ExpiresEarly(c) ==
    /\ window' = [window EXCEPT ![key[c]] = Kept(c)]
    /\ lapses' = [lapses EXCEPT ![key[c]] = now + Window[key[c]] - 1]
    /\ ran' = ran \cup {c}

\* The pipeline runs in Redis, in one step.
Run(c) ==
    /\ window' = [window EXCEPT ![key[c]] = Kept(c)]
    /\ lapses' = [lapses EXCEPT ![key[c]] = now + Window[key[c]]]
    /\ ran' = ran \cup {c}

\* The pipeline runs and its count decides.
Execute(c) ==
    /\ verdict[c] = "sent"
    /\ Run(c)
    /\ Return(c, IF Cardinality(Kept(c)) > Limit[key[c]] THEN "denied" ELSE "allowed")
    /\ UNCHANGED <<now, key, stamp>>

\* Redis does not answer: the pipeline has run or not, the request passes.
FailOpen(c) ==
    /\ verdict[c] = "sent"
    /\ Run(c) \/ UNCHANGED sets
    /\ Return(c, "open")
    /\ UNCHANGED <<now, key, stamp>>

\* Redis restarts, and keeps nothing on disk.
RedisRestart ==
    /\ window' = [k \in Keys |-> {}]
    /\ lapses' = [k \in Keys |-> 0]
    /\ ran' = {}
    /\ UNCHANGED <<now, key, stamp, verdict>>

Wait == Tick /\ UNCHANGED <<key, stamp, verdict, sets>>

LimiterNext ==
    \/ \E c \in Calls :
        \/ \E k \in Keys, peers \in SUBSET Calls : Check(c, k, peers)
        \/ Execute(c) \/ FailOpen(c)
    \/ RedisRestart \/ Wait

LimiterSpec == LimiterInit /\ [][LimiterNext]_limiterVars

-------------------------------------------------------------------------------
(* Properties *)

\* The instants, within the last window, of the calls that Redis has counted.
Recent(k) == {stamp[c] : c \in {x \in ran : key[x] = k /\ now < stamp[x] + Window[k]}}

\* When a call is admitted by its count, the counted calls of the last window,
\* refused ones included, stand at no more than Limit instants: the bound
\* survives clocks read out of order and keys that expire.  It is one of instants
\* and of counted calls: the code takes calls at one instant for one, and calls
\* that Redis failed to count are let through beyond it.
AdmitsAtMostLimit ==
    [][\A c \in Calls : verdict[c] = "sent" /\ verdict'[c] = "allowed" =>
            Cardinality(Recent(key[c])') <= Limit[key[c]]]_limiterVars

\* Instants of other calls of the key in the window before call c.
Before(c) ==
    {stamp[d] : d \in {x \in ran : /\ key[x] = key[c] /\ stamp[x] # stamp[c]
                                   /\ stamp[c] < stamp[x] + Window[key[c]]}}

\* "Retry-After: seconds until the next request is allowed": only Limit other
\* instants within the window are a reason to refuse, so a key that is not used for
\* a window after its last call, refused or not, is not refused again.  It is a
\* client's own key for bookings and payments; behind /auth it is an address's, and
\* all who call from there have to wait.
RetryAfterHonoured ==
    [][\A c \in Calls : verdict[c] = "sent" /\ verdict'[c] = "denied" =>
            Cardinality(Before(c)) >= Limit[key[c]]]_limiterVars
===============================================================================
