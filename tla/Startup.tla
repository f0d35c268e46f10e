-------------------------------- MODULE Startup --------------------------------
(***************************************************************************)
(* The start of the server: the migration creates the tables, and every    *)
(* worker process seeds them, if it finds no train, before it serves.      *)
(* Workers start together, die and are started again.                      *)
(***************************************************************************)
EXTENDS Naturals

CONSTANTS
    Workers,        \* processes of uvicorn --workers
    Emails,         \* addresses of accounts
    SeedUsers,      \* SeedUsers[e]: password of a seeded account
    NoUser,         \* no row in table users has the address
    MaxCrashes      \* bound of the number of deaths

ASSUME StartupAssumption ==
    /\ DOMAIN SeedUsers \subseteq Emails /\ DOMAIN SeedUsers # {}
    /\ \A e \in DOMAIN SeedUsers : SeedUsers[e] # NoUser
    /\ MaxCrashes \in Nat

VARIABLES
    schema,         \* the migration has run
    trains,         \* the trains, compartments, seats and schedules are there
    users,          \* users[e]: what the password of e is checked against
    stage,          \* stage[w]: where worker w is in lifespan
    crashes         \* deaths so far, of MaxCrashes

startupVars == <<schema, trains, users, stage, crashes>>

Stages == {"down", "check", "insert", "pending", "up", "failed"}

SeedRows == [e \in Emails |-> IF e \in DOMAIN SeedUsers THEN SeedUsers[e] ELSE users[e]]
Seeded == \E e \in DOMAIN SeedUsers : users[e] # NoUser

\* The volume of the database is new, or has been seeded by an earlier deployment.
StartupInit ==
    /\ trains \in BOOLEAN /\ schema = trains
    /\ users = [e \in Emails |-> IF trains /\ e \in DOMAIN SeedUsers THEN SeedUsers[e]
                                ELSE NoUser]
    /\ stage = [w \in Workers |-> "down"]
    /\ crashes \in 0..MaxCrashes

Enter(w, s) == stage' = [stage EXCEPT ![w] = s]

\* upgrade(): the tables and their constraints, in one transaction.
Migrate ==
    /\ ~schema /\ schema' = TRUE
    /\ UNCHANGED <<trains, users, stage, crashes>>

\* A worker starts, or is started again, and reaches the database.
Boot(w) ==
    /\ stage[w] \in {"down", "failed"}
    /\ Enter(w, "check")
    /\ UNCHANGED <<schema, trains, users, crashes>>

\* SELECT a train: without tables an exception, with a train nothing to do.
SeedCheck(w) ==
    /\ stage[w] = "check"
    /\ Enter(w, IF ~schema THEN "failed" ELSE IF trains THEN "up" ELSE "insert")
    /\ UNCHANGED <<schema, trains, users, crashes>>

\* The first flush inserts the users and a train.  It waits for a worker that
\* has inserted the same unique values, and fails on committed ones.
SeedFlush(w) ==
    /\ stage[w] = "insert"
    /\ \A v \in Workers : stage[v] # "pending"
    /\ Enter(w, IF Seeded THEN "failed" ELSE "pending")
    /\ UNCHANGED <<schema, trains, users, crashes>>

\* Faulty variant: the users have a transaction of their own, after the trains.
SeedCommit_InParts(w) ==
    /\ stage[w] = "pending"
    /\ \/ ~trains /\ trains' = TRUE /\ UNCHANGED <<stage, users>>
       \/ trains /\ users' = SeedRows /\ Enter(w, "up") /\ UNCHANGED trains
    /\ UNCHANGED <<schema, crashes>>

\* The rest of seed_database and its only commit; then the worker serves.
SeedCommit(w) ==
    /\ stage[w] = "pending"
    /\ users' = SeedRows
    /\ trains' = TRUE
    /\ Enter(w, "up")
    /\ UNCHANGED <<schema, crashes>>

\* A worker dies or is shut down; what it has not committed is rolled back.
Die(w) ==
    /\ stage[w] # "down" /\ crashes < MaxCrashes
    /\ crashes' = crashes + 1
    /\ Enter(w, "down")
    /\ UNCHANGED <<schema, trains, users>>

StartStep(w) == Boot(w) \/ SeedCheck(w) \/ SeedFlush(w) \/ SeedCommit(w)

\* A worker that serves finds the trains and the seeded accounts, the system
\* user of the cleanup task's audit entries among them.
ServingImpliesSeeded ==
    \A w \in Workers : stage[w] = "up" =>
        trains /\ \A e \in DOMAIN SeedUsers : users[e] = SeedUsers[e]

\* The seeding is all there or not begun, wherever its worker dies: a missing train,
\* which is all the check looks at, means that inserting the users will not fail.
SeedIsWhole == ~trains <=> ~Seeded
===============================================================================
