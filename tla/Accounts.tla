-------------------------------- MODULE Accounts --------------------------------
(***************************************************************************)
(* What a request passes on its way to a handler, in the worker process    *)
(* that serves it: the rate limit, the token, the user's row, the role;    *)
(* and the handlers of /auth.  Workers start, seed and die around them.    *)
(* The handlers of bookings and payments begin where a call is "served".   *)
(***************************************************************************)
EXTENDS Startup, RateLimiter

CONSTANTS
    Hosts,          \* addresses the clients call from
    Passwords, NoLogin,     \* NoLogin: the hash of the system user
    Admins,         \* accounts seeded with the role admin
    AccessTTL, RefreshTTL,  \* lifetimes of the tokens
    NoCall

ASSUME AccountsAssumption ==
    /\ \A e \in DOMAIN SeedUsers : SeedUsers[e] \in Passwords \cup {NoLogin}
    /\ Admins \subseteq DOMAIN SeedUsers /\ NoUser \notin Passwords \cup {NoLogin}
    /\ ({"auth"} \X Hosts) \cup ({"book", "pay"} \X Emails) \subseteq Keys
    /\ AccessTTL \in Nat /\ RefreshTTL \in Nat /\ AccessTTL <= RefreshTTL

VARIABLES
    call,       \* call[c]: what the client sent, and the worker that got it
    at,         \* at[c]: the await of the handler, or the outcome
    tokens,     \* tokens that have been issued
    granted     \* granted[e]: when tokens of e were last issued (history)

accountVars == <<startupVars, limiterVars, call, at, tokens, granted>>

Entries == [route : {"register", "login"}, worker : Workers, host : Hosts,
            email : Emails, password : Passwords]
Bearers == [route : {"refresh", "me", "admin", "book", "pay"}, worker : Workers,
            host : Hosts, token : tokens]
Outcomes == {"limited", "refused", "forbidden", "conflict", "error", "lost",
             "granted", "served"}

AccountsTypeOK ==
    /\ LimiterTypeOK
    /\ schema \in BOOLEAN /\ trains \in BOOLEAN /\ crashes \in 0..MaxCrashes
    /\ users \in [Emails -> Passwords \cup {NoLogin, NoUser}]
    /\ stage \in [Workers -> Stages]
    /\ tokens \subseteq [user : Emails, type : {"access", "refresh"}, exp : Nat]
    /\ call \in [Calls -> Entries \cup Bearers \cup {NoCall}]
    /\ at \in [Calls -> Outcomes \cup {"new", "limit", "lookup", "commit", "refresh"}]
    /\ granted \in [Emails -> Nat]

AccountsInit ==
    /\ StartupInit /\ LimiterInit
    /\ call = [c \in Calls |-> NoCall] /\ at = [c \in Calls |-> "new"]
    /\ tokens = {} /\ granted = [e \in Emails |-> 0]

Move(c, a) == at' = [at EXCEPT ![c] = a]
Peers(w) == {d \in Calls : at[d] \notin {"new", "lost"} /\ call[d].worker = w}

\* Faulty variant: the type of the token is not looked at.
Valid_AnyType(t, type) == now < t.exp

\* jwt.decode and the check of the type.
Valid(t, type) == t.type = type /\ now < t.exp

\* Faulty variant: the access token is stamped with a time before now.
Issue_Backwards(c, e) ==
    /\ tokens' = tokens \cup {[user |-> e, type |-> "access", exp |-> now - AccessTTL],
                              [user |-> e, type |-> "refresh", exp |-> now + RefreshTTL]}
    /\ granted' = [granted EXCEPT ![e] = now]
    /\ Move(c, "granted")

\* create_access_token and create_refresh_token, and the answer of the request.
Issue(c, e) ==
    /\ tokens' = tokens \cup {[user |-> e, type |-> "access", exp |-> now + AccessTTL],
                              [user |-> e, type |-> "refresh", exp |-> now + RefreshTTL]}
    /\ granted' = [granted EXCEPT ![e] = now]
    /\ Move(c, "granted")

\* Where a call goes on that the rate limit lets through.
Admitted(c) ==
    CASE call'[c].route \in {"register", "login"} -> "lookup"
      [] call'[c].route = "refresh" ->
            IF Valid(call'[c].token, "refresh") THEN "lookup" ELSE "refused"
      [] OTHER -> "served"

\* The limiter is asked, or its connection pool is empty and the call goes on.
Ask(c, k, w) ==
    /\ Check(c, k, Peers(w))
    /\ Move(c, IF verdict'[c] = "sent" THEN "limit" ELSE Admitted(c))

\* A request reaches a worker: /auth asks the limiter, the rest reads the token.
Arrive(c, f) ==
    /\ at[c] = "new" /\ stage[f.worker] = "up"
    /\ call' = [call EXCEPT ![c] = f]
    /\ IF f.route \in {"register", "login", "refresh"}
       THEN Ask(c, <<"auth", f.host>>, f.worker)
       ELSE /\ Move(c, IF Valid(f.token, "access") THEN "lookup" ELSE "refused")
            /\ UNCHANGED limiterVars
    /\ UNCHANGED <<startupVars, tokens, granted>>

\* The limiter's answer.
LimitAnswer(c) ==
    /\ at[c] = "limit"
    /\ Execute(c) \/ FailOpen(c)
    /\ UNCHANGED <<startupVars, call, tokens, granted>>
    /\ Move(c, IF verdict'[c] = "denied" THEN "limited" ELSE Admitted(c))

\* register_user: the address is taken, or the row is inserted.
RegisterLookup(c) ==
    /\ at[c] = "lookup" /\ call[c].route = "register"
    /\ Move(c, IF users[call[c].email] # NoUser THEN "conflict" ELSE "commit")
    /\ UNCHANGED <<startupVars, limiterVars, call, tokens, granted>>

\* Faulty variant: the column email is not unique.
RegisterCommit_NotUnique(c) ==
    /\ at[c] = "commit"
    /\ users' = [users EXCEPT ![call[c].email] = call[c].password]
    /\ Move(c, "refresh")
    /\ UNCHANGED <<schema, trains, stage, crashes, limiterVars, call, tokens, granted>>

\* session.commit(): the unique constraint refuses what came in between.
RegisterCommit(c) ==
    /\ at[c] = "commit"
    /\ LET e == call[c].email IN
       \/ /\ users[e] = NoUser
          /\ users' = [users EXCEPT ![e] = call[c].password]
          /\ Move(c, "refresh")
       \/ users[e] # NoUser /\ Move(c, "error") /\ UNCHANGED users
    /\ UNCHANGED <<schema, trains, stage, crashes, limiterVars, call, tokens, granted>>

\* session.refresh(user), and the tokens.
RegisterAnswer(c) ==
    /\ at[c] = "refresh"
    /\ Issue(c, call[c].email)
    /\ UNCHANGED <<startupVars, limiterVars, call>>

\* authenticate_user: bcrypt raises on a hash that is none.
Login(c) ==
    /\ at[c] = "lookup" /\ call[c].route = "login"
    /\ LET hash == users[call[c].email] IN
       \/ hash = call[c].password /\ Issue(c, call[c].email)
       \/ /\ hash # call[c].password
          /\ Move(c, IF hash = NoLogin THEN "error" ELSE "refused")
          /\ UNCHANGED <<tokens, granted>>
    /\ UNCHANGED <<startupVars, limiterVars, call>>

\* get_user_by_id with the subject of a token, and what follows it.
UserLookup(c) ==
    /\ at[c] = "lookup" /\ call[c] \in Bearers
    /\ LET e == call[c].token.user
           r == call[c].route
       IN \/ /\ users[e] = NoUser /\ Move(c, "refused")
             /\ UNCHANGED <<limiterVars, tokens, granted>>
          \/ /\ users[e] # NoUser /\ r = "refresh"
             /\ Issue(c, e) /\ UNCHANGED limiterVars
          \/ /\ users[e] # NoUser /\ r \in {"me", "admin"}
             /\ Move(c, IF r = "me" \/ e \in Admins THEN "served" ELSE "forbidden")
             /\ UNCHANGED <<limiterVars, tokens, granted>>
          \/ /\ users[e] # NoUser /\ r \in {"book", "pay"}
             /\ Ask(c, <<r, e>>, call[c].worker) /\ UNCHANGED <<tokens, granted>>
    /\ UNCHANGED <<startupVars, call>>

\* A worker dies with its requests; a pipeline it has sent may still run.
WorkerDies(w) ==
    /\ Die(w)
    /\ at' = [c \in Calls |-> IF c \in Peers(w) /\ at[c] \notin Outcomes THEN "lost"
                              ELSE at[c]]
    /\ UNCHANGED <<limiterVars, call, tokens, granted>>

LatePipeline(c) ==
    /\ at[c] = "lost" /\ FailOpen(c)
    /\ UNCHANGED <<startupVars, call, at, tokens, granted>>

Starting ==
    /\ Migrate \/ \E w \in Workers : StartStep(w)
    /\ UNCHANGED <<limiterVars, call, at, tokens, granted>>

\* Time passes, or Redis loses its data.
Surroundings ==
    /\ Wait \/ RedisRestart
    /\ UNCHANGED <<startupVars, call, at, tokens, granted>>

AccountsNext ==
    \/ Starting \/ Surroundings
    \/ \E w \in Workers : WorkerDies(w)
    \/ \E c \in Calls :
        \/ \E f \in Entries \cup Bearers : Arrive(c, f)
        \/ LimitAnswer(c) \/ RegisterLookup(c) \/ RegisterCommit(c) \/ RegisterAnswer(c)
        \/ Login(c) \/ UserLookup(c) \/ LatePipeline(c)

AccountsSpec == AccountsInit /\ [][AccountsNext]_accountVars

-------------------------------------------------------------------------------
(* Properties *)

\* The call has inserted its account and is answered with tokens, unless it is lost.
Registered(c) == at[c] \in {"refresh", "granted"} /\ call[c].route = "register"

\* Of the registrations of one address, whatever their order, and however the
\* seeding of other workers runs beside them, at most one is answered with tokens,
\* and the password it was made with stays the password of the account.
RegistrationsLast ==
    \A c \in Calls : Registered(c) =>
        /\ users[call[c].email] = call[c].password
        /\ \A d \in Calls : Registered(d) /\ call[d].email = call[c].email => d = c

\* A token opens a session for as long as its type says after the last tokens of the
\* user were issued: nothing but a refresh or a login prolongs it, and a refresh
\* token does not serve in the place of an access token.
SessionsLapse ==
    [][\A c \in Calls : at'[c] = "lookup" /\ at[c] # "lookup" /\ call'[c] \in Bearers =>
            now < granted[call'[c].token.user]
                    + (IF call'[c].route = "refresh" THEN RefreshTTL ELSE AccessTTL)]_accountVars
===============================================================================
