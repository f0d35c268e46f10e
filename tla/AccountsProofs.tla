---------------------------- MODULE AccountsProofs ----------------------------
(***************************************************************************)
(* Theorems about Accounts, for every number of workers, calls, addresses  *)
(* and passwords, every limit and lifetime.                                *)
(***************************************************************************)
EXTENDS Accounts, RateLimiterProofs

USE StartupAssumption, AccountsAssumption, LimiterAssumption

Forms == Entries \cup Bearers

\* The seeding: nothing before its commit, everything after it, one at a time.
SeedInv ==
    /\ trains => \A e \in DOMAIN SeedUsers : users[e] = SeedUsers[e]
    /\ ~trains => /\ \A e \in Emails : users[e] = NoUser
                  /\ \A w \in Workers : stage[w] # "up"
                  /\ \A c \in Calls : at[c] = "new"
    /\ \A w \in Workers : stage[w] = "pending" =>
          ~trains /\ \A v \in Workers : stage[v] = "pending" => v = w

\* A call that has arrived has a form, one that registers the form of a registration.
FormInv ==
    \A c \in Calls :
        /\ at[c] # "new" => call[c] \in Forms
        /\ at[c] \in {"commit", "refresh"} => call[c] \in Entries /\ call[c].route = "register"

TTLOf(type) == IF type = "refresh" THEN RefreshTTL ELSE AccessTTL

\* No token outlives the last grant of its user by more than its lifetime.
SessionInv ==
    /\ \A e \in Emails : granted[e] <= now
    /\ \A t \in tokens : t.exp <= granted[t.user] + TTLOf(t.type)

AccountsInv ==
    LimiterInv /\ AccountsTypeOK /\ SeedInv /\ FormInv /\ SessionInv /\ RegistrationsLast

\* No request has been sent; the volume is new or seeded.
LEMMA AccountsInitially == AccountsInit => AccountsInv
<1> SUFFICES ASSUME AccountsInit PROVE AccountsInv
  OBVIOUS
<1>1. LimiterInv /\ LimiterTypeOK
  BY LimiterInitially DEF AccountsInit, LimiterInv
<1>2. now \in Nat
  BY <1>1 DEF LimiterTypeOK
<1>3. AccountsTypeOK
  BY <1>1 DEF AccountsInit, AccountsTypeOK, StartupInit, Stages
<1>4. SeedInv /\ FormInv /\ RegistrationsLast
  BY DEF AccountsInit, StartupInit, SeedInv, FormInv, Registered, RegistrationsLast
<1>5. SessionInv
  BY <1>2 DEF AccountsInit, SessionInv
<1> QED
  BY <1>1, <1>3, <1>4, <1>5 DEF AccountsInv

-------------------------------------------------------------------------------
(* The limiter inside *)

\* A token names an account, and a call a host, an address or a token.
LEMMA FormTypes ==
    ASSUME AccountsTypeOK, NEW f \in Forms
    PROVE  /\ f.worker \in Workers /\ f.host \in Hosts
           /\ f \in Entries => /\ f.email \in Emails /\ f.password \in Passwords
                               /\ f.route \in {"register", "login"}
           /\ f \in Bearers => /\ f.token \in tokens /\ f.token.user \in Emails
                               /\ f.token.exp \in Nat
                               /\ f.route \in {"refresh", "me", "admin", "book", "pay"}
BY DEF Forms, Entries, Bearers, AccountsTypeOK

\* Every step of the service is a step of the limiter or none.
LEMMA LimiterStep ==
    AccountsInv /\ [AccountsNext]_accountVars => [LimiterNext]_limiterVars
<1> SUFFICES ASSUME AccountsInv, [AccountsNext]_accountVars PROVE [LimiterNext]_limiterVars
  OBVIOUS
<1> USE DEF AccountsInv
<1>1. ASSUME NEW c \in Calls, NEW k \in Keys, NEW w \in Workers, Ask(c, k, w)
      PROVE  LimiterNext
  <2>1. Peers(w) \in SUBSET Calls
    BY DEF Peers
  <2> QED
    BY <1>1, <2>1 DEF Ask, LimiterNext
<1>2. ASSUME NEW c \in Calls, NEW f \in Forms, Arrive(c, f)
      PROVE  [LimiterNext]_limiterVars
  <2>1. CASE f.route \in {"register", "login", "refresh"}
    <3>1. <<"auth", f.host>> \in Keys /\ f.worker \in Workers
      BY FormTypes
    <3> QED
      BY <1>1, <1>2, <2>1, <3>1 DEF Arrive
  <2>2. CASE f.route \notin {"register", "login", "refresh"}
    BY <1>2, <2>2 DEF Arrive
  <2> QED
    BY <2>1, <2>2
<1>3. ASSUME NEW c \in Calls, LimitAnswer(c) PROVE LimiterNext
  BY <1>3 DEF LimitAnswer, LimiterNext
<1>4. ASSUME NEW c \in Calls, UserLookup(c) PROVE [LimiterNext]_limiterVars
  <2>1. call[c] \in Forms /\ call[c] \in Bearers
    BY <1>4 DEF UserLookup, Forms
  <2>2. call[c].token.user \in Emails /\ call[c].worker \in Workers
    BY <2>1, FormTypes
  <2>3. \A r \in {"book", "pay"} : <<r, call[c].token.user>> \in Keys
    BY <2>2
  <2> QED
    BY <1>1, <1>4, <2>2, <2>3 DEF UserLookup
<1>5. ASSUME NEW c \in Calls, LatePipeline(c) PROVE LimiterNext
  BY <1>5 DEF LatePipeline, LimiterNext
<1>6. ASSUME Surroundings PROVE LimiterNext
  BY <1>6 DEF Surroundings, LimiterNext
<1>7. CASE Starting \/ \E w \in Workers : WorkerDies(w)
  BY <1>7 DEF Starting, WorkerDies
<1>8. ASSUME NEW c \in Calls,
             RegisterLookup(c) \/ RegisterCommit(c) \/ RegisterAnswer(c) \/ Login(c)
      PROVE  UNCHANGED limiterVars
  BY <1>8 DEF RegisterLookup, RegisterCommit, RegisterAnswer, Login
<1>9. CASE UNCHANGED accountVars
  BY <1>9 DEF accountVars
<1> QED
  BY <1>2, <1>3, <1>4, <1>5, <1>6, <1>7, <1>8, <1>9 DEF AccountsNext, Forms

-------------------------------------------------------------------------------
(* The invariant *)

\* Where the limiter sends a call.
LEMMA AdmittedTypes ==
    \A c \in Calls :
        /\ Admitted(c) \in {"lookup", "refused", "served"}
        /\ Admitted(c) = "lookup" /\ call'[c].route \in {"refresh", "me", "admin", "book", "pay"}
              => call'[c].route = "refresh" /\ Valid(call'[c].token, "refresh")
BY DEF Admitted

\* What a call may become without anything else changing, or the tokens.
Passing == {"limit", "lookup"} \cup (Outcomes \ {"granted"})

\* A call moves on, and only the limiter's variables change beside it.
LEMMA MoveKeeps ==
    ASSUME AccountsInv, LimiterInv', NEW c \in Calls, NEW a \in Passing, Move(c, a),
           at[c] # "new", UNCHANGED <<startupVars, call, tokens, granted, now>>
    PROVE  AccountsInv'
<1> USE DEF AccountsInv
<1>0. Bearers' = Bearers
  BY DEF Bearers
<1>1. AccountsTypeOK'
  <2>1. at' \in [Calls -> Outcomes \cup {"new", "limit", "lookup", "commit", "refresh"}]
    BY DEF AccountsTypeOK, Move, Passing
  <2> QED
    BY <1>0, <2>1 DEF AccountsTypeOK, LimiterInv, startupVars
<1>2. SeedInv'
  BY DEF SeedInv, Move, startupVars, AccountsTypeOK
<1>3. FormInv'
  BY <1>0 DEF FormInv, Forms, Entries, Move, AccountsTypeOK, Passing, Outcomes
<1>4. SessionInv'
  BY DEF SessionInv
<1>5. RegistrationsLast'
  BY DEF Registered, RegistrationsLast, Move, AccountsTypeOK, Passing, Outcomes, startupVars
<1> QED
  BY <1>1, <1>2, <1>3, <1>4, <1>5

\* Tokens are granted; a registration among them has inserted its row.
LEMMA IssueKeeps ==
    ASSUME AccountsInv, LimiterInv', NEW c \in Calls, NEW e \in Emails, Issue(c, e),
           at[c] # "new", call[c].route = "register" => at[c] = "refresh",
           UNCHANGED <<startupVars, call, now>>
    PROVE  AccountsInv'
<1> USE DEF AccountsInv
<1>1. /\ now \in Nat /\ AccessTTL \in Nat /\ RefreshTTL \in Nat
      /\ now + AccessTTL \in Nat /\ now + RefreshTTL \in Nat
  BY DEF LimiterInv, LimiterTypeOK
<1>2. tokens' \subseteq [user : Emails, type : {"access", "refresh"}, exp : Nat]
  BY <1>1 DEF AccountsTypeOK, Issue
<1>3. Bearers \subseteq Bearers'
  BY DEF Bearers, Issue
<1>4. AccountsTypeOK'
  BY <1>1, <1>2, <1>3 DEF AccountsTypeOK, LimiterInv, Issue, Move, Outcomes, startupVars, Entries
<1>5. SeedInv'
  BY DEF SeedInv, Issue, Move, startupVars, AccountsTypeOK
<1>6. FormInv'
  BY <1>3 DEF FormInv, Forms, Issue, Move, AccountsTypeOK, Entries
<1>7. SessionInv'
  <2>1. \A x \in Emails : granted'[x] <= now' /\ granted[x] <= granted'[x]
    BY <1>1 DEF SessionInv, Issue, AccountsTypeOK
  <2>2. ASSUME NEW t \in tokens
        PROVE  t.exp <= granted'[t.user] + TTLOf(t.type)
    <3>1. t.user \in Emails /\ t.exp \in Nat /\ t.exp <= granted[t.user] + TTLOf(t.type)
      BY DEF AccountsTypeOK, SessionInv
    <3>2. /\ granted[t.user] \in Nat /\ granted'[t.user] \in Nat
          /\ granted[t.user] <= granted'[t.user] /\ TTLOf(t.type) \in Nat
      BY <1>1, <2>1, <3>1, <1>4 DEF AccountsTypeOK, TTLOf
    <3> QED
      BY <3>1, <3>2
  <2>3. granted'[e] = now
    BY DEF Issue, AccountsTypeOK
  <2>4. ASSUME NEW t \in tokens' \ tokens
        PROVE  t.exp <= granted'[t.user] + TTLOf(t.type)
    BY <1>1, <2>3 DEF Issue, TTLOf
  <2> QED
    BY <2>1, <2>2, <2>4 DEF SessionInv
<1>8. RegistrationsLast'
  BY DEF Registered, RegistrationsLast, Issue, Move, AccountsTypeOK, startupVars
<1> QED
  BY <1>4, <1>5, <1>6, <1>7, <1>8

\* A worker on its way through lifespan: the tables change by the one commit.
LEMMA StartKeeps ==
    ASSUME AccountsInv, LimiterInv', Starting PROVE AccountsInv'
<1> USE DEF AccountsInv
<1>0. UNCHANGED <<call, at, tokens, granted, now>> /\ Bearers' = Bearers
  BY DEF Starting, Bearers, limiterVars
<1>1. FormInv' /\ SessionInv'
  BY <1>0 DEF FormInv, SessionInv, Forms, Entries
<1>2. CASE Migrate
  BY <1>0, <1>1, <1>2 DEF Migrate, AccountsTypeOK, LimiterInv, SeedInv, Registered, RegistrationsLast
<1>3. ASSUME NEW w \in Workers, Boot(w) \/ SeedCheck(w) \/ SeedFlush(w)
      PROVE  AccountsInv'
  <2>1. PICK s \in {"check", "failed", "up", "insert", "pending"} :
            /\ Enter(w, s) /\ (s = "up" => trains) /\ (s = "pending" => SeedFlush(w) /\ ~Seeded)
    BY <1>3 DEF Boot, SeedCheck, SeedFlush
  <2>2. UNCHANGED <<trains, users, crashes>> /\ schema' = schema
    BY <1>3 DEF Boot, SeedCheck, SeedFlush
  <2>3. ~Seeded => ~trains
    BY DEF SeedInv, Seeded
  <2>4. AccountsTypeOK' /\ RegistrationsLast'
    BY <1>0, <2>1, <2>2 DEF AccountsTypeOK, LimiterInv, Enter, Stages, Registered, RegistrationsLast
  <2>5. SeedInv'
    BY <1>0, <2>1, <2>2, <2>3 DEF SeedInv, Enter, AccountsTypeOK, SeedFlush
  <2> QED
    BY <1>1, <2>4, <2>5
<1>4. ASSUME NEW w \in Workers, SeedCommit(w)
      PROVE  AccountsInv'
  <2>1. ~trains /\ trains' = TRUE /\ users' = SeedRows /\ UNCHANGED <<schema, crashes>>
        /\ Enter(w, "up")
    BY <1>4 DEF SeedCommit, SeedInv
  <2>2. \A c \in Calls : at'[c] = "new"
    BY <1>0, <2>1 DEF SeedInv
  <2>3. \A e \in Emails : users'[e] \in Passwords \cup {NoLogin, NoUser}
    BY <2>1 DEF SeedRows, AccountsTypeOK
  <2>4. \A e \in DOMAIN SeedUsers : users'[e] = SeedUsers[e]
    BY <2>1 DEF SeedRows
  <2>5. users' = [e \in Emails |-> users'[e]]
    BY <2>1 DEF SeedRows
  <2>6. AccountsTypeOK'
    BY <1>0, <2>1, <2>3, <2>5 DEF AccountsTypeOK, LimiterInv, Enter, Stages
  <2>7. \A v \in Workers : stage'[v] # "pending"
    BY <1>4, <2>1 DEF SeedCommit, SeedInv, Enter, AccountsTypeOK
  <2>8. SeedInv' /\ RegistrationsLast'
    BY <2>1, <2>2, <2>4, <2>7 DEF SeedInv, Registered, RegistrationsLast
  <2> QED
    BY <1>1, <2>6, <2>8
<1> QED
  BY <1>2, <1>3, <1>4 DEF Starting, StartStep

\* A request arrives.
LEMMA ArriveKeeps ==
    ASSUME AccountsInv, LimiterInv', NEW c \in Calls, NEW f \in Forms, Arrive(c, f)
    PROVE  AccountsInv'
<1> USE DEF AccountsInv
<1>1. /\ call' = [call EXCEPT ![c] = f] /\ at[c] = "new"
      /\ UNCHANGED <<startupVars, tokens, granted>>
  BY DEF Arrive
<1>2. PICK a \in {"limit", "lookup", "refused", "served"} : Move(c, a)
  BY AdmittedTypes DEF Arrive, Ask
<1>3. UNCHANGED now
  BY DEF Arrive, Ask, Check, limiterVars
<1>4. Bearers' = Bearers /\ trains
  <2>1. f.worker \in Workers /\ stage[f.worker] = "up"
    BY FormTypes DEF Arrive
  <2>2. trains
    BY <2>1 DEF SeedInv
  <2>3. Bearers' = Bearers
    BY <1>1 DEF Bearers
  <2> QED
    BY <2>2, <2>3
<1>5. call'[c] = f /\ \A d \in Calls \ {c} : call'[d] = call[d] /\ at'[d] = at[d]
  BY <1>1, <1>2 DEF Move, AccountsTypeOK
<1>6. at'[c] = a
  BY <1>2 DEF Move, AccountsTypeOK
<1>7. AccountsTypeOK'
  <2>1. call' \in [Calls -> Entries \cup Bearers \cup {NoCall}]
    BY <1>1 DEF AccountsTypeOK, Forms
  <2>2. at' \in [Calls -> Outcomes \cup {"new", "limit", "lookup", "commit", "refresh"}]
    BY <1>2 DEF AccountsTypeOK, Move, Outcomes
  <2> QED
    BY <1>1, <1>4, <2>1, <2>2 DEF AccountsTypeOK, LimiterInv, startupVars, Entries
<1>8. SeedInv'
  BY <1>1, <1>4 DEF SeedInv, startupVars
<1>9. FormInv'
  BY <1>4, <1>5, <1>6 DEF FormInv, Forms, Entries
<1>10. SessionInv'
  BY <1>1, <1>3 DEF SessionInv
<1>11. RegistrationsLast'
  BY <1>1, <1>5, <1>6 DEF Registered, RegistrationsLast, startupVars
<1> QED
  BY <1>7, <1>8, <1>9, <1>10, <1>11

\* A registration inserts its row, unless the address has one.
LEMMA RegisterKeeps ==
    ASSUME AccountsInv, LimiterInv', NEW c \in Calls,
           RegisterLookup(c) \/ RegisterCommit(c) \/ RegisterAnswer(c)
    PROVE  AccountsInv'
<1> USE DEF AccountsInv
<1>1. CASE RegisterLookup(c)
  <2>1. UNCHANGED <<startupVars, call, tokens, granted, now>> /\ call[c] \in Forms
        /\ call[c].route = "register" /\ at[c] = "lookup"
    BY <1>1 DEF RegisterLookup, limiterVars, FormInv
  <2>2. CASE Move(c, "conflict")
    BY <2>1, <2>2, MoveKeeps DEF Passing, Outcomes
  <2>3. CASE Move(c, "commit")
    <3>1. call[c] \in Entries /\ Bearers' = Bearers
      BY <2>1, FormTypes DEF Forms, Bearers
    <3>2. AccountsTypeOK'
      <4>1. at' \in [Calls -> Outcomes \cup {"new", "limit", "lookup", "commit", "refresh"}]
        BY <2>3 DEF AccountsTypeOK, Move
      <4> QED
        BY <2>1, <3>1, <4>1 DEF AccountsTypeOK, LimiterInv, startupVars
    <3>3. SeedInv' /\ SessionInv'
      BY <2>1, <2>3 DEF SeedInv, SessionInv, Move, startupVars, AccountsTypeOK
    <3>4. FormInv' /\ RegistrationsLast'
      BY <2>1, <2>3, <3>1
         DEF FormInv, Forms, Entries, Registered, RegistrationsLast, Move, AccountsTypeOK, startupVars
    <3> QED
      BY <3>2, <3>3, <3>4
  <2> QED
    BY <1>1, <2>2, <2>3 DEF RegisterLookup
<1>2. CASE RegisterCommit(c)
  <2>1. /\ UNCHANGED <<schema, trains, stage, crashes, call, tokens, granted, now>>
        /\ at[c] = "commit"
    BY <1>2 DEF RegisterCommit, limiterVars
  <2>2. CASE users' = users /\ Move(c, "error")
    BY <2>1, <2>2, MoveKeeps DEF Passing, Outcomes, startupVars
  <2> DEFINE e == call[c].email
  <2>3. CASE /\ users[e] = NoUser /\ Move(c, "refresh")
             /\ users' = [users EXCEPT ![e] = call[c].password]
    <3>1. call[c] \in Entries /\ call[c] \in Forms /\ Bearers' = Bearers /\ trains
      BY <2>1 DEF FormInv, Forms, Bearers, SeedInv
    <3>2. e \in Emails /\ call[c].password \in Passwords
      BY <3>1, FormTypes
    <3>3. AccountsTypeOK'
      <4>1. /\ at' \in [Calls -> Outcomes \cup {"new", "limit", "lookup", "commit", "refresh"}]
            /\ users' \in [Emails -> Passwords \cup {NoLogin, NoUser}]
        BY <2>3, <3>2 DEF AccountsTypeOK, Move
      <4> QED
        BY <2>1, <3>1, <4>1 DEF AccountsTypeOK, LimiterInv
    <3>4. SeedInv' /\ SessionInv'
      BY <2>1, <2>3, <3>1 DEF SeedInv, SessionInv
    <3>5. FormInv'
      BY <2>1, <2>3, <3>1 DEF FormInv, Forms, Entries, Move, AccountsTypeOK
    <3>6. RegistrationsLast'
      <4> SUFFICES ASSUME NEW d \in Calls, call[d].route = "register", d # c,
                          at[d] \in {"refresh", "granted"}
                   PROVE  users'[call[d].email] = call[d].password
        BY <2>1, <2>3, <3>2 DEF Registered, RegistrationsLast, Move, AccountsTypeOK
      <4>1. users[call[d].email] = call[d].password /\ call[d] \in Forms
        BY DEF Registered, RegistrationsLast, FormInv
      <4>2. call[d].password # NoUser
        BY <4>1, FormTypes DEF Forms
      <4> QED
        BY <2>3, <3>2, <4>1, <4>2 DEF AccountsTypeOK
    <3> QED
      BY <3>3, <3>4, <3>5, <3>6
  <2> QED
    BY <1>2, <2>2, <2>3 DEF RegisterCommit
<1>3. CASE RegisterAnswer(c)
  <2>1. UNCHANGED <<startupVars, call, now>> /\ call[c] \in Entries /\ call[c] \in Forms
        /\ at[c] = "refresh"
    BY <1>3 DEF RegisterAnswer, limiterVars, FormInv, Forms
  <2>2. call[c].email \in Emails
    BY <2>1, FormTypes
  <2> QED
    BY <1>3, <2>1, <2>2, IssueKeeps DEF RegisterAnswer
<1> QED
  BY <1>1, <1>2, <1>3

\* The other answers.
LEMMA AnswerKeeps ==
    ASSUME AccountsInv, LimiterInv', NEW c \in Calls,
           LimitAnswer(c) \/ Login(c) \/ UserLookup(c)
    PROVE  AccountsInv'
<1> USE DEF AccountsInv
<1>1. /\ UNCHANGED <<startupVars, call, now>> /\ at[c] \in {"limit", "lookup"}
      /\ call[c] \in Forms
  BY DEF LimitAnswer, Execute, FailOpen, Login, UserLookup, Ask, Check, limiterVars, FormInv
<1>2. CASE LimitAnswer(c)
  <2>1. PICK a \in Passing : Move(c, a)
    BY <1>2, AdmittedTypes DEF LimitAnswer, Passing, Outcomes
  <2> QED
    BY <1>1, <1>2, <2>1, MoveKeeps DEF LimitAnswer
<1>3. CASE Login(c)
  <2>1. call[c].route = "login" /\ call[c].email \in Emails
    BY <1>1, <1>3, FormTypes DEF Login, Forms
  <2>2. CASE Issue(c, call[c].email)
    BY <1>1, <2>1, <2>2, IssueKeeps
  <2>3. CASE UNCHANGED <<tokens, granted>> /\ \E a \in {"error", "refused"} : Move(c, a)
    BY <1>1, <2>3, MoveKeeps DEF Passing, Outcomes
  <2> QED
    BY <1>3, <2>2, <2>3 DEF Login
<1>4. CASE UserLookup(c)
  <2>1. /\ call[c] \in Bearers /\ call[c].token.user \in Emails
        /\ call[c].route # "register"
    BY <1>1, <1>4, FormTypes DEF UserLookup
  <2>2. CASE Issue(c, call[c].token.user)
    BY <1>1, <2>1, <2>2, IssueKeeps
  <2>3. CASE UNCHANGED <<tokens, granted>> /\ \E a \in Passing : Move(c, a)
    BY <1>1, <2>3, MoveKeeps
  <2>4. {"refused", "served", "forbidden", "limit", "lookup"} \subseteq Passing
    BY DEF Passing, Outcomes
  <2>5. ASSUME UNCHANGED <<tokens, granted>>,
               \/ Move(c, "refused")
               \/ Move(c, IF call[c].route = "me" \/ call[c].token.user \in Admins
                          THEN "served" ELSE "forbidden")
        PROVE  AccountsInv'
    BY <2>3, <2>4, <2>5
  <2>6. ASSUME UNCHANGED <<tokens, granted>>,
               Move(c, IF verdict'[c] = "sent" THEN "limit" ELSE Admitted(c))
        PROVE  AccountsInv'
    BY <2>3, <2>4, <2>6, AdmittedTypes
  <2> QED
    BY <1>4, <2>2, <2>5, <2>6 DEF UserLookup, Ask
<1> QED
  BY <1>2, <1>3, <1>4

\* A worker dies, a pipeline runs late, time passes, Redis forgets.
LEMMA EnvironmentKeeps ==
    ASSUME AccountsInv, LimiterInv',
           \/ \E w \in Workers : WorkerDies(w)
           \/ \E c \in Calls : LatePipeline(c)
           \/ Surroundings
           \/ UNCHANGED accountVars
    PROVE  AccountsInv'
<1> USE DEF AccountsInv
<1>1. ASSUME NEW w \in Workers, WorkerDies(w)
      PROVE  AccountsInv'
  <2>1. /\ UNCHANGED <<schema, trains, users, call, tokens, granted, now>>
        /\ Enter(w, "down") /\ crashes' \in 0 .. MaxCrashes
    BY <1>1 DEF WorkerDies, Die, limiterVars, AccountsTypeOK
  <2>2. \A c \in Calls : at'[c] = at[c] \/ (at'[c] = "lost" /\ at[c] # "new")
    BY <1>1 DEF WorkerDies, Peers
  <2>3. Bearers' = Bearers
    BY <2>1 DEF Bearers
  <2>4. at' \in [Calls -> Outcomes \cup {"new", "limit", "lookup", "commit", "refresh"}]
    BY <1>1 DEF WorkerDies, AccountsTypeOK, Outcomes
  <2>5. AccountsTypeOK'
    BY <2>1, <2>3, <2>4 DEF AccountsTypeOK, LimiterInv, Enter, Stages
  <2>6. SeedInv'
    BY <2>1, <2>2 DEF SeedInv, Enter, AccountsTypeOK
  <2>7. FormInv' /\ RegistrationsLast'
    BY <2>1, <2>2, <2>3 DEF FormInv, Forms, Entries, Registered, RegistrationsLast
  <2>8. SessionInv'
    BY <2>1 DEF SessionInv
  <2> QED
    BY <2>5, <2>6, <2>7, <2>8
<1>2. CASE \/ \E c \in Calls : LatePipeline(c)
           \/ Surroundings
           \/ UNCHANGED accountVars
  <2>1. UNCHANGED <<startupVars, call, at, tokens, granted>>
    BY <1>2 DEF LatePipeline, Surroundings, accountVars
  <2>2. now \in Nat /\ now' \in Nat /\ now <= now'
    BY <1>2 DEF LatePipeline, FailOpen, Surroundings, Wait, Tick, RedisRestart, accountVars,
                limiterVars, LimiterInv, LimiterTypeOK
  <2>3. Bearers' = Bearers
    BY <2>1 DEF Bearers
  <2>4. AccountsTypeOK'
    BY <2>1, <2>3 DEF AccountsTypeOK, LimiterInv, startupVars
  <2>5. SeedInv' /\ FormInv' /\ RegistrationsLast'
    BY <2>1, <2>3 DEF SeedInv, FormInv, Forms, Entries, Registered, RegistrationsLast, startupVars
  <2>6. SessionInv'
    <3>1. \A e \in Emails : granted[e] \in Nat
      BY DEF AccountsTypeOK
    <3> QED
      BY <2>1, <2>2, <3>1 DEF SessionInv
  <2> QED
    BY <2>4, <2>5, <2>6
<1> QED
  BY <1>1, <1>2

\* Every step keeps the invariant of the service.
LEMMA AccountsInductive == AccountsInv /\ [AccountsNext]_accountVars => AccountsInv'
<1> SUFFICES ASSUME AccountsInv, [AccountsNext]_accountVars PROVE AccountsInv'
  OBVIOUS
<1>1. LimiterInv'
  BY LimiterStep, LimiterInductive DEF AccountsInv
<1>2. CASE Starting
  BY <1>1, <1>2, StartKeeps
<1>3. ASSUME NEW c \in Calls, NEW f \in Entries \cup Bearers, Arrive(c, f)
      PROVE  AccountsInv'
  BY <1>1, <1>3, ArriveKeeps DEF Forms
<1>4. ASSUME NEW c \in Calls,
             RegisterLookup(c) \/ RegisterCommit(c) \/ RegisterAnswer(c)
      PROVE  AccountsInv'
  BY <1>1, <1>4, RegisterKeeps
<1>5. ASSUME NEW c \in Calls, LimitAnswer(c) \/ Login(c) \/ UserLookup(c)
      PROVE  AccountsInv'
  BY <1>1, <1>5, AnswerKeeps
<1> QED
  BY <1>1, <1>2, <1>3, <1>4, <1>5, EnvironmentKeeps DEF AccountsNext

\* The invariant of the service: types, seeding, forms of calls, ages of tokens.
THEOREM AccountsInvariance == AccountsSpec => []AccountsInv
<1> QED
  BY AccountsInitially, AccountsInductive, PTL DEF AccountsSpec

-------------------------------------------------------------------------------
(* What follows *)

\* Every variable has its type in every reachable state.
THEOREM AccountsTypes == AccountsSpec => []AccountsTypeOK
<1>1. AccountsInv => AccountsTypeOK
  BY DEF AccountsInv
<1> QED
  BY <1>1, AccountsInvariance, PTL

\* A worker that serves finds the trains and every seeded account.
THEOREM ServingFindsSeed == AccountsSpec => []ServingImpliesSeeded
<1>1. AccountsInv => ServingImpliesSeeded
  BY DEF AccountsInv, SeedInv, ServingImpliesSeeded
<1> QED
  BY <1>1, AccountsInvariance, PTL

\* The seeding of a database is never half done.
THEOREM SeedingIsAtomic == AccountsSpec => []SeedIsWhole
<1>1. AccountsInv => SeedIsWhole
  BY DEF AccountsInv, SeedInv, SeedIsWhole, Seeded
<1> QED
  BY <1>1, AccountsInvariance, PTL

\* The registration that was answered with tokens keeps its account.
THEOREM RegistrationsAreKept == AccountsSpec => []RegistrationsLast
<1>1. AccountsInv => RegistrationsLast
  BY DEF AccountsInv
<1> QED
  BY <1>1, AccountsInvariance, PTL

\* The service uses the limiter as the limiter wants to be used.
THEOREM LimiterInside == AccountsSpec => LimiterSpec
<1>1. AccountsInit => LimiterInit
  BY DEF AccountsInit
<1> QED
  BY <1>1, AccountsInvariance, LimiterStep, PTL DEF AccountsSpec, LimiterSpec

\* So what the limiter promises holds in the service.
THEOREM ServiceIsLimited == AccountsSpec => AdmitsAtMostLimit /\ RetryAfterHonoured
<1> QED
  BY LimiterInside, AdmissionsAreBounded, RefusalsAreEarned, PTL

\* A call passes with a token that has not outlived the last grant of its user.
LEMMA SessionStep ==
    AccountsInv /\ [AccountsNext]_accountVars =>
        \A c \in Calls : at'[c] = "lookup" /\ at[c] # "lookup" /\ call'[c] \in Bearers =>
            now < granted[call'[c].token.user]
                    + (IF call'[c].route = "refresh" THEN RefreshTTL ELSE AccessTTL)
<1> SUFFICES ASSUME AccountsInv, [AccountsNext]_accountVars, NEW c \in Calls,
                    at'[c] = "lookup", at[c] # "lookup", call'[c] \in Bearers
             PROVE  now < granted[call'[c].token.user]
                        + (IF call'[c].route = "refresh" THEN RefreshTTL ELSE AccessTTL)
  OBVIOUS
<1> USE DEF AccountsInv
<1> DEFINE t == call'[c].token
           type == IF call'[c].route = "refresh" THEN "refresh" ELSE "access"
<1>1. Valid(t, type)
  <2>1. call'[c].route \in {"refresh", "me", "admin", "book", "pay"}
    BY DEF Bearers
  <2>2. Admitted(c) = "lookup" => Valid(t, type)
    BY <2>1, AdmittedTypes
  <2>3. ASSUME NEW f \in Forms, Arrive(c, f)
        PROVE  Valid(t, type)
    <3>1. call'[c] = f
      BY <2>3 DEF Arrive, AccountsTypeOK
    <3>2. CASE f.route \in {"register", "login", "refresh"}
      <4>1. Ask(c, <<"auth", f.host>>, f.worker)
        BY <2>3, <3>2 DEF Arrive
      <4>2. Admitted(c) = "lookup"
        BY <4>1 DEF Ask, Move, AccountsTypeOK
      <4> QED
        BY <2>2, <4>2
    <3>3. CASE f.route \notin {"register", "login", "refresh"}
      <4>1. Move(c, IF Valid(f.token, "access") THEN "lookup" ELSE "refused")
        BY <2>3, <3>3 DEF Arrive
      <4>2. Valid(f.token, "access")
        BY <4>1 DEF Move, AccountsTypeOK
      <4> QED
        BY <3>1, <3>3, <4>2
    <3> QED
      BY <3>2, <3>3
  <2>4. ASSUME LimitAnswer(c) PROVE Valid(t, type)
    <3>1. Admitted(c) = "lookup"
      BY <2>4 DEF LimitAnswer, Move, AccountsTypeOK
    <3> QED
      BY <2>2, <3>1
  <2>5. ASSUME NEW d \in Calls \ {c}
        PROVE  /\ \A f \in Forms : ~Arrive(d, f)
               /\ ~LimitAnswer(d) /\ ~RegisterLookup(d) /\ ~RegisterCommit(d)
               /\ ~RegisterAnswer(d) /\ ~Login(d) /\ ~UserLookup(d)
    <3>1. \A a : ~Move(d, a)
      BY DEF Move, AccountsTypeOK
    <3> QED
      BY <3>1 DEF Arrive, Ask, LimitAnswer, RegisterLookup, RegisterCommit, RegisterAnswer,
                  Login, UserLookup, Issue
  <2>6. /\ ~RegisterLookup(c) /\ ~RegisterCommit(c) /\ ~RegisterAnswer(c)
        /\ ~Login(c) /\ ~UserLookup(c)
    <3>1. \A a : a # "lookup" => ~Move(c, a)
      BY DEF Move, AccountsTypeOK
    <3> QED
      BY <3>1 DEF RegisterLookup, RegisterCommit, RegisterAnswer, Login, UserLookup, Issue
  <2>7. /\ ~Starting /\ ~Surroundings /\ ~UNCHANGED accountVars
        /\ \A d \in Calls : ~LatePipeline(d)
        /\ \A w \in Workers : ~WorkerDies(w)
    BY DEF Starting, Surroundings, accountVars, LatePipeline, WorkerDies
  <2>8. \E f \in Forms : Arrive(c, f) \/ LimitAnswer(c)
    BY <2>5, <2>6, <2>7 DEF AccountsNext, Forms
  <2> QED
    BY <2>3, <2>4, <2>8
<1>2. t \in tokens /\ t.exp \in Nat /\ t.user \in Emails
  BY DEF Bearers, AccountsTypeOK
<1>3. t.exp <= granted[t.user] + TTLOf(t.type) /\ granted[t.user] \in Nat
  BY <1>2 DEF SessionInv, AccountsTypeOK
<1>4. now \in Nat /\ TTLOf(t.type) \in Nat
  BY DEF LimiterInv, LimiterTypeOK, TTLOf
<1> QED
  BY <1>1, <1>2, <1>3, <1>4 DEF Valid, TTLOf

\* No token opens a session later than its lifetime after the last grant.
THEOREM SessionsEnd == AccountsSpec => SessionsLapse
<1> QED
  BY AccountsInvariance, SessionStep, PTL DEF AccountsSpec, SessionsLapse
===============================================================================
