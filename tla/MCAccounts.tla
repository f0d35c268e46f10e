------------------------------- MODULE MCAccounts -------------------------------
(***************************************************************************)
(* An instance of Accounts for TLC: the seeded administrator eA, the system *)
(* user eS and an address eN that nobody has registered yet.               *)
(***************************************************************************)
EXTENDS Accounts, TLC

CONSTANTS eA, eS, eN, p1, p2

MCEmails == {eA, eS, eN}
MCSeedUsers == (eA :> p1) @@ (eS :> NoLogin)
MCKeys == ({"auth"} \X Hosts) \cup ({"book", "pay"} \X MCEmails)
MCLimit == [k \in MCKeys |-> 1]
MCWindow == [k \in MCKeys |-> 2]

VARIABLE traffic    \* which of three instances a behaviour belongs to

Made == {c \in Calls : call'[c] # NoCall}

\* "starts": two calls on a new database, on workers that race and die; the clock
\* stands.  "clients": two calls, of any kind, to the one worker of a seeded database,
\* while the clock runs.  "burst": three logins to one worker.
Bounded ==
    \/ traffic = "starts" /\ Cardinality(Made) <= 2
    \/ /\ traffic # "starts"
       /\ Cardinality({w \in Workers : stage'[w] # "down"}) <= 1
       /\ \/ traffic = "clients" /\ Cardinality(Made) <= 2 /\ now' < MaxTime
          \/ traffic = "burst" /\ \A c \in Made : /\ call'[c] \in Entries
                                               /\ call'[c].route = "login"
                                               /\ call'[c].email = eN
                                               /\ call'[c].password = p1

MCInit ==
    /\ AccountsInit
    /\ \/ traffic = "starts" /\ ~trains /\ crashes = 0 /\ now = MaxTime
       \/ traffic \in {"clients", "burst"} /\ trains /\ crashes = MaxCrashes /\ now = 0

MCSpec == MCInit /\ [][AccountsNext /\ Bounded /\ UNCHANGED traffic]_<<accountVars, traffic>>
MCSymmetry == Permutations(Calls) \cup Permutations(Workers)
===============================================================================
