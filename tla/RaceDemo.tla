------------------------------- MODULE RaceDemo -------------------------------
(***************************************************************************)
(* The race demo: POST /demo/race-condition runs create_booking twice at   *)
(* once for one slot, each attempt with a fresh key and a session of its   *)
(* own, without authentication or rate limit, and names a winner.  The     *)
(* attempts are two of the create requests of BookingEngine.               *)
(***************************************************************************)
EXTENDS BookingEngine

\* run_race: two attempts for one slot; uuid4 gives each a key nobody else has.
IsRace(a, b) ==
    /\ a # b /\ Slot(a) = Slot(b)
    /\ \A r \in {a, b} : \A c \in Creates \ {r} : call[c].key # call[r].key

\* _attempt_booking: 201, the status of an HTTPException, or 500.
StatusCode(o) ==
    CASE o \in {"created", "found"} -> 201
      [] o \in {"seat_taken", "overlapping"} -> 409
      [] o = "not_found" -> 404
      [] OTHER -> 500

\* The winner run_race reports.
Winner(a, b) ==
    CASE StatusCode(outcome[a]) = 201 /\ StatusCode(outcome[b]) # 201 -> a
      [] StatusCode(outcome[b]) = 201 /\ StatusCode(outcome[a]) # 201 -> b
      [] OTHER -> None

\* A third create that wants the slot of the race, or that takes a racer on a
\* journey at the same time.
Disturbs(c, r) ==
    \/ Slot(c) = Slot(r)
    \/ /\ call[c].user = call[r].user
       /\ call[c].schedule \in Schedules
       /\ JourneysOverlap(call[c].schedule, call[r].schedule)

\* The demonstration demonstrates: a race of users that exist, for a seat that
\* exists and that nobody else wants, in which no attempt is lost to a failure, has
\* one winner, who has the row, and the loser has none, also when one user races
\* himself.
RaceHasOneWinner ==
    \A a, b \in Creates :
        /\ IsRace(a, b)
        /\ call[a].schedule \in Schedules /\ call[a].seat \in Seats
        /\ call[a].user \in Users /\ call[b].user \in Users
        /\ \A c \in Creates \ {a, b} : ~Disturbs(c, a) /\ ~Disturbs(c, b)
        /\ pc[a] = "done" /\ pc[b] = "done"
        /\ outcome[a] # "aborted" /\ outcome[b] # "aborted"
        => \/ Winner(a, b) = a /\ Exists(a) /\ ~Exists(b)
           \/ Winner(a, b) = b /\ Exists(b) /\ ~Exists(a)
===============================================================================
