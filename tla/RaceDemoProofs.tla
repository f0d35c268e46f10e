----------------------------- MODULE RaceDemoProofs -----------------------------
(***************************************************************************)
(* The theorem about the race demo: an undisturbed race has one winner,    *)
(* for every number of requests and whatever else the engine is doing.     *)
(***************************************************************************)
EXTENDS RaceDemo, BookingAnswersProofs

-------------------------------------------------------------------------------
(* The race *)

\* A race run_race has started between users that exist, for a seat that exists and
\* nobody else wants.
Undisturbed(a, b) ==
    /\ IsRace(a, b)
    /\ call[a].user \in Users /\ call[b].user \in Users
    /\ call[a].schedule \in Schedules /\ call[a].seat \in Seats
    /\ \A c \in Creates \ {a, b} : ~Disturbs(c, a) /\ ~Disturbs(c, b)

\* The answers of an attempt that lost.
Lost == {"seat_taken", "overlapping", "multiple_results", "child_rows", "unique_violation"}

\* Who neither has the seat nor was aborted has lost it to the other.
LEMMA LoserMetWinner ==
    ASSUME PlaceInv, AnswersInv, ReasonInv, NEW a \in Creates, NEW b \in Creates,
           Undisturbed(a, b), NEW r \in {a, b}, pc[r] = "done", outcome[r] # "aborted"
    PROVE  \/ outcome[r] = "created" /\ Exists(r)
           \/ outcome[r] \in Lost /\ \E q \in {a, b} \ {r} : Exists(q)
<1>1. r \in Requests /\ outcome[r] \in CreateEnds /\ Reason(r) /\ Answered(r)
  BY DEF Requests, ReasonInv, AnswersInv
<1>2. ~KeyTaken(r)
  BY DEF Undisturbed, IsRace, KeyTaken
<1>3. SlotTaken(r) => \E q \in {a, b} \ {r} : Exists(q)
  BY DEF SlotTaken, Undisturbed, Disturbs
<1>4. call[r].schedule \in Schedules /\ call[r].seat \in Seats /\ call[r].user \in Users
  BY DEF Undisturbed, IsRace, Slot
<1>5. ASSUME outcome[r] \in {"overlapping", "multiple_results"}
      PROVE  \E q \in {a, b} \ {r} : Exists(q)
  <2>1. PICK c \in Creates \ {r} : /\ Exists(c) /\ call[c].user = call[r].user
                                   /\ OnBoardTogether(call[c].schedule, call[r].schedule)
    BY <1>1, <1>5 DEF Answered
  <2>2. Disturbs(c, r)
    BY <1>4, <2>1, OverlapIsExact DEF PlaceInv, Disturbs
  <2> QED BY <2>1, <2>2 DEF Undisturbed
<1> QED BY <1>1, <1>2, <1>3, <1>4, <1>5 DEF CreateEnds, Lost, Reason, Answered

\* The race demo demonstrates what it claims: whatever else the engine does, and
\* however the statements of the two attempts interleave, an undisturbed race that
\* no failure has spoilt has exactly one winner, and he has the row.
THEOREM RaceIsDecided == Spec => []RaceHasOneWinner
<1>1. IInv /\ PlaceInv /\ AnswersInv /\ ReasonInv => RaceHasOneWinner
  <2> SUFFICES ASSUME IInv, PlaceInv, AnswersInv, ReasonInv,
                      NEW a \in Creates, NEW b \in Creates, Undisturbed(a, b),
                      pc[a] = "done", pc[b] = "done",
                      outcome[a] # "aborted", outcome[b] # "aborted"
               PROVE  \/ Winner(a, b) = a /\ Exists(a) /\ ~Exists(b)
                      \/ Winner(a, b) = b /\ Exists(b) /\ ~Exists(a)
    BY DEF RaceHasOneWinner, Undisturbed
  <2>1. a # b /\ ~(Exists(a) /\ Exists(b))
    BY DEF Undisturbed, IsRace, IInv, RowInv, Collide, SameSlot
  <2>2. \/ outcome[a] = "created" /\ Exists(a)
        \/ outcome[a] \in Lost /\ Exists(b)
    BY LoserMetWinner
  <2>3. \/ outcome[b] = "created" /\ Exists(b)
        \/ outcome[b] \in Lost /\ Exists(a)
    BY LoserMetWinner
  <2>4. /\ StatusCode("created") = 201
        /\ \A o \in Lost : StatusCode(o) # 201
    BY DEF StatusCode, Lost
  <2>5. CASE outcome[a] = "created" /\ outcome[b] \in Lost /\ Exists(a)
    BY <2>1, <2>4, <2>5 DEF Winner
  <2>6. CASE outcome[b] = "created" /\ outcome[a] \in Lost /\ Exists(b)
    BY <2>1, <2>4, <2>6 DEF Winner
  <2> QED BY <2>1, <2>2, <2>3, <2>5, <2>6
<1> QED BY <1>1, Invariance, PromisesAreKept, RefusalsHaveReasons, PTL
===============================================================================
