--------------------------- MODULE RateLimiterProofs ---------------------------
(***************************************************************************)
(* Theorems about RateLimiter, for every number of calls and keys, every   *)
(* limit, window and pool.                                                 *)
(***************************************************************************)
EXTENDS RateLimiter, FiniteSetTheorems, TLAPS

\* What Redis has counted: a call is stamped before it runs, a key outlives the
\* window of every call it counts, the calls of the last window are in the set,
\* and nothing else is.
CountInv ==
    /\ \A c \in Calls : stamp[c] <= now /\ (verdict[c] # "idle" => key[c] \in Keys)
    /\ \A c \in ran :
        /\ verdict[c] # "idle"
        /\ stamp[c] + Window[key[c]] <= lapses[key[c]]
        /\ now < stamp[c] + Window[key[c]] => stamp[c] \in window[key[c]]
    /\ \A k \in Keys : \A t \in window[k] : \E c \in ran : key[c] = k /\ stamp[c] = t

LimiterInv == LimiterTypeOK /\ CountInv

\* No call is made and no set exists.
LEMMA LimiterInitially == LimiterInit => LimiterInv
<1> SUFFICES ASSUME LimiterInit PROVE LimiterInv
  OBVIOUS
<1>1. now \in Nat
  BY LimiterAssumption DEF LimiterInit
<1>2. LimiterTypeOK
  BY <1>1 DEF LimiterInit, LimiterTypeOK, Verdicts
<1>3. CountInv
  BY <1>1 DEF LimiterInit, CountInv
<1> QED
  BY <1>2, <1>3 DEF LimiterInv

\* The members of a set are instants that have passed: there are finitely many.
LEMMA KeptIsFinite ==
    ASSUME LimiterInv, NEW c \in Calls, verdict[c] # "idle"
    PROVE  /\ Kept(c) \subseteq 0 .. now /\ IsFiniteSet(Kept(c))
           /\ Cardinality(Kept(c)) \in Nat
<1>1. key[c] \in Keys
  BY DEF LimiterInv, CountInv
<1>2. \A t \in Live(key[c]) : t \in 0 .. now
  BY <1>1 DEF LimiterInv, LimiterTypeOK, CountInv, Live
<1>3. stamp[c] \in 0 .. now
  BY DEF LimiterInv, LimiterTypeOK, CountInv
<1>4. Kept(c) \subseteq 0 .. now
  BY <1>2, <1>3 DEF Kept
<1>5. now \in Nat
  BY DEF LimiterInv, LimiterTypeOK
<1>6. IsFiniteSet(0 .. now)
  BY <1>5, FS_Interval
<1>7. IsFiniteSet(Kept(c))
  BY <1>4, <1>6, FS_Subset
<1> QED
  BY <1>4, <1>7, FS_CardinalityType

\* What the pipeline leaves: the counted calls of the last window, and only calls.
LEMMA RunKeeps ==
    ASSUME LimiterInv, NEW c \in Calls, verdict[c] = "sent", Run(c),
           UNCHANGED <<now, key, stamp>>, NEW v \in Verdicts \ {"idle"}, Return(c, v)
    PROVE  LimiterInv'
<1> DEFINE k == key[c]
<1>1. k \in Keys /\ k' = k
  BY DEF LimiterInv, CountInv
<1>2. /\ now \in Nat /\ stamp[c] \in Nat /\ stamp[c] <= now
      /\ Window \in [Keys -> Nat \ {0}]
  BY LimiterAssumption DEF LimiterInv, LimiterTypeOK, CountInv
<1>3. Kept(c) \subseteq Nat
  BY KeptIsFinite, <1>2
<1>4. LimiterTypeOK'
  <2>1. window' \in [Keys -> SUBSET Nat]
    BY <1>3 DEF LimiterInv, LimiterTypeOK, Run
  <2>2. now + Window[k] \in Nat
    BY <1>1, <1>2
  <2>3. lapses' \in [Keys -> Nat]
    BY <2>2 DEF LimiterInv, LimiterTypeOK, Run
  <2>4. /\ now' \in Nat /\ key' \in [Calls -> Keys \cup {NoKey}] /\ stamp' \in [Calls -> Nat]
        /\ verdict' \in [Calls -> Verdicts] /\ ran' \subseteq Calls
    BY DEF LimiterInv, LimiterTypeOK, Run, Return
  <2> QED
    BY <2>1, <2>3, <2>4 DEF LimiterTypeOK
<1>5. \A d \in Calls : stamp'[d] <= now' /\ (verdict'[d] # "idle" => key'[d] \in Keys)
  BY DEF LimiterInv, LimiterTypeOK, CountInv, Return
<1>6. ASSUME NEW d \in ran'
      PROVE  /\ verdict'[d] # "idle"
             /\ stamp'[d] + Window[key'[d]] <= lapses'[key'[d]]
             /\ now' < stamp'[d] + Window[key'[d]] => stamp'[d] \in window'[key'[d]]
  <2>1. d \in Calls /\ d \in ran \cup {c} /\ stamp[d] \in Nat /\ stamp[d] <= now
    BY <1>6 DEF Run, LimiterInv, LimiterTypeOK, CountInv
  <2>2. verdict'[d] # "idle" /\ verdict[d] # "idle" /\ key[d] \in Keys
    BY <2>1 DEF LimiterInv, LimiterTypeOK, CountInv, Return
  <2>3. CASE key[d] # k
    <3>1. d \in ran /\ lapses'[key[d]] = lapses[key[d]] /\ window'[key[d]] = window[key[d]]
      BY <2>1, <2>2, <2>3, <1>1 DEF Run, LimiterInv, LimiterTypeOK
    <3> QED
      BY <3>1, <2>2 DEF LimiterInv, CountInv
  <2>4. CASE key[d] = k
    <3>1. lapses'[k] = now + Window[k] /\ window'[k] = Kept(c)
      BY <1>1 DEF Run, LimiterInv, LimiterTypeOK
    <3>2. Window[k] \in Nat /\ stamp[d] + Window[k] <= now + Window[k]
      BY <1>1, <1>2, <2>1
    <3>3. ASSUME now < stamp[d] + Window[k], d # c
          PROVE  stamp[d] \in Kept(c)
      <4>1. /\ d \in ran /\ stamp[d] + Window[k] <= lapses[k] /\ stamp[d] \in window[k]
            /\ lapses[k] \in Nat
        BY <2>1, <2>4, <3>3, <1>1 DEF LimiterInv, CountInv, LimiterTypeOK
      <4>2. now < lapses[k] /\ stamp[d] + Window[k] > stamp[c]
        BY <4>1, <3>2, <3>3, <1>2, <2>1
      <4> QED
        BY <4>1, <4>2 DEF Kept, Live
    <3>4. stamp[c] \in Kept(c)
      BY DEF Kept
    <3> QED
      BY <2>2, <2>4, <3>1, <3>2, <3>3, <3>4
  <2> QED
    BY <2>3, <2>4
<1>7. ASSUME NEW l \in Keys, NEW t \in window'[l]
      PROVE  \E d \in ran' : key'[d] = l /\ stamp'[d] = t
  <2>1. window'[l] = IF l = k THEN Kept(c) ELSE window[l]
    BY <1>1 DEF Run, LimiterInv, LimiterTypeOK
  <2>2. t \in window[l] \/ (l = k /\ t = stamp[c])
    BY <1>7, <2>1 DEF Kept, Live
  <2>3. CASE t \in window[l]
    BY <2>3 DEF LimiterInv, CountInv, Run
  <2>4. CASE l = k /\ t = stamp[c]
    BY <2>4 DEF Run
  <2> QED
    BY <2>2, <2>3, <2>4
<1>8. CountInv'
  BY <1>5, <1>6, <1>7 DEF CountInv
<1> QED
  BY <1>4, <1>8 DEF LimiterInv

\* Every step keeps the counts.
LEMMA LimiterInductive == LimiterInv /\ [LimiterNext]_limiterVars => LimiterInv'
<1> SUFFICES ASSUME LimiterInv, [LimiterNext]_limiterVars PROVE LimiterInv'
  OBVIOUS
<1> USE LimiterAssumption DEF LimiterInv
<1>1. ASSUME NEW c \in Calls, NEW k \in Keys, NEW peers \in SUBSET Calls, Check(c, k, peers)
      PROVE  LimiterInv'
  <2>1. verdict[c] = "idle" /\ c \notin ran
    BY <1>1 DEF Check, CountInv
  <2>2. LimiterTypeOK'
    BY <1>1 DEF Check, Return, LimiterTypeOK, Verdicts, sets
  <2>3. \A d \in ran : d # c /\ d \in Calls /\ key'[d] = key[d] /\ stamp'[d] = stamp[d]
                       /\ verdict'[d] = verdict[d]
    BY <1>1, <2>1 DEF Check, Return, LimiterTypeOK
  <2>4. \A d \in Calls : stamp'[d] <= now' /\ (verdict'[d] # "idle" => key'[d] \in Keys)
    BY <1>1 DEF Check, Return, LimiterTypeOK, CountInv
  <2>5. UNCHANGED <<now, sets>>
    BY <1>1 DEF Check
  <2>6. CountInv'
    BY <2>3, <2>4, <2>5 DEF CountInv, sets
  <2> QED
    BY <2>2, <2>6
<1>2. ASSUME NEW c \in Calls, Execute(c)
      PROVE  LimiterInv'
  <2>1. PICK v \in {"denied", "allowed"} : Return(c, v)
    BY <1>2 DEF Execute
  <2> QED
    BY <1>2, <2>1, RunKeeps DEF Execute, Verdicts
<1>3. ASSUME NEW c \in Calls, FailOpen(c)
      PROVE  LimiterInv'
  <2>1. CASE Run(c)
    BY <1>3, <2>1, RunKeeps DEF FailOpen, Verdicts
  <2>2. CASE UNCHANGED sets
    <3>1. LimiterTypeOK'
      BY <1>3, <2>2 DEF FailOpen, Return, LimiterTypeOK, Verdicts, sets
    <3>2. \A d \in Calls : verdict[d] # "idle" <=> verdict'[d] # "idle"
      BY <1>3 DEF FailOpen, Return, LimiterTypeOK
    <3>3. CountInv'
      BY <1>3, <2>2, <3>2 DEF FailOpen, LimiterTypeOK, CountInv, sets
    <3> QED
      BY <3>1, <3>3
  <2> QED
    BY <1>3, <2>1, <2>2 DEF FailOpen
<1>4. CASE RedisRestart
  BY <1>4 DEF RedisRestart, LimiterTypeOK, CountInv
<1>5. CASE Wait
  <2>1. now \in Nat /\ now' = now + 1 /\ UNCHANGED <<key, stamp, verdict, window, lapses, ran>>
    BY <1>5 DEF Wait, Tick, LimiterTypeOK, sets
  <2>2. LimiterTypeOK'
    BY <2>1 DEF LimiterTypeOK
  <2>3. \A c \in Calls : stamp'[c] <= now' /\ (verdict'[c] # "idle" => key'[c] \in Keys)
    BY <2>1 DEF LimiterTypeOK, CountInv
  <2>4. \A c \in ran' : /\ verdict'[c] # "idle"
                        /\ stamp'[c] + Window[key'[c]] <= lapses'[key'[c]]
                        /\ now' < stamp'[c] + Window[key'[c]] => stamp'[c] \in window'[key'[c]]
    <3> SUFFICES ASSUME NEW c \in ran
                 PROVE  /\ verdict[c] # "idle"
                        /\ stamp[c] + Window[key[c]] <= lapses[key[c]]
                        /\ now' < stamp[c] + Window[key[c]] => stamp[c] \in window[key[c]]
      BY <2>1
    <3>1. stamp[c] \in Nat /\ key[c] \in Keys /\ Window[key[c]] \in Nat
      BY DEF LimiterTypeOK, CountInv
    <3> QED
      BY <2>1, <3>1 DEF CountInv
  <2>5. CountInv'
    BY <2>1, <2>3, <2>4 DEF CountInv
  <2> QED
    BY <2>2, <2>5
<1>6. CASE UNCHANGED limiterVars
  BY <1>6 DEF limiterVars, sets, LimiterTypeOK, CountInv
<1> QED
  BY <1>1, <1>2, <1>3, <1>4, <1>5, <1>6 DEF LimiterNext

\* The invariant of the limiter.
THEOREM LimiterInvariance == LimiterSpec => []LimiterInv
<1> QED
  BY LimiterInitially, LimiterInductive, PTL DEF LimiterSpec

-------------------------------------------------------------------------------
(* The two promises *)

\* What the pipeline counts is what has been counted in the last window.
LEMMA AdmissionStep ==
    LimiterInv /\ LimiterInv' /\ [LimiterNext]_limiterVars =>
        \A c \in Calls : verdict[c] = "sent" /\ verdict'[c] = "allowed" =>
            Cardinality(Recent(key[c])') <= Limit[key[c]]
<1> SUFFICES ASSUME LimiterInv, LimiterInv', [LimiterNext]_limiterVars,
                    NEW c \in Calls, verdict[c] = "sent", verdict'[c] = "allowed"
             PROVE  Cardinality(Recent(key[c])') <= Limit[key[c]]
  OBVIOUS
<1>1. Execute(c)
  BY DEF LimiterInv, LimiterTypeOK, LimiterNext, limiterVars, Check, Execute, FailOpen,
         RedisRestart, Wait, Return
<1>2. /\ key[c] \in Keys /\ UNCHANGED <<key, stamp, now>>
      /\ ~(Cardinality(Kept(c)) > Limit[key[c]])
  BY <1>1 DEF Execute, Return, LimiterInv, LimiterTypeOK, CountInv
<1>a. Limit[key[c]] \in Nat
  BY <1>2, LimiterAssumption
<1>b. window'[key[c]] = Kept(c)
  BY <1>1, <1>2 DEF Execute, Run, LimiterInv, LimiterTypeOK
<1>3. Recent(key[c])' \subseteq Kept(c)
  BY <1>2, <1>b DEF Recent, LimiterInv, CountInv
<1>4. IsFiniteSet(Kept(c)) /\ Cardinality(Kept(c)) \in Nat
  BY KeptIsFinite
<1>5. Cardinality(Recent(key[c])') <= Cardinality(Kept(c)) /\ IsFiniteSet(Recent(key[c])')
  BY <1>3, <1>4, FS_Subset
<1>6. Cardinality(Recent(key[c])') \in Nat
  BY <1>5, FS_CardinalityType
<1> QED
  BY <1>2, <1>a, <1>4, <1>5, <1>6

\* The members that a refused call finds beside its own are calls before it.
LEMMA RefusalStep ==
    LimiterInv /\ LimiterInv' /\ [LimiterNext]_limiterVars =>
        \A c \in Calls : verdict[c] = "sent" /\ verdict'[c] = "denied" =>
            Cardinality(Before(c)) >= Limit[key[c]]
<1> SUFFICES ASSUME LimiterInv, LimiterInv', [LimiterNext]_limiterVars,
                    NEW c \in Calls, verdict[c] = "sent", verdict'[c] = "denied"
             PROVE  Cardinality(Before(c)) >= Limit[key[c]]
  OBVIOUS
<1>1. Execute(c)
  BY DEF LimiterInv, LimiterTypeOK, LimiterNext, limiterVars, Check, Execute, FailOpen,
         RedisRestart, Wait, Return
<1>2. /\ key[c] \in Keys /\ Limit[key[c]] \in Nat
      /\ Cardinality(Kept(c)) > Limit[key[c]]
  BY <1>1, LimiterAssumption DEF Execute, Return, LimiterInv, LimiterTypeOK, CountInv
<1> DEFINE others == Kept(c) \ {stamp[c]}
<1>3. others \subseteq Before(c)
  <2> SUFFICES ASSUME NEW t \in others PROVE t \in Before(c)
    OBVIOUS
  <2>1. t \in window[key[c]] /\ t + Window[key[c]] > stamp[c] /\ t # stamp[c]
    BY DEF Kept, Live
  <2>2. PICK d \in ran : key[d] = key[c] /\ stamp[d] = t
    BY <1>2, <2>1 DEF LimiterInv, CountInv
  <2>3. t \in Nat /\ stamp[c] \in Nat /\ Window[key[c]] \in Nat
    BY <1>2, <2>2, LimiterAssumption DEF LimiterInv, LimiterTypeOK
  <2> QED
    BY <2>1, <2>2, <2>3 DEF Before
<1>4. IsFiniteSet(Kept(c)) /\ Cardinality(Kept(c)) \in Nat
  BY KeptIsFinite
<1>5. IsFiniteSet(others) /\ Cardinality(others) = Cardinality(Kept(c)) - 1
  <2>1. stamp[c] \in Kept(c)
    BY DEF Kept
  <2> QED
    BY <1>4, <2>1, FS_RemoveElement
<1>6. IsFiniteSet(Before(c))
  <2>1. now \in Nat /\ ran \subseteq Calls
    BY DEF LimiterInv, LimiterTypeOK
  <2>2. \A x \in Calls : stamp[x] \in 0 .. now
    BY DEF LimiterInv, LimiterTypeOK, CountInv
  <2>3. Before(c) \subseteq 0 .. now
    BY <2>1, <2>2 DEF Before
  <2>4. IsFiniteSet(0 .. now)
    BY <2>1, FS_Interval
  <2> QED
    BY <2>3, <2>4, FS_Subset
<1>7. Cardinality(others) <= Cardinality(Before(c)) /\ Cardinality(Before(c)) \in Nat
  BY <1>3, <1>6, FS_Subset, FS_CardinalityType
<1> HIDE DEF others
<1> QED
  BY <1>2, <1>4, <1>5, <1>7

\* The counted calls of a window stand at no more than Limit instants whenever
\* one is admitted by its count.
THEOREM AdmissionsAreBounded == LimiterSpec => AdmitsAtMostLimit
<1> QED
  BY LimiterInvariance, AdmissionStep, PTL DEF LimiterSpec, AdmitsAtMostLimit

\* A call is refused for Limit other instants within the window before it.
THEOREM RefusalsAreEarned == LimiterSpec => RetryAfterHonoured
<1> QED
  BY LimiterInvariance, RefusalStep, PTL DEF LimiterSpec, RetryAfterHonoured
===============================================================================
