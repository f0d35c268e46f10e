--------------------------------- MODULE Reads ---------------------------------
(***************************************************************************)
(* The two kinds of readers of the booking tables: seat maps and           *)
(* statistics, over one life cycle.  Neither writes what the other reads,  *)
(* so a behaviour has the one or the other.                                *)
(***************************************************************************)
EXTENDS SeatCache, AdminStats

VARIABLE audience   \* who reads in this behaviour

readsVars == <<seatVars, statsVars, audience>>

ReadsInit == CacheInit /\ StatsInit /\ audience \in {"maps", "statistics"}

MapStep == audience = "maps" /\ CacheNext /\ UNCHANGED <<statsVars, audience>>
TimeStep == audience = "maps" /\ Tick /\ UNCHANGED <<statsVars, audience>>
StatsStep == audience = "statistics" /\ StatsNext /\ UNCHANGED <<cacheVars, audience>>

ReadsNext == MapStep \/ StatsStep

ReadsSpec == ReadsInit /\ [][ReadsNext]_readsVars /\ WF_readsVars(TimeStep)

\* One type invariant for both.
ReadsTypeOK == CacheTypeOK /\ StatsTypeOK
===============================================================================
