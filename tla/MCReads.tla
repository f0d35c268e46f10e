-------------------------------- MODULE MCReads --------------------------------
(***************************************************************************)
(* An instance of Reads for TLC: one schedule and an unknown id; seat a1   *)
(* belongs to its train, seat aX to another one.                           *)
(***************************************************************************)
EXTENDS Reads, TLC

CONSTANTS s1, sX, a1, aX, r1, r2

MCSlots == {<<s1, a1>>, <<s1, aX>>}
MCSeatsOf == s1 :> {a1}
MCAsks == (r1 :> s1) @@ (r2 :> sX)
===============================================================================
