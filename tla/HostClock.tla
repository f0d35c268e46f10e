------------------------------- MODULE HostClock -------------------------------
(***************************************************************************)
(* The clock that the rate limiter and the tokens read: time.time() and    *)
(* datetime.now(UTC) of the hosts, and the clock of Redis.                 *)
(***************************************************************************)
EXTENDS Naturals

CONSTANT MaxTime    \* bound of the clock

VARIABLE now

Tick == now < MaxTime /\ now' = now + 1
===============================================================================
