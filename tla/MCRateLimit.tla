---------------------------- MODULE MCRateLimit ----------------------------
(* A call that sleeps, one that does not, and one that asks for the limits, *)
(* on a server that allows two requests in two ticks.                       *)
EXTENDS RateLimit
=============================================================================
