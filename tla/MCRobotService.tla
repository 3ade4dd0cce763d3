--------------------------- MODULE MCRobotService ---------------------------
(* A robot with one handler that works and one that panics (a handler that   *)
(* was never registered panics just the same), and requests taken from the   *)
(* ways parseRequest and Dispatch can go: handled, refused, panicking.       *)
EXTENDS RobotService

CONSTANTS r1, r2

Forwarded(k) == [event |-> TRUE, readable |-> TRUE, ua |-> "Access",
                 delivery |-> FALSE, sign |-> "missing", kind |-> k]
Webhook(s) == [event |-> TRUE, readable |-> TRUE, ua |-> "Hookshot",
               delivery |-> TRUE, sign |-> s, kind |-> "push"]

AllOutcomes == {Forwarded("pull_request"), Webhook("wrong"), Webhook("right")}
OnlyHandled == {Forwarded("pull_request")}

TwoReq == {r1, r2}
=============================================================================
