--------------------------- MODULE EventDelivery ---------------------------
(***************************************************************************)
(* What a robot's service promises about the webhook events it accepts: an *)
(* event is handled at most once and only after it was accepted; a service *)
(* that drains before it stops has handled every event it had accepted     *)
(* when the draining began; one that stops abruptly promises nothing for   *)
(* the events it had not handled yet.                                      *)
(***************************************************************************)
CONSTANT Event

VARIABLES status,  \* what became of each event
          phase,   \* "serving", "draining", "drained" or "aborted"
          owed     \* the events draining waits for

vars == <<status, phase, owed>>

Init ==
  /\ status = [e \in Event |-> "new"]
  /\ phase = "serving"
  /\ owed = {}

Running == phase \in {"serving", "draining"}

\* Events keep being accepted while the service drains; those are not owed.
Accept(e) ==
  /\ Running
  /\ status[e] = "new"
  /\ status' = [status EXCEPT ![e] = "accepted"]
  /\ UNCHANGED <<phase, owed>>

Handle(e) ==
  /\ Running
  /\ status[e] = "accepted"
  /\ status' = [status EXCEPT ![e] = "handled"]
  /\ owed' = owed \ {e}
  /\ UNCHANGED phase

BeginDrain ==
  /\ phase = "serving"
  /\ phase' = "draining"
  /\ owed' = {e \in Event : status[e] = "accepted"}
  /\ UNCHANGED status

EndDrain ==
  /\ phase = "draining"
  /\ owed = {}
  /\ phase' = "drained"
  /\ UNCHANGED <<status, owed>>

Abort ==
  /\ Running
  /\ phase' = "aborted"
  /\ UNCHANGED <<status, owed>>

Next ==
  \/ \E e \in Event : Accept(e) \/ Handle(e)
  \/ BeginDrain
  \/ EndDrain
  \/ Abort

Spec == Init /\ [][Next]_vars
=============================================================================
