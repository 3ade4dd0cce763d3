----------------------------- MODULE MCLibrary -----------------------------
(* The two small components of community-robot-lib, which share nothing: a   *)
(* behaviour is one of the filter's loop or one of the secret agent.         *)
(* Filters: every list of at most MaxItems over an organization and one of   *)
(* its repositories, the one asked about; other names change nothing.        *)
(* Secrets: two values and three modification times, older, equal and newer; *)
(* MaxSkips is 2 for the 600 of the code.                                    *)
EXTENDS RepoFilter, SecretAgent

CONSTANT MaxItems

MCName == {"o", "o/r"}
MCCandidates == UNION {[1 .. n -> Filter] : n \in 0 .. MaxItems}
MCQuery == {[org |-> "o", full |-> "o/r"]}

VARIABLE component

LibraryInit ==
  /\ component \in {"filter", "secret"}
  /\ FindInit /\ (component = "secret" => cfg = <<>>)
  /\ Init /\ (component = "filter" => value = "old" /\ mtime = 1)

LibraryNext ==
  \/ component = "filter" /\ FindNext /\ UNCHANGED <<vars, component>>
  \/ component = "secret" /\ Next /\ UNCHANGED <<findVars, component>>

Ticks == WF_vars(component = "secret" /\ Look) /\ WF_vars(component = "secret" /\ Read)

LibrarySpec == LibraryInit /\ [][LibraryNext]_<<vars, findVars, component>> /\ Ticks
=============================================================================
