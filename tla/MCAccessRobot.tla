--------------------------- MODULE MCAccessRobot ---------------------------
(* One organization with two repositories and two kinds of event.  The       *)
(* configurations: plugins listed for the organization and for a repository, *)
(* a name listed in both, a plugin without events, one with a bad endpoint   *)
(* next to a second of the same name, and an unknown name (refused).         *)
EXTENDS AccessRobot

CONSTANT e1

Plugin(n, u, ev) == [name |-> n, endpoint |-> u, events |-> ev]
Label == Plugin("label", "u1", <<"push", "issues">>)
Cla == Plugin("cla", "u2", <<"push">>)
Config(org, repo, plugins) ==
  [repoPlugins |-> [key \in {"o", "o/r"} |-> IF key = "o" THEN org ELSE repo],
   plugins |-> plugins]

Both == Config(<<"label">>, <<"cla">>, <<Label, Cla>>)
Twice == Config(<<"label">>, <<"label">>, <<Label>>)
NoEvents == Config(<<"quiet">>, <<>>, <<Plugin("quiet", "u3", <<>>)>>)
SameName == Config(<<"x">>, <<>>, <<Plugin("x", "bad", <<"push">>), Plugin("x", "u2", <<"push">>)>>)
Unknown == Config(<<"label", "nobody">>, <<>>, <<Label>>)

AllConfigs == {Both, Twice, NoEvents, SameName, Unknown}
TwoListings == {Both, Twice}
NoEventsOnly == {NoEvents}

Hook(r, k) == [org |-> "o", repo |-> r, kind |-> k]
AllHooks == {Hook("o/r", "push"), Hook("o/r", "issues"), Hook("o/s", "push")}
OnePush == {Hook("o/r", "push")}
=============================================================================
