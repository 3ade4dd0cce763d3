---------------------------- MODULE MCLabelRobot ----------------------------
(* Two events among ten on a repository that has "bug" in one spelling and *)
(* not "new".                                                                *)
EXTENDS LabelRobot, TLC

MCLabel == {"bug", "Bug", "new", "lgtm", "squash"}
MCFold == [l \in MCLabel |->
  CASE l \in {"bug", "Bug"} -> "BUG" [] l = "new" -> "NEW" [] l = "lgtm" -> "LGTM" [] OTHER -> "SQUASH"]
MCRepoLabels == {"bug", "lgtm", "squash"}

Comment(add, remove, collab, create) ==
  [kind |-> "comment", add |-> add, remove |-> remove, collab |-> collab, create |-> create, squash |-> "off"]
Pull(squash) ==
  [kind |-> "pull", add |-> {}, remove |-> {}, collab |-> FALSE, create |-> FALSE, squash |-> squash]

MCEvents ==
  {Comment({"Bug", "new"}, {"lgtm"}, collab, create) : collab \in BOOLEAN, create \in BOOLEAN}
  \cup {Comment({}, {"Bug", "new"}, FALSE, FALSE), Comment({"bug", "lgtm"}, {"Bug"}, TRUE, TRUE)}
  \cup {Comment({"Bug", "bug"}, {}, TRUE, TRUE)}
  \cup {Pull(squash) : squash \in {"off", "few", "many"}}

\* The handlers differ only in their events.
MCSymmetry == Permutations(Handler)
=============================================================================
