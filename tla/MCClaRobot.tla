----------------------------- MODULE MCClaRobot -----------------------------
(* Two events; commits by two people, through the web page or not, and one   *)
(* whose email is not valid.                                                 *)
EXTENDS ClaRobot

CONSTANTS h1, h2

MCEmail == {"ann", "bob", "web", "none"}
MCValidEmail == {"ann", "bob"}
By(a, c) == [author |-> a, committer |-> c]
MCHistories ==
  {<<>>, <<By("ann", "ann"), By("bob", "ann")>>, <<By("ann", "web")>>, <<By("none", "none"), By("ann", "bob")>>}
=============================================================================
