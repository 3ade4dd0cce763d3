------------------------------ MODULE ClaRobot ------------------------------
(***************************************************************************)
(* The CLA robot on one pull request.  Every event of the pull request is  *)
(* handled by a goroutine of its own, which fetches the commits, asks the  *)
(* CLA service about the email of each, deletes the sign guides posted     *)
(* earlier and then sets the labels.  It decides which labels to change    *)
(* from the labels in the event's payload, that is, those of the moment    *)
(* the event was sent; the commits it reads later.  Each call is a step:   *)
(* between two of them the contributor pushes or signs, other handlers     *)
(* run, and any call may fail.                                             *)
(***************************************************************************)
EXTENDS Naturals, Sequences, FiniteSets

CONSTANTS Handler,        \* the events and the goroutines that handle them
          Email, ValidEmail,
          LiteCommitter,  \* the committers of commits made on the web page
          Histories,      \* the commits a pull request may have
          CheckByCommitter,
          MaxFaults       \* bound on the calls that fail

Commit == [author : Email, committer : Email]

ASSUME ClaAssumption ==
  /\ ValidEmail \subseteq Email
  /\ LiteCommitter \subseteq Email
  /\ Histories \subseteq Seq(Commit)
  /\ CheckByCommitter \in BOOLEAN
  /\ MaxFaults \in Nat

VARIABLES commits,  \* of the pull request
          signed,   \* the emails the CLA service knows
          labels,   \* of the pull request: "yes" and "no", the two cla labels
          guides,   \* its sign guide comments, by the handler that posted them
          thanks    \* its "all authors have signed" comments

VARIABLES pc,       \* where a handler stands
          event,    \* what it handles: [check, relevant]
          seen,     \* the labels in the payload
          fetched,  \* the commits it was given
          next,     \* the commit to check next
          known,    \* the emails it has asked about: those signed, those not
          unsigned, \* whether one of the commits is not signed
          found     \* the guides it has still to delete

VARIABLES faults,   \* calls that have failed
          quiet     \* history: the handlers nothing and nobody has disturbed

server == <<commits, signed, labels, guides, thanks>>
checking == <<fetched, next, known, unsigned>>
vars == <<server, pc, event, seen, checking, found, faults, quiet>>

Active(h) == pc[h] \notin {"none", "done"}

\* getAuthorOfCommit.
AuthorOf(c) ==
  IF CheckByCommitter /\ c.committer \notin LiteCommitter THEN c.committer ELSE c.author

Init ==
  /\ commits \in Histories
  /\ signed = {}
  /\ labels \in SUBSET {"yes", "no"}
  /\ guides \in SUBSET {"earlier"}
  /\ thanks = {}
  /\ pc = [h \in Handler |-> "none"]
  /\ event = [h \in Handler |-> [check |-> FALSE, relevant |-> FALSE]]
  /\ seen = [h \in Handler |-> {}]
  /\ fetched = [h \in Handler |-> <<>>]
  /\ next = [h \in Handler |-> 1]
  /\ known = [h \in Handler |-> [yes |-> {}, no |-> {}]]
  /\ unsigned = [h \in Handler |-> FALSE]
  /\ found = [h \in Handler |-> {}]
  /\ faults = 0
  /\ quiet = {}

-----------------------------------------------------------------------------
(* The contributor and the platform *)

\* An event is sent: it carries the labels of now.
Send(h, e) ==
  /\ pc[h] = "none"
  /\ pc' = [pc EXCEPT ![h] = "fetch"]
  /\ event' = [event EXCEPT ![h] = e]
  /\ seen' = [seen EXCEPT ![h] = labels]
  /\ quiet' = IF \E g \in Handler : Active(g) THEN {} ELSE {h}
  /\ UNCHANGED <<checking, found, faults>>

\* The pull request changes otherwise, or somebody comments.
Notify(h, e) ==
  /\ Send(h, e)
  /\ UNCHANGED server

Push(h, cs) ==
  /\ Send(h, [check |-> FALSE, relevant |-> TRUE])
  /\ commits' = cs
  /\ UNCHANGED <<signed, labels, guides, thanks>>

Sign(e) ==
  /\ e \notin signed
  /\ signed' = signed \cup {e}
  /\ quiet' = {}
  /\ UNCHANGED <<commits, labels, guides, thanks, pc, event, seen, checking, found, faults>>

-----------------------------------------------------------------------------
(* A handler *)

Goto(h, where) == pc' = [pc EXCEPT ![h] = where]

\* A call of handler h fails.
Fails(h) ==
  /\ faults < MaxFaults
  /\ faults' = faults + 1
  /\ quiet' = quiet \ {h}

Works == UNCHANGED <<faults, quiet>>

\* The pull request is not open, the comment is not /check-cla, or no configuration
\* applies to the repository.
Ignore(h) ==
  /\ pc[h] = "fetch"
  /\ ~event[h].relevant
  /\ Goto(h, "done")
  /\ quiet' = quiet \ {h}
  /\ UNCHANGED <<server, event, seen, checking, found, faults>>

\* getPRCommitsAbout asks again after a second for as long as it gets no answer.
FetchFails(h) ==
  /\ pc[h] = "fetch"
  /\ event[h].relevant
  /\ Fails(h)
  /\ Goto(h, "asleep")
  /\ UNCHANGED <<server, event, seen, checking, found>>

Retry(h) ==
  /\ pc[h] = "asleep"
  /\ Goto(h, "fetch")
  /\ Works
  /\ UNCHANGED <<server, event, seen, checking, found>>

Fetch(h) ==
  /\ pc[h] = "fetch"
  /\ event[h].relevant
  /\ fetched' = [fetched EXCEPT ![h] = commits]
  /\ \/ commits = <<>> /\ Goto(h, "done") /\ quiet' = quiet \ {h}
     \/ commits # <<>> /\ Goto(h, "check") /\ UNCHANGED quiet
  /\ UNCHANGED <<server, event, seen, next, known, unsigned, found, faults>>

\* One commit: an email that is none counts as unsigned, one already asked about is
\* not asked about again.
\* (Mutant: off by one at the last commit.)
Checked_PastEnd(h, ok, asked) ==
  /\ next' = [next EXCEPT ![h] = @ + 1]
  /\ unsigned' = [unsigned EXCEPT ![h] = @ \/ ~ok]
  /\ known' = [known EXCEPT ![h] = asked]
  /\ Goto(h, IF next[h] > Len(fetched[h]) THEN "list" ELSE "check")
  /\ Works
  /\ UNCHANGED <<server, event, seen, fetched, found>>

Checked(h, ok, asked) ==
  /\ next' = [next EXCEPT ![h] = @ + 1]
  /\ unsigned' = [unsigned EXCEPT ![h] = @ \/ ~ok]
  /\ known' = [known EXCEPT ![h] = asked]
  /\ Goto(h, IF next[h] = Len(fetched[h]) THEN "list" ELSE "check")
  /\ Works
  /\ UNCHANGED <<server, event, seen, fetched, found>>

\* (Mutant: a commit without a valid email is passed over.)
NoEmail_PassedOver(h, e) == e \notin ValidEmail /\ Checked(h, TRUE, known[h])
NoEmail(h, e) == e \notin ValidEmail /\ Checked(h, FALSE, known[h])

AskedBefore(h, e) ==
  e \in known[h].yes \cup known[h].no /\ Checked(h, e \in known[h].yes, known[h])

IsSigned(h, e) ==
  /\ e \in ValidEmail \ (known[h].yes \cup known[h].no)
  /\ Checked(h, e \in signed,
             IF e \in signed THEN [known[h] EXCEPT !.yes = @ \cup {e}]
                             ELSE [known[h] EXCEPT !.no = @ \cup {e}])

IsSignedFails(h, e) ==
  /\ e \in ValidEmail \ (known[h].yes \cup known[h].no)
  /\ Fails(h)
  /\ Goto(h, "done")
  /\ UNCHANGED <<server, event, seen, checking, found>>

CheckCommit(h) ==
  /\ pc[h] = "check"
  /\ LET e == AuthorOf(fetched[h][next[h]]) IN
       NoEmail(h, e) \/ AskedBefore(h, e) \/ IsSigned(h, e) \/ IsSignedFails(h, e)

\* deleteSignGuide.
ListGuides(h) ==
  /\ pc[h] = "list"
  /\ \/ Works /\ found' = [found EXCEPT ![h] = guides]
             /\ Goto(h, IF guides = {} THEN "remove" ELSE "delete")
     \/ Fails(h) /\ UNCHANGED found /\ Goto(h, "remove")
  /\ UNCHANGED <<server, event, seen, checking>>

DeleteGuide(h) ==
  /\ pc[h] = "delete"
  /\ \E g \in found[h] :
       /\ found' = [found EXCEPT ![h] = @ \ {g}]
       /\ Goto(h, IF found[h] = {g} THEN "remove" ELSE "delete")
       /\ \/ Works /\ guides' = guides \ {g}
          \/ Fails(h) /\ UNCHANGED guides
  /\ UNCHANGED <<commits, signed, labels, thanks, event, seen, checking>>

Wrong(h) == IF unsigned[h] THEN "yes" ELSE "no"
Right(h) == IF unsigned[h] THEN "no" ELSE "yes"

\* The wrong label goes, if the payload had it; a failure is logged.
\* (Mutant: the two verdicts' labels are not exclusive.)
RemoveLabel_Keeps(h) ==
  /\ pc[h] = "remove"
  /\ Goto(h, "add")
  /\ Works
  /\ UNCHANGED <<server, event, seen, checking, found>>

RemoveLabel(h) ==
  /\ pc[h] = "remove"
  /\ Goto(h, "add")
  /\ \/ Wrong(h) \notin seen[h] /\ Works /\ UNCHANGED labels
     \/ Wrong(h) \in seen[h] /\ Works /\ labels' = labels \ {Wrong(h)}
     \/ Wrong(h) \in seen[h] /\ Fails(h) /\ UNCHANGED labels
  /\ UNCHANGED <<commits, signed, guides, thanks, event, seen, checking, found>>

\* The right one is added, unless the payload had it; the comment that follows
\* depends on the payload again, not on whether the call worked.
AddLabel(h) ==
  /\ pc[h] = "add"
  /\ Goto(h, IF unsigned[h] THEN "guide"
             ELSE IF Right(h) \notin seen[h] /\ event[h].check THEN "thank" ELSE "done")
  /\ \/ Right(h) \in seen[h] /\ Works /\ UNCHANGED labels
     \/ Right(h) \notin seen[h] /\ Works /\ labels' = labels \cup {Right(h)}
     \/ Right(h) \notin seen[h] /\ Fails(h) /\ UNCHANGED labels
  /\ UNCHANGED <<commits, signed, guides, thanks, event, seen, checking, found>>

PostGuide(h) ==
  /\ pc[h] = "guide"
  /\ Goto(h, "done")
  /\ \/ Works /\ guides' = guides \cup {h}
     \/ Fails(h) /\ UNCHANGED guides
  /\ UNCHANGED <<commits, signed, labels, thanks, event, seen, checking, found>>

PostThanks(h) ==
  /\ pc[h] = "thank"
  /\ Goto(h, "done")
  /\ \/ Works /\ thanks' = thanks \cup {h}
     \/ Fails(h) /\ UNCHANGED thanks
  /\ UNCHANGED <<commits, signed, labels, guides, event, seen, checking, found>>

Step(h) ==
  \/ Ignore(h) \/ FetchFails(h) \/ Retry(h) \/ Fetch(h) \/ CheckCommit(h)
  \/ ListGuides(h) \/ DeleteGuide(h) \/ RemoveLabel(h) \/ AddLabel(h)
  \/ PostGuide(h) \/ PostThanks(h)

Next ==
  \/ \E h \in Handler : Step(h)
  \/ \E h \in Handler, check, relevant \in BOOLEAN :
       Notify(h, [check |-> check, relevant |-> relevant])
  \/ \E h \in Handler, cs \in Histories : Push(h, cs)
  \/ \E e \in ValidEmail : Sign(e)

Spec == Init /\ [][Next]_vars

-----------------------------------------------------------------------------
(* Properties *)

\* Type invariant of the CLA robot.
TypeOK ==
  /\ commits \in Histories
  /\ signed \subseteq ValidEmail
  /\ labels \subseteq {"yes", "no"}
  /\ guides \subseteq Handler \cup {"earlier"}
  /\ thanks \subseteq Handler
  /\ pc \in [Handler -> {"none", "fetch", "asleep", "check", "list", "delete", "remove",
                         "add", "guide", "thank", "done"}]
  /\ event \in [Handler -> [check : BOOLEAN, relevant : BOOLEAN]]
  /\ seen \in [Handler -> SUBSET {"yes", "no"}]
  /\ \A h \in Handler :
       /\ fetched[h] \in Histories \cup {<<>>}
       /\ next[h] \in 1 .. Len(fetched[h]) + 1
       /\ pc[h] = "check" => next[h] <= Len(fetched[h])
  /\ known \in [Handler -> [yes : SUBSET Email, no : SUBSET Email]]
  /\ unsigned \in [Handler -> BOOLEAN]
  /\ found \in [Handler -> SUBSET (Handler \cup {"earlier"})]
  /\ faults \in 0 .. MaxFaults
  /\ quiet \subseteq Handler

\* The identity a commit answers for: the committer's if that is what is checked and
\* the commit was not made on the web page, the author's otherwise.
Signed(c) ==
  \/ CheckByCommitter /\ c.committer \notin LiteCommitter /\ c.committer \in signed
  \/ CheckByCommitter /\ c.committer \in LiteCommitter /\ c.author \in signed
  \/ ~CheckByCommitter /\ c.author \in signed
AllSigned(cs) == \A k \in DOMAIN cs : Signed(cs[k])

\* A handler nobody disturbed, with no other handler about and no call that failed,
\* leaves the pull request as the commits deserve: one cla label, the right one, and a
\* sign guide exactly if there is something left to sign, never two.
UndisturbedVerdict ==
  \A h \in quiet : pc[h] = "done" =>
    IF AllSigned(commits) THEN labels = {"yes"} /\ guides = {}
                          ELSE labels = {"no"} /\ Cardinality(guides) = 1

\* Whatever happens meanwhile, nobody is thanked for commits that are not signed: at
\* the time of the comment all the commits the handler was given are.
ThanksMeansSigned == \A h \in thanks : AllSigned(fetched[h])
=============================================================================
