----------------------------- MODULE LabelRobot -----------------------------
(***************************************************************************)
(* The label robot on one pull request: comments ask for labels to be put  *)
(* on or taken off, and every pull request event takes the labels of the   *)
(* configuration off again and checks the number of commits.               *)
(*                                                                         *)
(* Every handler decides on the labels its event carried (payload), makes  *)
(* one call per label, goes on after a failed one, and runs beside the     *)
(* handlers of other events and the people who edit the labels.  An action *)
(* is a call.  Labels are compared without case and written with it.       *)
(***************************************************************************)
EXTENDS Naturals, FiniteSets

CONSTANTS Label,       \* labels as somebody spells them
          Fold,        \* strings.ToLower, a function on Label
          RepoLabels,  \* the labels the repository starts with
          ClearLabels, \* those of clear_labels and of clear_labels_by_regexp
          SquashLabel, \* squash_commit_label
          Handler,     \* the events, each with its handler
          Events,      \* what an event may say
          MaxFaults,   \* how many calls fail
          MaxEdits     \* how often people change a label

Name == {Fold[l] : l \in Label}

\* A comment's labels (add, remove), whether its author is a collaborator, and whether
\* the configuration lets collaborators create labels (create); of a pull request event
\* whether it is to be checked for squashing and has too many commits.
Event == [kind : {"comment", "pull"}, add : SUBSET Label, remove : SUBSET Label,
          collab : BOOLEAN, create : BOOLEAN, squash : {"off", "few", "many"}]

ASSUME LabelAssumption ==
  /\ RepoLabels \subseteq Label
  /\ SquashLabel \in Label
  /\ Events \subseteq Event
  /\ \A e \in Events : IF e.kind = "comment" THEN e.squash = "off" ELSE e.add = {} /\ e.remove = {}
  /\ MaxFaults \in Nat /\ MaxEdits \in Nat

VARIABLES repo,     \* the labels of the repository
          pr,       \* the labels of the pull request
          pc,       \* [Handler -> the call a handler makes next]
          ev,       \* [Handler -> its event]
          payload,  \* [Handler -> the pull request's labels the event carried]
          todo,     \* [Handler -> the labels still to be put on or taken off]
          unknown,  \* [Handler -> asked for and not in the repository]
          told,     \* [Handler -> the names the handler's reply complains of]
          lost,     \* [Handler -> the names a failed call was about]
          touched,  \* [Handler -> the labels others changed since the event]
          faults, edits

handler == <<pc, ev, payload, todo, unknown, told>>
vars == <<repo, pr, handler, lost, touched, faults, edits>>

Phase == {"idle", "remove", "removing", "squash", "add", "collab", "creating", "adding", "report", "done"}

-----------------------------------------------------------------------------
(* Sets of labels compared without case *)

Folded(S) == {Fold[l] : l \in S}

\* newLabelSet: of two spellings the later one in the list is kept.
Spellings(S) == {f \in [Folded(S) -> S] : \A x \in Folded(S) : Fold[f[x]] = x}

\* labelSet.origin.
\* (Mutant: the folded names.)
Origin_Folded(f, names) == names \cap DOMAIN f
Origin(f, names) == {f[x] : x \in names \cap DOMAIN f}

\* A comment that asks for a label both ways is in conflict.
Disputed(e) == Folded(e.add) \cap Folded(e.remove)
Conflict(e) == Disputed(e) # {}

-----------------------------------------------------------------------------
(* Calls: they work, or they fail and are noted. *)

Works == UNCHANGED <<lost, faults>>
Fails(h, names) ==
  /\ faults < MaxFaults
  /\ faults' = faults + 1
  /\ lost' = [lost EXCEPT ![h] = @ \cup names]

\* The labels become new; for every handler but those in own it is somebody else's doing.
SetLabels(own, new) ==
  /\ pr' = new
  /\ touched' = [g \in Handler |->
       IF g \in own \/ pc[g] = "idle" THEN touched[g]
       ELSE touched[g] \cup (pr \ new) \cup (new \ pr)]
Leave == UNCHANGED <<pr, touched>>

\* What comes after a phase with the labels t left to handle and u to complain of.
\* (Mutant: a comment that takes labels off puts none on.)
NextPhase_ElseIf(e, phase, t, u) ==
  IF t # {} \/ phase = "creating" THEN phase
  ELSE IF phase = "adding" THEN IF u # {} THEN "report" ELSE "done"
  ELSE IF e.squash # "off" THEN "squash" ELSE "done"

NextPhase(e, phase, t, u) ==
  IF t # {} \/ phase = "creating" THEN phase
  ELSE IF phase = "adding" THEN IF u # {} THEN "report" ELSE "done"
  ELSE IF e.add # {} THEN "add"
  ELSE IF e.squash # "off" THEN "squash" ELSE "done"

Go(h, phase, t, u) ==
  /\ todo' = [todo EXCEPT ![h] = t]
  /\ unknown' = [unknown EXCEPT ![h] = u]
  /\ pc' = [pc EXCEPT ![h] = NextPhase(ev[h], phase, t, u)]
  /\ UNCHANGED <<ev, payload, told>>
End(h) ==
  /\ pc' = [pc EXCEPT ![h] = "done"]
  /\ UNCHANGED <<ev, payload, todo, unknown>>

-----------------------------------------------------------------------------

Init ==
  /\ repo = RepoLabels
  /\ pr \in SUBSET RepoLabels
  /\ pc = [h \in Handler |-> "idle"]
  /\ ev \in [Handler -> Events]
  /\ payload = [h \in Handler |-> {}]
  /\ todo = [h \in Handler |-> {}]
  /\ unknown = [h \in Handler |-> {}]
  /\ told = [h \in Handler |-> {}]
  /\ lost = [h \in Handler |-> {}]
  /\ touched = [h \in Handler |-> {}]
  /\ faults = 0
  /\ edits = 0

\* The event is sent with the labels of this moment.  A conflict ends its handler with
\* a reply that names the disputed labels, whatever else the comment asks for.
Send(h) ==
  LET e == ev[h]
      t == IF e.kind = "pull" THEN pr \cap ClearLabels ELSE {}
  IN /\ pc[h] = "idle"
     /\ payload' = [payload EXCEPT ![h] = pr]
     /\ todo' = [todo EXCEPT ![h] = t]
     /\ \E f \in Spellings(e.add) : unknown' = [unknown EXCEPT ![h] = Origin(f, Disputed(e))]
     /\ pc' = [pc EXCEPT ![h] = IF Conflict(e) THEN "report"
                                ELSE IF e.remove # {} THEN "remove"
                                ELSE NextPhase(e, "removing", t, {})]
     /\ UNCHANGED <<repo, pr, ev, told, lost, touched, faults, edits>>

\* filterRemoveLabels: the repository's labels are read ...
ReadToRemove(h) ==
  /\ pc[h] = "remove"
  /\ \/ /\ \E f \in Spellings(repo) :
             Go(h, "removing", payload[h] \cap Origin(f, Folded(ev[h].remove)), {})
        /\ Works
     \/ Go(h, "removing", {}, {}) /\ Fails(h, Folded(ev[h].remove))
  /\ Leave
  /\ UNCHANGED <<repo, edits>>

\* ... and what the event carried of them is taken off; or clearLabelCaseByPRCodeUpdate.
RemoveOne(h) ==
  /\ pc[h] = "removing"
  /\ \E l \in todo[h] :
       /\ Go(h, "removing", todo[h] \ {l}, {})
       /\ \/ SetLabels({h}, pr \ {l}) /\ Works
          \/ Leave /\ Fails(h, {Fold[l]})
  /\ UNCHANGED <<repo, edits>>

\* checkLabelsToAdd: missing labels may be created, if the configuration lets collaborators.
Found(h, can, missing) ==
  IF missing # {} /\ ev[h].create
    THEN /\ todo' = [todo EXCEPT ![h] = can]
         /\ unknown' = [unknown EXCEPT ![h] = missing]
         /\ pc' = [pc EXCEPT ![h] = "collab"]
         /\ UNCHANGED <<ev, payload>>
    ELSE Go(h, "adding", can \ payload[h], missing)

\* An error ends the handler with nothing put on.
ReadToAdd(h) ==
  /\ pc[h] = "add"
  /\ \/ /\ Works
        /\ \E f \in Spellings(repo), g \in Spellings(ev[h].add) :
             Found(h, Origin(f, DOMAIN g), Origin(g, DOMAIN g \ DOMAIN f))
     \/ Fails(h, Folded(ev[h].add)) /\ End(h)
  /\ Leave
  /\ UNCHANGED <<repo, edits, told>>

\* (Mutant: whoever comments.)
AskCollaborator_Anyone(h) ==
  /\ pc[h] = "collab"
  /\ Go(h, "creating", (todo[h] \cup unknown[h]) \ payload[h], unknown[h])
  /\ Works
  /\ Leave
  /\ UNCHANGED <<repo, edits>>

AskCollaborator(h) ==
  /\ pc[h] = "collab"
  /\ \/ ~ev[h].collab /\ Works /\ Go(h, "adding", todo[h] \ payload[h], unknown[h])
     \/ ev[h].collab /\ Works
        /\ Go(h, "creating", (todo[h] \cup unknown[h]) \ payload[h], unknown[h])
     \/ Fails(h, Folded(ev[h].add)) /\ End(h) /\ UNCHANGED told
  /\ Leave
  /\ UNCHANGED <<repo, edits>>

\* createLabelsOfRepo: an error is only logged.
CreateOne(h) ==
  /\ pc[h] = "creating"
  /\ \E l \in unknown[h] :
       /\ Go(h, IF unknown[h] = {l} THEN "adding" ELSE "creating", todo[h], unknown[h] \ {l})
       /\ \/ repo' = repo \cup {l} /\ Works
          \/ repo' = repo /\ Fails(h, {})
  /\ Leave
  /\ UNCHANGED edits

\* addLabels.
AddOne(h) ==
  /\ pc[h] = "adding"
  /\ \E l \in todo[h] :
       /\ Go(h, "adding", todo[h] \ {l}, unknown[h])
       /\ \/ SetLabels({h}, pr \cup {l}) /\ Works
          \/ Leave /\ Fails(h, {Fold[l]})
  /\ UNCHANGED <<repo, edits>>

\* handleSquashLabel, on the labels the event carried.
\* (Mutant: the label is not taken off again.)
AfterCheck_Stays(h) == IF ev[h].squash = "many" THEN pr \cup {SquashLabel} ELSE pr
AfterCheck(h) ==
  IF (ev[h].squash = "many") = (SquashLabel \in payload[h]) THEN pr
  ELSE IF ev[h].squash = "many" THEN pr \cup {SquashLabel}
  ELSE pr \ {SquashLabel}

CheckSquash(h) ==
  /\ pc[h] = "squash"
  /\ \/ SetLabels({h}, AfterCheck(h)) /\ Works
     \/ Leave /\ Fails(h, {Fold[SquashLabel]})
  /\ End(h)
  /\ UNCHANGED <<repo, told, edits>>

\* The reply: labels the repository does not have, or a conflict.
Report(h) ==
  /\ pc[h] = "report"
  /\ \/ told' = [told EXCEPT ![h] = Folded(unknown[h])] /\ Works
     \/ told' = told /\ Fails(h, Folded(unknown[h]))
  /\ End(h)
  /\ Leave
  /\ UNCHANGED <<repo, edits>>

\* Somebody puts a label on or takes one off.
Edit ==
  /\ edits < MaxEdits
  /\ edits' = edits + 1
  /\ \E l \in repo : SetLabels({}, IF l \in pr THEN pr \ {l} ELSE pr \cup {l})
  /\ UNCHANGED <<repo, handler, lost, faults>>

Step(h) ==
  \/ ReadToRemove(h) \/ RemoveOne(h) \/ ReadToAdd(h) \/ AskCollaborator(h)
  \/ CreateOne(h) \/ AddOne(h) \/ CheckSquash(h) \/ Report(h)

Finished == (\A h \in Handler : pc[h] = "done") /\ edits = MaxEdits /\ UNCHANGED vars

Next == (\E h \in Handler : Send(h) \/ Step(h)) \/ Edit \/ Finished

Spec == Init /\ [][Next]_vars

-----------------------------------------------------------------------------
(* Properties *)

\* Type invariant: labels keep their case wherever a call is made with them.
TypeOK ==
  /\ repo \in SUBSET Label
  /\ pr \in SUBSET Label
  /\ pc \in [Handler -> Phase]
  /\ ev \in [Handler -> Events]
  /\ payload \in [Handler -> SUBSET Label]
  /\ todo \in [Handler -> SUBSET Label]
  /\ unknown \in [Handler -> SUBSET Label]
  /\ told \in [Handler -> SUBSET Name]
  /\ lost \in [Handler -> SUBSET Name]
  /\ touched \in [Handler -> SUBSET Label]
  /\ faults \in 0 .. MaxFaults
  /\ edits \in 0 .. MaxEdits

\* Once a comment's handler has ended, every label it asks for is on the pull request
\* and none it asks to remove is left, except for those named in its reply, those a
\* failed call was about and those somebody else changed after the event was sent: one
\* label's failure costs no other, and the stale payload costs only what has changed.
\* A label the repository has in two spellings, or gained by then, may stay.  Nothing of
\* this holds for a comment with a conflict: its reply, if it does not fail, names the
\* disputed labels and none of the others, which are neither put on nor taken off.
Excused(h) == told[h] \cup lost[h] \cup Folded(touched[h])
OnlySpelling(l) == l \in RepoLabels /\ \A m \in repo : Fold[m] = Fold[l] => m = l
Obeyed(h) ==
  /\ Folded(ev[h].add) \subseteq Folded(pr) \cup Excused(h)
  /\ \A l \in pr : Fold[l] \in Folded(ev[h].remove) /\ OnlySpelling(l) => Fold[l] \in Excused(h)
AsksAreMet ==
  \A h \in Handler : pc[h] = "done" /\ ev[h].kind = "comment" =>
    IF Conflict(ev[h]) THEN told[h] \cup lost[h] = Disputed(ev[h]) ELSE Obeyed(h)

\* A label the repository did not have, the squash label apart, appears in it, or on the
\* pull request, only if a collaborator asked for it under a configuration that allows
\* that.
AskedByCollaborator ==
  UNION {ev[h].add : h \in {g \in Handler : pc[g] # "idle" /\ ev[g].collab /\ ev[g].create}}
OnlyCollaboratorsIntroduce ==
  repo \cup pr \subseteq RepoLabels \cup {SquashLabel} \cup AskedByCollaborator

\* When the handler of new code has ended, the squash label tells whether there are too
\* many commits, if nobody else changed it, no call failed and it is not itself one of
\* the labels to clear.
SquashFollowsCommits ==
  \A h \in Handler :
    /\ pc[h] = "done" /\ ev[h].squash # "off"
    /\ SquashLabel \notin touched[h] \cup ClearLabels
    /\ Fold[SquashLabel] \notin lost[h]
    => (SquashLabel \in pr <=> ev[h].squash = "many")
=============================================================================
