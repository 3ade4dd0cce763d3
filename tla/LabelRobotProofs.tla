-------------------------- MODULE LabelRobotProofs --------------------------
(***************************************************************************)
(* Theorems about the label robot, for every set of labels, events and     *)
(* handlers and every spelling.  The invariant says, for each phase of a   *)
(* handler, what has become of the labels it was asked for: what it has    *)
(* not dealt with yet is in todo or unknown, and whatever else differs     *)
(* from the labels its event carried is somebody else's doing or its own.  *)
(***************************************************************************)
EXTENDS LabelRobot, TLAPS

\* What a comment asks for, if it is without a conflict.
Asked(h) == IF Conflict(ev[h]) THEN {} ELSE Folded(ev[h].add)
Barred(h) == IF Conflict(ev[h]) THEN {} ELSE Folded(ev[h].remove)

\* Where labels that are not the repository's can be.
Known == RepoLabels \cup {SquashLabel} \cup AskedByCollaborator
Introduced ==
  /\ RepoLabels \subseteq repo
  /\ repo \cup pr \subseteq Known
  /\ \A h \in Handler : todo[h] \subseteq Known
  /\ \A h \in Handler : pc[h] \in {"collab", "creating"} => unknown[h] \subseteq ev[h].add /\ ev[h].create
  /\ \A h \in Handler : pc[h] = "creating" => ev[h].collab

\* A comment's handler knows what the pull request has, but for what it or others have
\* changed since.
KnowsLabels(h) ==
  /\ pc[h] = "remove" => pr \ payload[h] \subseteq touched[h]
  /\ pc[h] \in {"remove", "removing", "add", "collab"} =>
       \A l \in payload[h] \ pr : l \in touched[h] \/ Fold[l] \in Barred(h)

\* A handler that makes calls has no conflict, and takes off and puts on what it is
\* asked for.
CallsAsAsked(h) ==
  /\ pc[h] # "squash"
  /\ pc[h] \in {"remove", "removing", "add", "collab", "creating", "adding"} => ~Conflict(ev[h])
  /\ pc[h] = "removing" => \A l \in todo[h] : Fold[l] \in Barred(h)
  /\ pc[h] \in {"collab", "creating", "adding"} => \A l \in todo[h] \cup unknown[h] : Fold[l] \in Asked(h)

\* What has become of a label a comment asks for ...
AddsDone(h) ==
  \A x \in Asked(h) :
    /\ pc[h] = "collab" => x \in Folded(todo[h] \cup unknown[h])
    /\ pc[h] = "creating" => x \in Folded(todo[h] \cup pr) \cup Excused(h)
    /\ pc[h] = "adding" => x \in Folded(todo[h] \cup unknown[h] \cup pr) \cup Excused(h)
    /\ pc[h] = "report" => x \in Folded(unknown[h] \cup pr) \cup Excused(h)
    /\ pc[h] = "done" => x \in Folded(pr) \cup Excused(h)

\* ... and why one it asks to take off is still there.
RemovesDone(h) ==
  \A l \in pr : Fold[l] \in Barred(h) /\ OnlySpelling(l) =>
    /\ pc[h] = "removing" => l \in todo[h] \/ Fold[l] \in Excused(h)
    /\ pc[h] = "report" => Fold[l] \in Folded(unknown[h]) \cup Excused(h)
    /\ pc[h] \in {"add", "collab", "creating", "adding", "done"} => Fold[l] \in Excused(h)

CommentInv(h) ==
  /\ pc[h] # "done" => told[h] = {}
  /\ KnowsLabels(h) /\ CallsAsAsked(h) /\ AddsDone(h) /\ RemovesDone(h)

\* The handler of a pull request event, as far as the squash label goes.
Undisturbed(h) == SquashLabel \notin touched[h] \cup ClearLabels /\ Fold[SquashLabel] \notin lost[h]
PullInv(h) ==
  /\ pc[h] \in {"idle", "removing", "squash", "done"}
  /\ pc[h] = "removing" => todo[h] \subseteq ClearLabels
  /\ pc[h] \in {"removing", "squash"} /\ Undisturbed(h) =>
       (SquashLabel \in pr <=> SquashLabel \in payload[h])
  /\ pc[h] = "done" /\ ev[h].squash # "off" /\ Undisturbed(h) =>
       (SquashLabel \in pr <=> ev[h].squash = "many")

HandlerInv(h) == IF ev[h].kind = "comment" THEN CommentInv(h) ELSE PullInv(h)
IInv == TypeOK /\ Introduced /\ \A h \in Handler : HandlerInv(h)

-----------------------------------------------------------------------------
(* Sets of labels compared without case *)

LEMMA SpellingsFact ==
  ASSUME NEW S, NEW f \in Spellings(S)
  PROVE  /\ DOMAIN f = Folded(S)
         /\ \A x \in Folded(S) : f[x] \in S /\ Fold[f[x]] = x
BY DEF Spellings

\* What a set of spellings makes of names: one spelling of each name it has.
LEMMA OriginFact ==
  ASSUME NEW S, NEW f \in Spellings(S), NEW names
  PROVE  /\ Origin(f, names) \subseteq S
         /\ Folded(Origin(f, names)) = names \cap Folded(S)
<1>1. DOMAIN f = Folded(S) /\ \A x \in Folded(S) : f[x] \in S /\ Fold[f[x]] = x
  BY SpellingsFact
<1>. QED
  BY <1>1 DEF Origin, Folded

LEMMA FoldedType == ASSUME NEW S \in SUBSET Label PROVE Folded(S) \subseteq Name
BY DEF Folded, Name

-----------------------------------------------------------------------------
(* Type correctness *)

LEMMA NextPhaseType ==
  ASSUME NEW e, NEW phase \in Phase, NEW t, NEW u
  PROVE  NextPhase(e, phase, t, u) \in Phase
BY DEF NextPhase, Phase

\* Calls keep the types of what they change.
LEMMA GoType ==
  ASSUME TypeOK, NEW h \in Handler, NEW phase \in Phase, NEW t \in SUBSET Label,
         NEW u \in SUBSET Label, Go(h, phase, t, u)
  PROVE  /\ pc' \in [Handler -> Phase] /\ ev' \in [Handler -> Events]
         /\ payload' \in [Handler -> SUBSET Label] /\ todo' \in [Handler -> SUBSET Label]
         /\ unknown' \in [Handler -> SUBSET Label] /\ told' \in [Handler -> SUBSET Name]
<1>1. NextPhase(ev[h], phase, t, u) \in Phase
  BY NextPhaseType
<1>. QED
  BY <1>1 DEF Go, TypeOK

LEMMA EndType ==
  ASSUME TypeOK, NEW h \in Handler, End(h)
  PROVE  /\ pc' \in [Handler -> Phase] /\ ev' \in [Handler -> Events]
         /\ payload' \in [Handler -> SUBSET Label] /\ todo' \in [Handler -> SUBSET Label]
         /\ unknown' \in [Handler -> SUBSET Label]
BY DEF End, TypeOK, Phase

LEMMA CallType ==
  ASSUME TypeOK, NEW h \in Handler,
         Works \/ \E names \in SUBSET Name : Fails(h, names)
  PROVE  lost' \in [Handler -> SUBSET Name] /\ faults' \in 0 .. MaxFaults
BY LabelAssumption DEF Works, Fails, TypeOK

LEMMA SetType ==
  ASSUME TypeOK, Leave \/ \E new \in SUBSET Label : \E own \in SUBSET Handler : SetLabels(own, new)
  PROVE  pr' \in SUBSET Label /\ touched' \in [Handler -> SUBSET Label]
<1>1. CASE Leave
  BY <1>1 DEF Leave, TypeOK
<1>2. ASSUME NEW new \in SUBSET Label, NEW own \in SUBSET Handler, SetLabels(own, new)
      PROVE  pr' \in SUBSET Label /\ touched' \in [Handler -> SUBSET Label]
  <2>1. (pr \ new) \cup (new \ pr) \subseteq Label
    BY DEF TypeOK
  <2>. QED
    BY <1>2, <2>1 DEF SetLabels, TypeOK
<1>. QED
  BY <1>1, <1>2

LEMMA EventType ==
  ASSUME TypeOK, NEW h \in Handler
  PROVE  /\ ev[h] \in Events /\ ev[h].add \in SUBSET Label /\ ev[h].remove \in SUBSET Label
         /\ Folded(ev[h].add) \in SUBSET Name /\ Folded(ev[h].remove) \in SUBSET Name
<1>1. ev[h] \in Events /\ ev[h] \in Event
  BY LabelAssumption DEF TypeOK
<1>2. ev[h].add \in SUBSET Label /\ ev[h].remove \in SUBSET Label
  BY <1>1 DEF Event
<1>. QED
  BY <1>1, <1>2, FoldedType

LEMMA SendType == ASSUME TypeOK, NEW h \in Handler, Send(h) PROVE TypeOK'
<1>. DEFINE t == IF ev[h].kind = "pull" THEN pr \cap ClearLabels ELSE {}
<1>0. PICK f \in Spellings(ev[h].add) : unknown' = [unknown EXCEPT ![h] = Origin(f, Disputed(ev[h]))]
  BY DEF Send
<1>1. t \in SUBSET Label /\ Origin(f, Disputed(ev[h])) \in SUBSET Label
  BY OriginFact, EventType DEF TypeOK
<1>2. NextPhase(ev[h], "removing", t, {}) \in Phase
  BY NextPhaseType DEF Phase
<1>3. /\ payload' = [payload EXCEPT ![h] = pr] /\ todo' = [todo EXCEPT ![h] = t]
      /\ \E p \in Phase : pc' = [pc EXCEPT ![h] = p]
      /\ UNCHANGED <<repo, pr, ev, told, lost, touched, faults, edits>>
  BY <1>2 DEF Send, Phase
<1>. HIDE DEF t
<1>. QED
  BY <1>0, <1>1, <1>3 DEF TypeOK

LEMMA ReadToRemoveType == ASSUME TypeOK, NEW h \in Handler, ReadToRemove(h) PROVE TypeOK'
<1>1. pr' \in SUBSET Label /\ touched' \in [Handler -> SUBSET Label]
  BY SetType DEF ReadToRemove
<1>2. lost' \in [Handler -> SUBSET Name] /\ faults' \in 0 .. MaxFaults
  BY CallType, EventType DEF ReadToRemove
<1>3. PICK t \in SUBSET Label : Go(h, "removing", t, {})
  <2>1. CASE Go(h, "removing", {}, {})
    BY <2>1
  <2>2. ASSUME NEW f \in Spellings(repo), Go(h, "removing", payload[h] \cap Origin(f, Folded(ev[h].remove)), {})
        PROVE \E t \in SUBSET Label : Go(h, "removing", t, {})
    <3>1. payload[h] \cap Origin(f, Folded(ev[h].remove)) \in SUBSET Label
      BY DEF TypeOK
    <3>. QED
      BY <2>2, <3>1
  <2>. QED
    BY <2>1, <2>2 DEF ReadToRemove
<1>4. UNCHANGED <<repo, edits>>
  BY DEF ReadToRemove
<1>5. "removing" \in Phase /\ {} \in SUBSET Label
  BY DEF Phase
<1>. QED
  BY <1>1, <1>2, <1>3, <1>4, <1>5, GoType DEF TypeOK

LEMMA RemoveOneType == ASSUME TypeOK, NEW h \in Handler, RemoveOne(h) PROVE TypeOK'
<1>1. PICK l \in todo[h] :
        /\ Go(h, "removing", todo[h] \ {l}, {})
        /\ (SetLabels({h}, pr \ {l}) /\ Works) \/ (Leave /\ Fails(h, {Fold[l]}))
  BY DEF RemoveOne
<1>2. l \in Label /\ {Fold[l]} \in SUBSET Name /\ todo[h] \ {l} \in SUBSET Label /\ pr \ {l} \in SUBSET Label
  BY DEF TypeOK, Name
<1>3. pr' \in SUBSET Label /\ touched' \in [Handler -> SUBSET Label]
  BY <1>1, <1>2, SetType
<1>4. lost' \in [Handler -> SUBSET Name] /\ faults' \in 0 .. MaxFaults
  BY <1>1, <1>2, CallType
<1>5. UNCHANGED <<repo, edits>>
  BY DEF RemoveOne
<1>6. "removing" \in Phase /\ {} \in SUBSET Label
  BY DEF Phase
<1>. QED
  BY <1>1, <1>2, <1>3, <1>4, <1>5, <1>6, GoType DEF TypeOK

LEMMA ReadToAddType == ASSUME TypeOK, NEW h \in Handler, ReadToAdd(h) PROVE TypeOK'
<1>1. pr' \in SUBSET Label /\ touched' \in [Handler -> SUBSET Label]
  BY SetType DEF ReadToAdd
<1>2. lost' \in [Handler -> SUBSET Name] /\ faults' \in 0 .. MaxFaults
  BY CallType, EventType DEF ReadToAdd
<1>3. UNCHANGED <<repo, edits, told>>
  BY DEF ReadToAdd
<1>4. /\ pc' \in [Handler -> Phase] /\ ev' \in [Handler -> Events]
      /\ payload' \in [Handler -> SUBSET Label] /\ todo' \in [Handler -> SUBSET Label]
      /\ unknown' \in [Handler -> SUBSET Label]
  <2>1. CASE End(h)
    BY <2>1, EndType
  <2>2. ASSUME NEW f \in Spellings(repo), NEW g \in Spellings(ev[h].add),
               NEW can, can = Origin(f, DOMAIN g),
               NEW missing, missing = Origin(g, DOMAIN g \ DOMAIN f),
               Found(h, can, missing)
        PROVE  /\ pc' \in [Handler -> Phase] /\ ev' \in [Handler -> Events]
               /\ payload' \in [Handler -> SUBSET Label] /\ todo' \in [Handler -> SUBSET Label]
               /\ unknown' \in [Handler -> SUBSET Label]
    <3>1. can \in SUBSET Label /\ missing \in SUBSET Label /\ can \ payload[h] \in SUBSET Label
      BY <2>2, OriginFact, EventType DEF TypeOK
    <3>2. CASE missing # {} /\ ev[h].create
      <4>1. /\ todo' = [todo EXCEPT ![h] = can] /\ unknown' = [unknown EXCEPT ![h] = missing]
            /\ pc' = [pc EXCEPT ![h] = "collab"] /\ UNCHANGED <<ev, payload>>
        BY <2>2, <3>2 DEF Found
      <4>. QED
        BY <3>1, <4>1 DEF TypeOK, Phase
    <3>3. CASE ~(missing # {} /\ ev[h].create)
      <4>1. Go(h, "adding", can \ payload[h], missing) /\ "adding" \in Phase
        BY <2>2, <3>3 DEF Found, Phase
      <4>. QED
        BY <3>1, <4>1, GoType
    <3>. QED
      BY <3>2, <3>3
  <2>. QED
    BY <2>1, <2>2 DEF ReadToAdd
<1>. QED
  BY <1>1, <1>2, <1>3, <1>4 DEF TypeOK

LEMMA AskCollaboratorType == ASSUME TypeOK, NEW h \in Handler, AskCollaborator(h) PROVE TypeOK'
<1>. DEFINE few == todo[h] \ payload[h]
            all == (todo[h] \cup unknown[h]) \ payload[h]
<1>1. few \in SUBSET Label /\ all \in SUBSET Label /\ unknown[h] \in SUBSET Label
  BY DEF TypeOK
<1>2. pr' \in SUBSET Label /\ touched' \in [Handler -> SUBSET Label]
  BY SetType DEF AskCollaborator
<1>3. lost' \in [Handler -> SUBSET Name] /\ faults' \in 0 .. MaxFaults
  BY CallType, EventType DEF AskCollaborator
<1>4. /\ \/ Go(h, "adding", few, unknown[h])
         \/ Go(h, "creating", all, unknown[h])
         \/ End(h) /\ UNCHANGED told
      /\ UNCHANGED <<repo, edits>>
  BY DEF AskCollaborator
<1>5. "adding" \in Phase /\ "creating" \in Phase
  BY DEF Phase
<1>. HIDE DEF few, all
<1>6. /\ pc' \in [Handler -> Phase] /\ ev' \in [Handler -> Events]
      /\ payload' \in [Handler -> SUBSET Label] /\ todo' \in [Handler -> SUBSET Label]
      /\ unknown' \in [Handler -> SUBSET Label] /\ told' \in [Handler -> SUBSET Name]
  <2>1. CASE Go(h, "adding", few, unknown[h])
    BY <2>1, <1>1, <1>5, GoType
  <2>2. CASE Go(h, "creating", all, unknown[h])
    BY <2>2, <1>1, <1>5, GoType
  <2>3. CASE End(h) /\ UNCHANGED told
    BY <2>3, EndType DEF TypeOK
  <2>. QED
    BY <1>4, <2>1, <2>2, <2>3
<1>. QED
  BY <1>2, <1>3, <1>4, <1>6 DEF TypeOK

LEMMA CreateOneType == ASSUME TypeOK, NEW h \in Handler, CreateOne(h) PROVE TypeOK'
<1>1. PICK l \in unknown[h] :
        /\ Go(h, IF unknown[h] = {l} THEN "adding" ELSE "creating", todo[h], unknown[h] \ {l})
        /\ (repo' = repo \cup {l} /\ Works) \/ (repo' = repo /\ Fails(h, {}))
  BY DEF CreateOne
<1>2. /\ l \in Label /\ {} \in SUBSET Name /\ todo[h] \in SUBSET Label /\ unknown[h] \ {l} \in SUBSET Label
      /\ (IF unknown[h] = {l} THEN "adding" ELSE "creating") \in Phase
  BY DEF TypeOK, Phase
<1>3. pr' \in SUBSET Label /\ touched' \in [Handler -> SUBSET Label] /\ edits' = edits
  BY SetType DEF CreateOne
<1>4. lost' \in [Handler -> SUBSET Name] /\ faults' \in 0 .. MaxFaults
  BY <1>1, <1>2, CallType
<1>5. repo' \in SUBSET Label
  BY <1>1, <1>2 DEF TypeOK
<1>. QED
  BY <1>1, <1>2, <1>3, <1>4, <1>5, GoType DEF TypeOK

LEMMA AddOneType == ASSUME TypeOK, NEW h \in Handler, AddOne(h) PROVE TypeOK'
<1>1. PICK l \in todo[h] :
        /\ Go(h, "adding", todo[h] \ {l}, unknown[h])
        /\ (SetLabels({h}, pr \cup {l}) /\ Works) \/ (Leave /\ Fails(h, {Fold[l]}))
  BY DEF AddOne
<1>2. /\ l \in Label /\ {Fold[l]} \in SUBSET Name /\ todo[h] \ {l} \in SUBSET Label
      /\ unknown[h] \in SUBSET Label /\ pr \cup {l} \in SUBSET Label
  BY DEF TypeOK, Name
<1>3. pr' \in SUBSET Label /\ touched' \in [Handler -> SUBSET Label]
  BY <1>1, <1>2, SetType
<1>4. lost' \in [Handler -> SUBSET Name] /\ faults' \in 0 .. MaxFaults
  BY <1>1, <1>2, CallType
<1>5. UNCHANGED <<repo, edits>> /\ "adding" \in Phase
  BY DEF AddOne, Phase
<1>. QED
  BY <1>1, <1>2, <1>3, <1>4, <1>5, GoType DEF TypeOK

LEMMA CheckSquashType == ASSUME TypeOK, NEW h \in Handler, CheckSquash(h) PROVE TypeOK'
<1>1. AfterCheck(h) \in SUBSET Label /\ {Fold[SquashLabel]} \in SUBSET Name
  BY LabelAssumption DEF AfterCheck, TypeOK, Name
<1>2. pr' \in SUBSET Label /\ touched' \in [Handler -> SUBSET Label]
  BY <1>1, SetType DEF CheckSquash
<1>3. lost' \in [Handler -> SUBSET Name] /\ faults' \in 0 .. MaxFaults
  BY <1>1, CallType DEF CheckSquash
<1>4. End(h) /\ UNCHANGED <<repo, told, edits>>
  BY DEF CheckSquash
<1>. QED
  BY <1>2, <1>3, <1>4, EndType DEF TypeOK

LEMMA ReportType == ASSUME TypeOK, NEW h \in Handler, Report(h) PROVE TypeOK'
<1>1. Folded(unknown[h]) \in SUBSET Name
  BY FoldedType DEF TypeOK
<1>2. pr' \in SUBSET Label /\ touched' \in [Handler -> SUBSET Label]
  BY SetType DEF Report
<1>3. lost' \in [Handler -> SUBSET Name] /\ faults' \in 0 .. MaxFaults
  BY <1>1, CallType DEF Report
<1>4. End(h) /\ UNCHANGED <<repo, edits>> /\ told' \in [Handler -> SUBSET Name]
  BY <1>1 DEF Report, TypeOK
<1>. QED
  BY <1>2, <1>3, <1>4, EndType DEF TypeOK

LEMMA EditType == ASSUME TypeOK, Edit PROVE TypeOK'
<1>1. PICK l \in repo : SetLabels({}, IF l \in pr THEN pr \ {l} ELSE pr \cup {l})
  BY DEF Edit
<1>2. (IF l \in pr THEN pr \ {l} ELSE pr \cup {l}) \in SUBSET Label
  BY DEF TypeOK
<1>3. pr' \in SUBSET Label /\ touched' \in [Handler -> SUBSET Label]
  BY <1>1, <1>2, SetType
<1>4. edits' \in 0 .. MaxEdits
  BY LabelAssumption DEF Edit, TypeOK
<1>. QED
  BY <1>3, <1>4 DEF Edit, TypeOK, handler

LEMMA NextType == TypeOK /\ [Next]_vars => TypeOK'
<1>. SUFFICES ASSUME TypeOK, [Next]_vars PROVE TypeOK'
  OBVIOUS
<1>1. ASSUME NEW h \in Handler, Step(h) PROVE TypeOK'
  BY <1>1, ReadToRemoveType, RemoveOneType, ReadToAddType, AskCollaboratorType,
     CreateOneType, AddOneType, CheckSquashType, ReportType DEF Step
<1>2. CASE UNCHANGED vars
  BY <1>2 DEF TypeOK, vars, handler
<1>. QED
  BY <1>1, <1>2, SendType, EditType DEF Next, Finished

LEMMA InitType == Init => TypeOK
BY LabelAssumption DEF Init, TypeOK, Phase

\* The state is well typed in every reachable state: labels keep their case wherever a
\* call is made with them.
THEOREM TypeCorrect == Spec => []TypeOK
BY InitType, NextType, PTL DEF Spec

-----------------------------------------------------------------------------
(* What a handler's step leaves alone *)

\* Only the handler's own state changes, and what it does to the labels is noted for
\* the others.
Frame(h) ==
  /\ \E p \in Phase \ {"idle"} : pc' = [pc EXCEPT ![h] = p]
  /\ ev' = ev
  /\ repo \subseteq repo'
  /\ \A g \in Handler \ {h} :
       /\ payload'[g] = payload[g] /\ todo'[g] = todo[g] /\ unknown'[g] = unknown[g]
       /\ told'[g] = told[g] /\ lost'[g] = lost[g]
  /\ lost[h] \subseteq lost'[h]
  /\ \A g \in Handler : touched'[g] =
       IF g = h \/ pc[g] = "idle" THEN touched[g] ELSE touched[g] \cup (pr \ pr') \cup (pr' \ pr)

LEMMA GoFrame ==
  ASSUME TypeOK, NEW h \in Handler, NEW phase \in Phase \ {"idle"}, NEW t, NEW u, Go(h, phase, t, u)
  PROVE  /\ \E p \in Phase \ {"idle"} : pc' = [pc EXCEPT ![h] = p]
         /\ UNCHANGED <<ev, payload, told>>
         /\ \A g \in Handler \ {h} : todo'[g] = todo[g] /\ unknown'[g] = unknown[g]
         /\ todo'[h] = t /\ unknown'[h] = u /\ pc'[h] = NextPhase(ev[h], phase, t, u)
<1>1. NextPhase(ev[h], phase, t, u) \in Phase \ {"idle"}
  BY DEF NextPhase, Phase
<1>. QED
  BY <1>1 DEF Go, TypeOK

LEMMA EndFrame ==
  ASSUME TypeOK, NEW h \in Handler, End(h)
  PROVE  /\ \E p \in Phase \ {"idle"} : pc' = [pc EXCEPT ![h] = p]
         /\ pc'[h] = "done"
         /\ UNCHANGED <<ev, payload, todo, unknown>>
BY DEF End, TypeOK, Phase

LEMMA CallFrame ==
  ASSUME TypeOK, NEW h \in Handler, NEW names, Works \/ Fails(h, names)
  PROVE  /\ \A g \in Handler \ {h} : lost'[g] = lost[g]
         /\ lost[h] \subseteq lost'[h]
         /\ Works => lost'[h] = lost[h]
         /\ Fails(h, names) => lost'[h] = lost[h] \cup names
BY DEF Works, Fails, TypeOK

LEMMA SetFrame ==
  ASSUME TypeOK, NEW h \in Handler, NEW new, Leave \/ SetLabels({h}, new)
  PROVE  /\ \A g \in Handler : touched'[g] =
              IF g = h \/ pc[g] = "idle" THEN touched[g] ELSE touched[g] \cup (pr \ pr') \cup (pr' \ pr)
         /\ SetLabels({h}, new) => pr' = new
<1>1. CASE Leave
  BY <1>1 DEF Leave, SetLabels
<1>2. CASE SetLabels({h}, new)
  BY <1>2 DEF SetLabels
<1>. QED
  BY <1>1, <1>2

LEMMA SendFrame == ASSUME TypeOK, NEW h \in Handler, Send(h) PROVE Frame(h)
<1>1. \A t, u : NextPhase(ev[h], "removing", t, u) \in Phase \ {"idle"}
  BY DEF NextPhase, Phase
<1>2. \E p \in Phase \ {"idle"} : pc' = [pc EXCEPT ![h] = p]
  BY <1>1 DEF Send, Phase
<1>3. /\ \A g \in Handler \ {h} : payload'[g] = payload[g] /\ todo'[g] = todo[g] /\ unknown'[g] = unknown[g]
      /\ UNCHANGED <<repo, pr, ev, told, lost, touched>>
  BY DEF Send, TypeOK
<1>. QED
  BY <1>2, <1>3 DEF Frame

LEMMA ReadToRemoveFrame == ASSUME TypeOK, NEW h \in Handler, ReadToRemove(h) PROVE Frame(h)
<1>1. "removing" \in Phase \ {"idle"}
  BY DEF Phase
<1>2. \E t : Go(h, "removing", t, {})
  BY DEF ReadToRemove
<1>3. (Works \/ Fails(h, Folded(ev[h].remove))) /\ Leave /\ UNCHANGED repo
  BY DEF ReadToRemove
<1>. QED
  BY <1>1, <1>2, <1>3, GoFrame, CallFrame, SetFrame DEF Frame

LEMMA RemoveOneFrame == ASSUME TypeOK, NEW h \in Handler, RemoveOne(h) PROVE Frame(h)
<1>1. PICK l \in todo[h] :
        /\ Go(h, "removing", todo[h] \ {l}, {})
        /\ (SetLabels({h}, pr \ {l}) /\ Works) \/ (Leave /\ Fails(h, {Fold[l]}))
  BY DEF RemoveOne
<1>2. "removing" \in Phase \ {"idle"} /\ UNCHANGED repo
  BY DEF Phase, RemoveOne
<1>. QED
  BY <1>1, <1>2, GoFrame, CallFrame, SetFrame DEF Frame

LEMMA ReadToAddFrame == ASSUME TypeOK, NEW h \in Handler, ReadToAdd(h) PROVE Frame(h)
<1>1. (Works \/ Fails(h, Folded(ev[h].add))) /\ Leave /\ UNCHANGED <<repo, told>>
  BY DEF ReadToAdd
<1>2. /\ \E p \in Phase \ {"idle"} : pc' = [pc EXCEPT ![h] = p]
      /\ UNCHANGED <<ev, payload>>
      /\ \A g \in Handler \ {h} : todo'[g] = todo[g] /\ unknown'[g] = unknown[g]
  <2>1. CASE End(h)
    BY <2>1, EndFrame
  <2>2. ASSUME NEW can, NEW missing, Found(h, can, missing)
        PROVE  /\ \E p \in Phase \ {"idle"} : pc' = [pc EXCEPT ![h] = p]
               /\ UNCHANGED <<ev, payload>>
               /\ \A g \in Handler \ {h} : todo'[g] = todo[g] /\ unknown'[g] = unknown[g]
    <3>1. CASE Go(h, "adding", can \ payload[h], missing)
      <4>1. "adding" \in Phase \ {"idle"}
        BY DEF Phase
      <4>. QED
        BY <3>1, <4>1, GoFrame
    <3>2. CASE ~Go(h, "adding", can \ payload[h], missing)
      BY <2>2, <3>2 DEF Found, TypeOK, Phase
    <3>. QED
      BY <3>1, <3>2
  <2>. QED
    BY <2>1, <2>2 DEF ReadToAdd
<1>. QED
  BY <1>1, <1>2, CallFrame, SetFrame DEF Frame

LEMMA AskCollaboratorFrame == ASSUME TypeOK, NEW h \in Handler, AskCollaborator(h) PROVE Frame(h)
<1>1. (Works \/ Fails(h, Folded(ev[h].add))) /\ Leave /\ UNCHANGED repo
  BY DEF AskCollaborator
<1>2. \/ \E t : Go(h, "adding", t, unknown[h])
      \/ \E t : Go(h, "creating", t, unknown[h])
      \/ End(h) /\ UNCHANGED told
  BY DEF AskCollaborator
<1>3. "adding" \in Phase \ {"idle"} /\ "creating" \in Phase \ {"idle"}
  BY DEF Phase
<1>4. /\ \E p \in Phase \ {"idle"} : pc' = [pc EXCEPT ![h] = p]
      /\ UNCHANGED <<ev, payload, told>>
      /\ \A g \in Handler \ {h} : todo'[g] = todo[g] /\ unknown'[g] = unknown[g]
  BY <1>2, <1>3, GoFrame, EndFrame
<1>. QED
  BY <1>1, <1>4, CallFrame, SetFrame DEF Frame

LEMMA CreateOneFrame == ASSUME TypeOK, NEW h \in Handler, CreateOne(h) PROVE Frame(h)
<1>1. PICK l \in unknown[h] :
        /\ Go(h, IF unknown[h] = {l} THEN "adding" ELSE "creating", todo[h], unknown[h] \ {l})
        /\ (repo' = repo \cup {l} /\ Works) \/ (repo' = repo /\ Fails(h, {}))
  BY DEF CreateOne
<1>2. (IF unknown[h] = {l} THEN "adding" ELSE "creating") \in Phase \ {"idle"} /\ Leave
  BY DEF Phase, CreateOne
<1>. QED
  BY <1>1, <1>2, GoFrame, CallFrame, SetFrame DEF Frame

LEMMA AddOneFrame == ASSUME TypeOK, NEW h \in Handler, AddOne(h) PROVE Frame(h)
<1>1. PICK l \in todo[h] :
        /\ Go(h, "adding", todo[h] \ {l}, unknown[h])
        /\ (SetLabels({h}, pr \cup {l}) /\ Works) \/ (Leave /\ Fails(h, {Fold[l]}))
  BY DEF AddOne
<1>2. "adding" \in Phase \ {"idle"} /\ UNCHANGED repo
  BY DEF Phase, AddOne
<1>. QED
  BY <1>1, <1>2, GoFrame, CallFrame, SetFrame DEF Frame

LEMMA CheckSquashFrame == ASSUME TypeOK, NEW h \in Handler, CheckSquash(h) PROVE Frame(h)
<1>1. /\ (SetLabels({h}, AfterCheck(h)) /\ Works) \/ (Leave /\ Fails(h, {Fold[SquashLabel]}))
      /\ End(h) /\ UNCHANGED <<repo, told>>
  BY DEF CheckSquash
<1>. QED
  BY <1>1, EndFrame, CallFrame, SetFrame DEF Frame

LEMMA ReportFrame == ASSUME TypeOK, NEW h \in Handler, Report(h) PROVE Frame(h)
<1>1. /\ Works \/ Fails(h, Folded(unknown[h]))
      /\ End(h) /\ Leave /\ UNCHANGED repo
      /\ \A g \in Handler \ {h} : told'[g] = told[g]
  BY DEF Report, TypeOK
<1>. QED
  BY <1>1, EndFrame, CallFrame, SetFrame DEF Frame

LEMMA StepFrame == ASSUME TypeOK, NEW h \in Handler, Send(h) \/ Step(h) PROVE Frame(h)
BY SendFrame, ReadToRemoveFrame, RemoveOneFrame, ReadToAddFrame, AskCollaboratorFrame,
   CreateOneFrame, AddOneFrame, CheckSquashFrame, ReportFrame DEF Step

-----------------------------------------------------------------------------
(* Labels nobody knew are a collaborator's *)

LEMMA KnownFact ==
  ASSUME NEW l
  PROVE  l \in Known <=> \/ l \in RepoLabels \/ l = SquashLabel
                         \/ \E h \in Handler : pc[h] # "idle" /\ ev[h].collab /\ ev[h].create /\ l \in ev[h].add
BY DEF Known, AskedByCollaborator

LEMMA KnownGrows ==
  ASSUME TypeOK, NEW h \in Handler, Frame(h)
  PROVE  Known \subseteq Known'
<1>1. ev' = ev /\ \A g \in Handler : pc[g] # "idle" => pc'[g] # "idle"
  BY DEF Frame, TypeOK
<1>. QED
  BY <1>1 DEF Known, AskedByCollaborator

\* The part of Introduced about the handlers that do not move.
LEMMA OthersIntroduced ==
  ASSUME TypeOK, Introduced, NEW h \in Handler, Frame(h), NEW g \in Handler \ {h}
  PROVE  /\ todo'[g] \subseteq Known'
         /\ pc'[g] \in {"collab", "creating"} => unknown'[g] \subseteq ev'[g].add /\ ev'[g].create
         /\ pc'[g] = "creating" => ev'[g].collab
<1>1. ev' = ev /\ pc'[g] = pc[g] /\ todo'[g] = todo[g] /\ unknown'[g] = unknown[g]
  BY DEF Frame, TypeOK
<1>. QED
  BY <1>1, KnownGrows DEF Introduced

\* What is left to show of a handler's step.
IntroducedBy(h) ==
  /\ (repo' \cup pr') \subseteq Known'
  /\ todo'[h] \subseteq Known'
  /\ pc'[h] \in {"collab", "creating"} => unknown'[h] \subseteq ev'[h].add /\ ev'[h].create
  /\ pc'[h] = "creating" => ev'[h].collab

LEMMA SendIntroduced == ASSUME TypeOK, Introduced, NEW h \in Handler, Send(h) PROVE IntroducedBy(h)
<1>1. Known \subseteq Known'
  BY KnownGrows, SendFrame
<1>2. \A t, u : NextPhase(ev[h], "removing", t, u) \notin {"collab", "creating"}
  BY DEF NextPhase
<1>3. UNCHANGED <<repo, pr>> /\ todo'[h] \subseteq pr /\ pc'[h] \notin {"collab", "creating"}
  BY <1>2 DEF Send, TypeOK
<1>. QED
  BY <1>1, <1>3 DEF Introduced, IntroducedBy

LEMMA ReadToRemoveIntroduced ==
  ASSUME TypeOK, Introduced, NEW h \in Handler, ReadToRemove(h) PROVE IntroducedBy(h)
<1>1. Known \subseteq Known' /\ UNCHANGED <<repo, pr>>
  BY KnownGrows, ReadToRemoveFrame DEF ReadToRemove, Leave
<1>2. PICK t : Go(h, "removing", t, {}) /\ t \subseteq repo
  <2>1. CASE Go(h, "removing", {}, {})
    BY <2>1
  <2>2. ASSUME NEW f \in Spellings(repo), NEW t, t = payload[h] \cap Origin(f, Folded(ev[h].remove)),
               Go(h, "removing", t, {})
        PROVE  \E u : Go(h, "removing", u, {}) /\ u \subseteq repo
    <3>1. t \subseteq repo
      BY <2>2, OriginFact
    <3>. QED
      BY <2>2, <3>1
  <2>. QED
    BY <2>1, <2>2 DEF ReadToRemove
<1>3. "removing" \in Phase \ {"idle"} /\ NextPhase(ev[h], "removing", t, {}) \notin {"collab", "creating"}
  BY DEF Phase, NextPhase
<1>. QED
  BY <1>1, <1>2, <1>3, GoFrame DEF Introduced, IntroducedBy

LEMMA RemoveOneIntroduced ==
  ASSUME TypeOK, Introduced, NEW h \in Handler, RemoveOne(h) PROVE IntroducedBy(h)
<1>1. PICK l \in todo[h] :
        /\ Go(h, "removing", todo[h] \ {l}, {})
        /\ (SetLabels({h}, pr \ {l}) /\ Works) \/ (Leave /\ Fails(h, {Fold[l]}))
  BY DEF RemoveOne
<1>2. Known \subseteq Known' /\ repo' = repo /\ pr' \subseteq pr
  BY <1>1, KnownGrows, RemoveOneFrame, SetFrame DEF RemoveOne, Leave
<1>3. "removing" \in Phase \ {"idle"} /\ NextPhase(ev[h], "removing", todo[h] \ {l}, {}) \notin {"collab", "creating"}
  BY DEF Phase, NextPhase
<1>. QED
  BY <1>1, <1>2, <1>3, GoFrame DEF Introduced, IntroducedBy

LEMMA ReadToAddIntroduced ==
  ASSUME TypeOK, Introduced, NEW h \in Handler, ReadToAdd(h) PROVE IntroducedBy(h)
<1>1. Known \subseteq Known' /\ UNCHANGED <<repo, pr>> /\ ev' = ev
  BY KnownGrows, ReadToAddFrame DEF ReadToAdd, Leave, Frame
<1>2. CASE End(h)
  BY <1>1, <1>2, EndFrame DEF Introduced, IntroducedBy
<1>3. ASSUME NEW f \in Spellings(repo), NEW g \in Spellings(ev[h].add),
             NEW can, can = Origin(f, DOMAIN g),
             NEW missing, missing = Origin(g, DOMAIN g \ DOMAIN f),
             Found(h, can, missing)
      PROVE  IntroducedBy(h)
  <2>1. can \subseteq repo /\ missing \subseteq ev[h].add
    BY <1>3, OriginFact
  <2>2. CASE missing # {} /\ ev[h].create
    <3>1. todo'[h] = can /\ unknown'[h] = missing /\ pc'[h] = "collab"
      BY <1>3, <2>2 DEF Found, TypeOK
    <3>. QED
      BY <1>1, <2>1, <2>2, <3>1 DEF Introduced, IntroducedBy
  <2>3. CASE ~(missing # {} /\ ev[h].create)
    <3>1. Go(h, "adding", can \ payload[h], missing)
      BY <1>3, <2>3 DEF Found
    <3>2. "adding" \in Phase \ {"idle"} /\ NextPhase(ev[h], "adding", can \ payload[h], missing) \notin {"collab", "creating"}
      BY DEF Phase, NextPhase
    <3>. QED
      BY <1>1, <2>1, <3>1, <3>2, GoFrame DEF Introduced, IntroducedBy
  <2>. QED
    BY <2>2, <2>3
<1>. QED
  BY <1>2, <1>3 DEF ReadToAdd

LEMMA AskCollaboratorIntroduced ==
  ASSUME TypeOK, Introduced, NEW h \in Handler, AskCollaborator(h) PROVE IntroducedBy(h)
<1>1. Known \subseteq Known' /\ UNCHANGED <<repo, pr>> /\ ev' = ev /\ pc[h] = "collab"
  BY KnownGrows, AskCollaboratorFrame DEF AskCollaborator, Leave, Frame
<1>2. CASE End(h)
  BY <1>1, <1>2, EndFrame DEF Introduced, IntroducedBy
<1>3. CASE Go(h, "adding", todo[h] \ payload[h], unknown[h])
  <2>1. "adding" \in Phase \ {"idle"} /\ NextPhase(ev[h], "adding", todo[h] \ payload[h], unknown[h]) \notin {"collab", "creating"}
    BY DEF Phase, NextPhase
  <2>. QED
    BY <1>1, <1>3, <2>1, GoFrame DEF Introduced, IntroducedBy
<1>4. CASE ev[h].collab /\ Go(h, "creating", (todo[h] \cup unknown[h]) \ payload[h], unknown[h])
  <2>1. "creating" \in Phase \ {"idle"}
    BY DEF Phase
  <2>2. /\ unknown[h] \subseteq ev[h].add /\ ev[h].create /\ todo[h] \subseteq Known
    BY <1>1 DEF Introduced
  <2>3. unknown[h] \subseteq Known
    BY <1>1, <1>4, <2>2, KnownFact
  <2>4. todo'[h] \subseteq Known /\ unknown'[h] = unknown[h]
    BY <1>4, <2>1, <2>2, <2>3, GoFrame
  <2>. QED
    BY <1>1, <1>4, <2>2, <2>4 DEF Introduced, IntroducedBy
<1>. QED
  BY <1>2, <1>3, <1>4 DEF AskCollaborator

LEMMA CreateOneIntroduced ==
  ASSUME TypeOK, Introduced, NEW h \in Handler, CreateOne(h) PROVE IntroducedBy(h)
<1>1. PICK l \in unknown[h] :
        /\ Go(h, IF unknown[h] = {l} THEN "adding" ELSE "creating", todo[h], unknown[h] \ {l})
        /\ repo' \subseteq repo \cup {l}
  BY DEF CreateOne
<1>2. Known \subseteq Known' /\ pr' = pr /\ ev' = ev /\ pc[h] = "creating"
  BY KnownGrows, CreateOneFrame DEF CreateOne, Leave, Frame
<1>3. unknown[h] \subseteq ev[h].add /\ ev[h].create /\ ev[h].collab
  BY <1>2 DEF Introduced
<1>4. l \in Known
  BY <1>2, <1>3, KnownFact
<1>5. (IF unknown[h] = {l} THEN "adding" ELSE "creating") \in Phase \ {"idle"}
  BY DEF Phase
<1>6. todo'[h] = todo[h] /\ unknown'[h] = unknown[h] \ {l}
  BY <1>1, <1>5, GoFrame
<1>. QED
  BY <1>1, <1>2, <1>3, <1>4, <1>6 DEF Introduced, IntroducedBy

LEMMA AddOneIntroduced ==
  ASSUME TypeOK, Introduced, NEW h \in Handler, AddOne(h) PROVE IntroducedBy(h)
<1>1. PICK l \in todo[h] :
        /\ Go(h, "adding", todo[h] \ {l}, unknown[h])
        /\ (SetLabels({h}, pr \cup {l}) /\ Works) \/ (Leave /\ Fails(h, {Fold[l]}))
  BY DEF AddOne
<1>2. Known \subseteq Known' /\ repo' = repo /\ pr' \subseteq pr \cup {l}
  BY <1>1, KnownGrows, AddOneFrame, SetFrame DEF AddOne, Leave
<1>3. "adding" \in Phase \ {"idle"} /\ NextPhase(ev[h], "adding", todo[h] \ {l}, unknown[h]) \notin {"collab", "creating"}
  BY DEF Phase, NextPhase
<1>4. todo'[h] = todo[h] \ {l} /\ pc'[h] \notin {"collab", "creating"}
  BY <1>1, <1>3, GoFrame
<1>. QED
  BY <1>1, <1>2, <1>4 DEF Introduced, IntroducedBy

LEMMA CheckSquashIntroduced ==
  ASSUME TypeOK, Introduced, NEW h \in Handler, CheckSquash(h) PROVE IntroducedBy(h)
<1>1. Known \subseteq Known' /\ repo' = repo /\ End(h)
  BY KnownGrows, CheckSquashFrame DEF CheckSquash
<1>2. pr' \subseteq pr \cup {SquashLabel}
  BY DEF CheckSquash, SetLabels, Leave, AfterCheck
<1>3. SquashLabel \in Known
  BY DEF Known
<1>. QED
  BY <1>1, <1>2, <1>3, EndFrame DEF Introduced, IntroducedBy

LEMMA ReportIntroduced == ASSUME TypeOK, Introduced, NEW h \in Handler, Report(h) PROVE IntroducedBy(h)
<1>1. Known \subseteq Known' /\ UNCHANGED <<repo, pr>> /\ End(h)
  BY KnownGrows, ReportFrame DEF Report, Leave
<1>. QED
  BY <1>1, EndFrame DEF Introduced, IntroducedBy

LEMMA StepIntroduced ==
  ASSUME TypeOK, Introduced, NEW h \in Handler, Send(h) \/ Step(h)
  PROVE  Introduced'
<1>1. IntroducedBy(h)
  BY SendIntroduced, ReadToRemoveIntroduced, RemoveOneIntroduced, ReadToAddIntroduced,
     AskCollaboratorIntroduced, CreateOneIntroduced, AddOneIntroduced, CheckSquashIntroduced,
     ReportIntroduced DEF Step
<1>2. RepoLabels \subseteq repo'
  BY StepFrame DEF Frame, Introduced
<1>. QED
  BY <1>1, <1>2, StepFrame, OthersIntroduced DEF Introduced, IntroducedBy

LEMMA NextIntroduced == TypeOK /\ Introduced /\ [Next]_vars => Introduced'
<1>. SUFFICES ASSUME TypeOK, Introduced, [Next]_vars PROVE Introduced'
  OBVIOUS
<1>1. CASE Edit
  <2>1. UNCHANGED <<repo, pc, ev, todo, unknown>> /\ pr' \subseteq pr \cup repo
    BY <1>1 DEF Edit, SetLabels, handler
  <2>2. Known' = Known
    BY <2>1 DEF Known, AskedByCollaborator
  <2>. QED
    BY <2>1, <2>2 DEF Introduced
<1>2. CASE Finished \/ UNCHANGED vars
  BY <1>2 DEF Introduced, Known, AskedByCollaborator, Finished, vars, handler
<1>. QED
  BY <1>1, <1>2, StepIntroduced DEF Next

LEMMA InitIntroduced == Init => Introduced
BY DEF Init, Introduced, Known

\* Only a collaborator whom the configuration allows it brings new labels into the
\* repository or onto the pull request.
THEOREM Introducing == Spec => []OnlyCollaboratorsIntroduce
<1>1. Introduced => OnlyCollaboratorsIntroduce
  BY DEF Introduced, OnlyCollaboratorsIntroduce, Known
<1>. QED
  BY <1>1, InitType, NextType, InitIntroduced, NextIntroduced, PTL DEF Spec

-----------------------------------------------------------------------------
(* Handlers that do not move *)

\* A handler that stands still, while others change labels behind its back.
Aside(g) ==
  /\ pc'[g] = pc[g] /\ ev'[g] = ev[g] /\ payload'[g] = payload[g] /\ todo'[g] = todo[g]
  /\ unknown'[g] = unknown[g] /\ told'[g] = told[g] /\ lost'[g] = lost[g]
  /\ repo \subseteq repo'
  /\ touched'[g] = IF pc[g] = "idle" THEN touched[g] ELSE touched[g] \cup (pr \ pr') \cup (pr' \ pr)

LEMMA AsideInv ==
  ASSUME NEW g \in Handler, Aside(g), HandlerInv(g)
  PROVE  HandlerInv(g)'
<1>1. CASE pc[g] = "idle"
  <2>1. CASE ev[g].kind = "comment"
    BY <1>1, <2>1 DEF Aside, HandlerInv, CommentInv, KnowsLabels, CallsAsAsked, AddsDone, RemovesDone
  <2>2. CASE ev[g].kind # "comment"
    BY <1>1, <2>2 DEF Aside, HandlerInv, PullInv
  <2>. QED
    BY <2>1, <2>2
<1>2. CASE pc[g] # "idle" /\ ev[g].kind = "comment"
  <2>1. Excused(g) \subseteq Excused(g)' /\ Asked(g)' = Asked(g) /\ Barred(g)' = Barred(g)
    BY <1>2 DEF Aside, Excused, Folded, Asked, Barred
  <2>2. /\ \A l \in pr \ pr' : l \in touched'[g] /\ Fold[l] \in Excused(g)'
        /\ \A l \in pr' \ pr : l \in touched'[g] /\ Fold[l] \in Excused(g)'
        /\ touched[g] \subseteq touched'[g]
    BY <1>2 DEF Aside, Excused, Folded
  <2>3. KnowsLabels(g)'
    BY <1>2, <2>1, <2>2 DEF Aside, HandlerInv, CommentInv, KnowsLabels
  <2>4. CallsAsAsked(g)'
    BY <1>2, <2>1 DEF Aside, HandlerInv, CommentInv, CallsAsAsked
  <2>5. AddsDone(g)'
    <3>1. \A S, x : x \in Folded(S \cup pr) => x \in Folded(S \cup pr') \cup Excused(g)'
      BY <2>2 DEF Folded
    <3>2. \A x : x \in Folded(pr) => x \in Folded(pr') \cup Excused(g)'
      BY <2>2 DEF Folded
    <3>3. AddsDone(g) /\ pc'[g] = pc[g] /\ todo'[g] = todo[g] /\ unknown'[g] = unknown[g]
      BY <1>2 DEF Aside, HandlerInv, CommentInv
    <3>. QED
      BY <2>1, <3>1, <3>2, <3>3 DEF AddsDone
  <2>6. RemovesDone(g)'
    <3>1. \A l : OnlySpelling(l)' => OnlySpelling(l)
      BY DEF OnlySpelling, Aside
    <3>2. RemovesDone(g) /\ pc'[g] = pc[g] /\ todo'[g] = todo[g] /\ unknown'[g] = unknown[g]
      BY <1>2 DEF Aside, HandlerInv, CommentInv
    <3>3. \A l \in pr' : l \in pr \/ Fold[l] \in Excused(g)'
      BY <2>2
    <3>. QED
      BY <2>1, <3>1, <3>2, <3>3 DEF RemovesDone
  <2>. QED
    BY <1>2, <2>3, <2>4, <2>5, <2>6 DEF Aside, HandlerInv, CommentInv
<1>3. CASE pc[g] # "idle" /\ ev[g].kind # "comment"
  <2>1. Undisturbed(g)' => Undisturbed(g) /\ (SquashLabel \in pr' <=> SquashLabel \in pr)
    BY <1>3 DEF Aside, Undisturbed
  <2>. QED
    BY <1>3, <2>1 DEF Aside, HandlerInv, PullInv
<1>. QED
  BY <1>1, <1>2, <1>3

LEMMA OthersInv ==
  ASSUME TypeOK, NEW h \in Handler, Frame(h), NEW g \in Handler \ {h}, HandlerInv(g)
  PROVE  HandlerInv(g)'
<1>1. Aside(g)
  BY DEF Frame, Aside, TypeOK
<1>. QED
  BY <1>1, AsideInv

LEMMA EditInv ==
  ASSUME TypeOK, Edit, NEW g \in Handler, HandlerInv(g)
  PROVE  HandlerInv(g)'
<1>1. Aside(g)
  BY DEF Edit, SetLabels, handler, Aside
<1>. QED
  BY <1>1, AsideInv

-----------------------------------------------------------------------------
(* The handler's own steps *)

\* A comment whose handler makes calls asks for each label one way only.
LEMMA NoConflict ==
  ASSUME NEW h \in Handler, CommentInv(h),
         pc[h] \in {"remove", "removing", "add", "collab", "creating", "adding"}
  PROVE  /\ Asked(h) = Folded(ev[h].add) /\ Barred(h) = Folded(ev[h].remove)
         /\ Asked(h) \cap Barred(h) = {}
<1>1. ~Conflict(ev[h])
  BY DEF CommentInv, CallsAsAsked
<1>. QED
  BY <1>1 DEF Asked, Barred, Conflict, Disputed

LEMMA EventShape ==
  ASSUME TypeOK, NEW h \in Handler
  PROVE  /\ ev[h].kind \in {"comment", "pull"}
         /\ ev[h].kind = "comment" => ev[h].squash = "off"
         /\ ev[h].kind = "pull" => ev[h].add = {} /\ ev[h].remove = {} /\ ~Conflict(ev[h])
<1>1. ev[h] \in Events /\ ev[h] \in Event
  BY LabelAssumption DEF TypeOK
<1>2. ev[h].kind \in {"comment", "pull"}
  BY <1>1 DEF Event
<1>3. IF ev[h].kind = "comment" THEN ev[h].squash = "off" ELSE ev[h].add = {} /\ ev[h].remove = {}
  BY <1>1, LabelAssumption
<1>. QED
  BY <1>2, <1>3 DEF Conflict, Disputed, Folded

\* Which phase follows, of a pull request event.
LEMMA NextOfPull ==
  ASSUME TypeOK, NEW h \in Handler, ev[h].kind = "pull", NEW t, NEW u
  PROVE  /\ t # {} => NextPhase(ev[h], "removing", t, u) = "removing"
         /\ t = {} /\ ev[h].squash # "off" => NextPhase(ev[h], "removing", t, u) = "squash"
         /\ t = {} /\ ev[h].squash = "off" => NextPhase(ev[h], "removing", t, u) = "done"
BY EventShape DEF NextPhase

LEMMA SendInv == ASSUME TypeOK, NEW h \in Handler, HandlerInv(h), Send(h) PROVE HandlerInv(h)'
<1>. DEFINE t == IF ev[h].kind = "pull" THEN pr \cap ClearLabels ELSE {}
<1>1. /\ pc[h] = "idle" /\ payload'[h] = pr /\ todo'[h] = t
      /\ pc'[h] = IF Conflict(ev[h]) THEN "report" ELSE IF ev[h].remove # {} THEN "remove"
                  ELSE NextPhase(ev[h], "removing", t, {})
      /\ UNCHANGED <<repo, pr, ev, told, lost, touched>>
  BY DEF Send, TypeOK
<1>2. CASE ev[h].kind = "comment"
  <2>1. t = {} /\ told[h] = {}
    BY <1>1, <1>2 DEF HandlerInv, CommentInv
  <2>. HIDE DEF t
  <2>2. CASE Conflict(ev[h])
    <3>1. pc'[h] = "report" /\ Asked(h)' = {} /\ Barred(h)' = {}
      BY <1>1, <2>2 DEF Asked, Barred
    <3>2. AddsDone(h)' /\ RemovesDone(h)'
      BY <3>1 DEF AddsDone, RemovesDone
    <3>. QED
      BY <1>1, <1>2, <2>1, <3>1, <3>2 DEF HandlerInv, CommentInv, KnowsLabels, CallsAsAsked
  <2>3. CASE ~Conflict(ev[h])
    <3>1. /\ ev[h].add # {} => NextPhase(ev[h], "removing", t, {}) = "add"
          /\ ev[h].add = {} => NextPhase(ev[h], "removing", t, {}) = "done"
      BY <1>2, <2>1, EventShape DEF NextPhase
    <3>2. /\ pc'[h] \in {"remove", "add", "done"}
          /\ pc'[h] # "remove" => ev'[h].remove = {}
          /\ pc'[h] = "done" => ev'[h].add = {}
      BY <1>1, <2>3, <3>1
    <3>3. KnowsLabels(h)' /\ CallsAsAsked(h)'
      BY <1>1, <2>3, <3>2 DEF KnowsLabels, CallsAsAsked
    <3>4. AddsDone(h)'
      BY <3>2 DEF AddsDone, Asked, Folded
    <3>5. RemovesDone(h)'
      BY <3>2 DEF RemovesDone, Barred, Folded
    <3>. QED
      BY <1>1, <1>2, <2>1, <3>3, <3>4, <3>5 DEF HandlerInv, CommentInv
  <2>. QED
    BY <2>2, <2>3
<1>3. CASE ev[h].kind # "comment"
  <2>1. ev[h].kind = "pull" /\ ~Conflict(ev[h]) /\ ev[h].remove = {}
    BY <1>3, EventShape
  <2>3. t \subseteq ClearLabels
    OBVIOUS
  <2>. HIDE DEF t
  <2>2. /\ t # {} => pc'[h] = "removing"
        /\ t = {} /\ ev[h].squash # "off" => pc'[h] = "squash"
        /\ t = {} /\ ev[h].squash = "off" => pc'[h] = "done"
    BY <1>1, <2>1, NextOfPull
  <2>. QED
    BY <1>1, <1>3, <2>2, <2>3 DEF HandlerInv, PullInv, Undisturbed
<1>. QED
  BY <1>2, <1>3

LEMMA ReadToRemoveInv ==
  ASSUME TypeOK, Introduced, NEW h \in Handler, HandlerInv(h), ReadToRemove(h)
  PROVE  HandlerInv(h)'
<1>1. /\ pc[h] = "remove" /\ ev[h].kind = "comment" /\ CommentInv(h)
      /\ UNCHANGED <<repo, pr, ev, payload, told, touched>> /\ told[h] = {}
  BY EventShape DEF ReadToRemove, Go, Leave, HandlerInv, PullInv, CommentInv
<1>2. "removing" \in Phase \ {"idle"}
  BY DEF Phase
<1>3. ASSUME NEW t, Go(h, "removing", t, {}), \A l \in t : Fold[l] \in Barred(h),
             \A l \in pr : Fold[l] \in Barred(h) /\ OnlySpelling(l) => l \in t \/ Fold[l] \in Excused(h)'
      PROVE  HandlerInv(h)'
  <2>1. /\ todo'[h] = t /\ unknown'[h] = {}
        /\ t # {} => pc'[h] = "removing"
        /\ t = {} /\ ev[h].add # {} => pc'[h] = "add"
        /\ t = {} /\ ev[h].add = {} => pc'[h] = "done"
    <3>1. todo'[h] = t /\ unknown'[h] = {} /\ pc'[h] = NextPhase(ev[h], "removing", t, {})
      BY <1>2, <1>3, GoFrame
    <3>2. /\ t # {} => NextPhase(ev[h], "removing", t, {}) = "removing"
          /\ t = {} /\ ev[h].add # {} => NextPhase(ev[h], "removing", t, {}) = "add"
          /\ t = {} /\ ev[h].add = {} => NextPhase(ev[h], "removing", t, {}) = "done"
      BY <1>1, EventShape DEF NextPhase
    <3>. QED
      BY <3>1, <3>2
  <2>2. Asked(h)' = Asked(h) /\ Barred(h)' = Barred(h)
    BY <1>1 DEF Asked, Barred
  <2>3. KnowsLabels(h)' /\ CallsAsAsked(h)'
    BY <1>1, <1>3, <2>1, <2>2 DEF CommentInv, KnowsLabels, CallsAsAsked
  <2>4. AddsDone(h)'
    BY <1>1, <2>1 DEF AddsDone, Asked, Folded
  <2>5. RemovesDone(h)'
    <3>1. \A l : OnlySpelling(l)' = OnlySpelling(l)
      BY <1>1 DEF OnlySpelling
    <3>2. pr' = pr
      BY <1>1
    <3>. QED
      BY <1>3, <2>1, <2>2, <3>1, <3>2 DEF RemovesDone
  <2>. QED
    BY <1>1, <2>1, <2>3, <2>4, <2>5 DEF HandlerInv, CommentInv
<1>4. ASSUME NEW f \in Spellings(repo), NEW t, t = payload[h] \cap Origin(f, Barred(h)), Go(h, "removing", t, {})
      PROVE  HandlerInv(h)'
  <2>1. \A l \in t : Fold[l] \in Barred(h)
    BY <1>4, OriginFact DEF Folded
  <2>2. \A l \in pr : Fold[l] \in Barred(h) /\ OnlySpelling(l) => l \in t \/ Fold[l] \in Excused(h)'
    <3>1. ASSUME NEW l \in pr, Fold[l] \in Barred(h), OnlySpelling(l), l \in payload[h]
          PROVE  l \in t
      <4>1. l \in repo /\ Fold[l] \in Folded(repo)
        BY <3>1 DEF OnlySpelling, Introduced, Folded
      <4>2. f[Fold[l]] \in repo /\ Fold[f[Fold[l]]] = Fold[l] /\ Fold[l] \in DOMAIN f
        BY <4>1, SpellingsFact
      <4>3. f[Fold[l]] = l
        BY <3>1, <4>2 DEF OnlySpelling
      <4>4. l \in Origin(f, Barred(h))
        BY <3>1, <4>2, <4>3 DEF Origin
      <4>. QED
        BY <1>4, <3>1, <4>4
    <3>2. ASSUME NEW l \in pr, l \notin payload[h]
          PROVE  Fold[l] \in Excused(h)'
      BY <1>1, <3>2 DEF CommentInv, KnowsLabels, Excused, Folded
    <3>. QED
      BY <3>1, <3>2
  <2>. QED
    BY <1>3, <1>4, <2>1, <2>2
<1>5. CASE Go(h, "removing", {}, {}) /\ Fails(h, Folded(ev[h].remove))
  <2>1. Barred(h) \subseteq Excused(h)'
    BY <1>1, <1>5, CallFrame, NoConflict DEF Excused
  <2>. QED
    BY <1>3, <1>5, <2>1
<1>. QED
  BY <1>1, <1>4, <1>5, NoConflict DEF ReadToRemove

LEMMA RemoveOneInv ==
  ASSUME TypeOK, NEW h \in Handler, HandlerInv(h), RemoveOne(h)
  PROVE  HandlerInv(h)'
<1>1. PICK l \in todo[h] :
        /\ Go(h, "removing", todo[h] \ {l}, {})
        /\ (SetLabels({h}, pr \ {l}) /\ Works) \/ (Leave /\ Fails(h, {Fold[l]}))
  BY DEF RemoveOne
<1>. DEFINE t == todo[h] \ {l}
<1>2. /\ todo'[h] = t /\ unknown'[h] = {} /\ pc'[h] = NextPhase(ev[h], "removing", t, {})
      /\ UNCHANGED <<ev, payload, told>>
  <2>1. "removing" \in Phase \ {"idle"}
    BY DEF Phase
  <2>. QED
    BY <1>1, <2>1, GoFrame
<1>3. /\ pc[h] = "removing" /\ repo' = repo /\ touched'[h] = touched[h]
      /\ \/ pr' = pr \ {l} /\ lost'[h] = lost[h]
         \/ pr' = pr /\ lost'[h] = lost[h] \cup {Fold[l]}
  BY <1>1, CallFrame, SetFrame DEF RemoveOne, Leave
<1>4. CASE ev[h].kind = "comment"
  <2>1. CommentInv(h) /\ told[h] = {} /\ Fold[l] \in Barred(h)
    BY <1>3, <1>4 DEF HandlerInv, CommentInv, CallsAsAsked
  <2>2. /\ t # {} => pc'[h] = "removing"
        /\ t = {} /\ ev[h].add # {} => pc'[h] = "add"
        /\ t = {} /\ ev[h].add = {} => pc'[h] = "done"
    <3>. HIDE DEF t
    <3>. QED
      BY <1>2, <1>4, EventShape DEF NextPhase
  <2>3. Asked(h)' = Asked(h) /\ Barred(h)' = Barred(h) /\ Excused(h) \subseteq Excused(h)'
    BY <1>2, <1>3 DEF Asked, Barred, Excused
  <2>4. KnowsLabels(h)' /\ CallsAsAsked(h)'
    BY <1>2, <1>3, <2>1, <2>2, <2>3 DEF CommentInv, KnowsLabels, CallsAsAsked
  <2>5. AddsDone(h)'
    BY <1>2, <2>2 DEF AddsDone, Asked, Folded
  <2>6. RemovesDone(h)'
    <3>1. \A k : OnlySpelling(k)' = OnlySpelling(k)
      BY <1>3 DEF OnlySpelling
    <3>2. \A k \in pr' : k \in pr /\ (k = l => Fold[k] \in Excused(h)')
      BY <1>3 DEF Excused
    <3>3. \A k \in pr : Fold[k] \in Barred(h) /\ OnlySpelling(k) => k \in todo[h] \/ Fold[k] \in Excused(h)
      BY <1>3, <2>1 DEF CommentInv, RemovesDone
    <3>4. \A k \in pr' : Fold[k] \in Barred(h)' /\ OnlySpelling(k)' => k \in t \/ Fold[k] \in Excused(h)'
      BY <2>3, <3>1, <3>2, <3>3
    <3>. HIDE DEF t
    <3>. QED
      BY <1>2, <2>2, <3>4 DEF RemovesDone
  <2>. QED
    BY <1>2, <1>4, <2>1, <2>4, <2>5, <2>6 DEF HandlerInv, CommentInv
<1>5. CASE ev[h].kind # "comment"
  <2>1. PullInv(h) /\ ev[h].kind = "pull" /\ t \subseteq ClearLabels /\ l \in ClearLabels
    BY <1>3, <1>5, EventShape DEF HandlerInv, PullInv
  <2>. HIDE DEF t
  <2>2. /\ t # {} => pc'[h] = "removing"
        /\ t = {} /\ ev[h].squash # "off" => pc'[h] = "squash"
        /\ t = {} /\ ev[h].squash = "off" => pc'[h] = "done"
    BY <1>2, <2>1, NextOfPull
  <2>3. Undisturbed(h)' => Undisturbed(h) /\ (SquashLabel \in pr' <=> SquashLabel \in pr)
    BY <1>3, <2>1 DEF Undisturbed
  <2>. QED
    BY <1>2, <1>3, <1>5, <2>1, <2>2, <2>3 DEF HandlerInv, PullInv
<1>. QED
  BY <1>4, <1>5

\* Only a comment puts labels on by name.
LEMMA OnlyComments ==
  ASSUME TypeOK, NEW h \in Handler, HandlerInv(h),
         pc[h] \in {"remove", "add", "collab", "creating", "adding", "report"}
  PROVE  ev[h].kind = "comment" /\ CommentInv(h) /\ told[h] = {}
BY EventShape DEF HandlerInv, PullInv, CommentInv

\* The labels a comment asks for are dealt with when its handler comes to put them on.
LEMMA ToAdding ==
  ASSUME TypeOK, NEW h \in Handler, ev[h].kind = "comment", CommentInv(h), told[h] = {},
         pc[h] \in {"add", "collab"}, UNCHANGED <<repo, pr, ev, payload, told, touched>>,
         lost'[h] = lost[h], NEW t, NEW u,
         \A k \in t \cup u : Fold[k] \in Asked(h), Asked(h) \subseteq Folded(t \cup u),
         todo'[h] = t \ payload[h], unknown'[h] = u,
         pc'[h] = NextPhase(ev[h], "adding", t \ payload[h], u)
  PROVE  HandlerInv(h)'
<1>1. /\ Asked(h)' = Asked(h) /\ Barred(h)' = Barred(h) /\ Excused(h)' = Excused(h)
      /\ Asked(h) \cap Barred(h) = {}
  BY NoConflict DEF Asked, Barred, Excused
<1>2. \A x \in Asked(h) : x \in Folded((t \ payload[h]) \cup u \cup pr) \cup Excused(h)
  <2>. SUFFICES ASSUME NEW x \in Asked(h)
                PROVE  x \in Folded((t \ payload[h]) \cup u \cup pr) \cup Excused(h)
    OBVIOUS
  <2>1. PICK k \in t \cup u : Fold[k] = x
    BY DEF Folded
  <2>2. CASE k \in (t \ payload[h]) \cup u \cup pr
    BY <2>1, <2>2 DEF Folded
  <2>3. CASE k \in payload[h] \ pr
    <3>1. k \in touched[h]
      BY <1>1, <2>1, <2>3 DEF CommentInv, KnowsLabels
    <3>. QED
      BY <2>1, <3>1 DEF Excused, Folded
  <2>. QED
    BY <2>1, <2>2, <2>3
<1>. DEFINE d == t \ payload[h]
<1>3. (\A k \in d \cup u : Fold[k] \in Asked(h)) /\ todo'[h] = d
  OBVIOUS
<1>4. \A x \in Asked(h) : x \in Folded(d \cup u \cup pr) \cup Excused(h)
  BY <1>2
<1>5. pc'[h] = NextPhase(ev[h], "adding", d, u)
  OBVIOUS
<1>. HIDE DEF d
<1>6. /\ d # {} => pc'[h] = "adding"
      /\ d = {} /\ u # {} => pc'[h] = "report"
      /\ d = {} /\ u = {} => pc'[h] = "done"
  BY <1>5 DEF NextPhase
<1>7. KnowsLabels(h)' /\ CallsAsAsked(h)'
  BY <1>1, <1>3, <1>6 DEF KnowsLabels, CallsAsAsked, CommentInv
<1>8. AddsDone(h)'
  <2>1. d = {} => d \cup u \cup pr = u \cup pr
    OBVIOUS
  <2>2. d = {} /\ u = {} => d \cup u \cup pr = pr
    OBVIOUS
  <2>. QED
    BY <1>1, <1>3, <1>4, <1>6, <2>1, <2>2 DEF AddsDone
<1>9. RemovesDone(h)'
  <2>1. \A k : OnlySpelling(k)' = OnlySpelling(k)
    BY DEF OnlySpelling
  <2>. QED
    BY <1>1, <1>6, <2>1 DEF RemovesDone, CommentInv
<1>. QED
  BY <1>7, <1>8, <1>9 DEF HandlerInv, CommentInv

\* A handler that gives up has noted every label it was asked for.
LEMMA GivingUp ==
  ASSUME TypeOK, NEW h \in Handler, ev[h].kind = "comment", CommentInv(h), told[h] = {},
         pc[h] \in {"add", "collab"}, End(h), Fails(h, Asked(h)),
         UNCHANGED <<repo, pr, told, touched>>
  PROVE  HandlerInv(h)'
<1>1. /\ pc'[h] = "done" /\ UNCHANGED <<ev, payload, todo, unknown>>
      /\ lost'[h] = lost[h] \cup Asked(h)
  BY EndFrame, CallFrame
<1>2. /\ Asked(h)' = Asked(h) /\ Barred(h)' = Barred(h)
      /\ Excused(h) \subseteq Excused(h)' /\ Asked(h) \subseteq Excused(h)'
  BY <1>1 DEF Asked, Barred, Excused
<1>3. KnowsLabels(h)' /\ CallsAsAsked(h)' /\ AddsDone(h)'
  BY <1>1, <1>2 DEF KnowsLabels, CallsAsAsked, AddsDone
<1>4. RemovesDone(h)'
  <2>1. \A k : OnlySpelling(k)' = OnlySpelling(k)
    BY DEF OnlySpelling
  <2>. QED
    BY <1>1, <1>2, <2>1 DEF RemovesDone, CommentInv
<1>. QED
  BY <1>1, <1>3, <1>4 DEF HandlerInv, CommentInv

LEMMA ReadToAddInv ==
  ASSUME TypeOK, NEW h \in Handler, HandlerInv(h), ReadToAdd(h)
  PROVE  HandlerInv(h)'
<1>1. /\ pc[h] = "add" /\ ev[h].kind = "comment" /\ CommentInv(h) /\ told[h] = {}
      /\ UNCHANGED <<repo, pr, told, touched>>
  BY OnlyComments DEF ReadToAdd, Leave
<1>2. CASE End(h) /\ Fails(h, Asked(h))
  BY <1>1, <1>2, GivingUp
<1>3. ASSUME NEW f \in Spellings(repo), NEW g \in Spellings(ev[h].add),
             NEW can, can = Origin(f, DOMAIN g),
             NEW missing, missing = Origin(g, DOMAIN g \ DOMAIN f),
             Found(h, can, missing), Works
      PROVE  HandlerInv(h)'
  <2>1. DOMAIN g = Asked(h) /\ DOMAIN f = Folded(repo)
    BY <1>1, SpellingsFact, NoConflict
  <2>2. /\ Folded(can) = Asked(h) \cap Folded(repo)
        /\ Folded(missing) = Asked(h) \ Folded(repo)
    <3>1. Folded(can) = Asked(h) \cap Folded(repo)
      BY <1>3, <2>1, OriginFact
    <3>2. Folded(missing) = (Asked(h) \ Folded(repo)) \cap Asked(h)
      BY <1>3, <2>1, OriginFact DEF Asked
    <3>. QED
      BY <3>1, <3>2
  <2>3. /\ \A k \in can \cup missing : Fold[k] \in Asked(h)
        /\ Asked(h) \subseteq Folded(can \cup missing)
    BY <2>2 DEF Folded
  <2>4. lost'[h] = lost[h]
    BY <1>3 DEF Works
  <2>5. CASE Go(h, "adding", can \ payload[h], missing)
    <3>1. "adding" \in Phase \ {"idle"}
      BY DEF Phase
    <3>2. /\ UNCHANGED <<ev, payload>> /\ todo'[h] = can \ payload[h] /\ unknown'[h] = missing
          /\ pc'[h] = NextPhase(ev[h], "adding", can \ payload[h], missing)
      BY <2>5, <3>1, GoFrame
    <3>. QED
      BY <1>1, <2>3, <2>4, <3>2, ToAdding
  <2>6. CASE ~Go(h, "adding", can \ payload[h], missing)
    <3>1. /\ todo'[h] = can /\ unknown'[h] = missing /\ pc'[h] = "collab"
          /\ UNCHANGED <<ev, payload>>
      BY <1>3, <2>6 DEF Found, TypeOK
    <3>2. /\ Asked(h)' = Asked(h) /\ Barred(h)' = Barred(h) /\ Excused(h)' = Excused(h)
      BY <1>1, <2>4, <3>1 DEF Asked, Barred, Excused
    <3>3. KnowsLabels(h)' /\ CallsAsAsked(h)' /\ AddsDone(h)'
      BY <1>1, <2>3, <3>1, <3>2 DEF CommentInv, KnowsLabels, CallsAsAsked, AddsDone
    <3>4. RemovesDone(h)'
      <4>1. \A k : OnlySpelling(k)' = OnlySpelling(k)
        BY <1>1 DEF OnlySpelling
      <4>. QED
        BY <1>1, <3>1, <3>2, <4>1 DEF CommentInv, RemovesDone
    <3>. QED
      BY <1>1, <3>1, <3>3, <3>4 DEF HandlerInv, CommentInv
  <2>. QED
    BY <2>5, <2>6
<1>. QED
  BY <1>1, <1>2, <1>3, NoConflict DEF ReadToAdd

LEMMA AskCollaboratorInv ==
  ASSUME TypeOK, NEW h \in Handler, HandlerInv(h), AskCollaborator(h)
  PROVE  HandlerInv(h)'
<1>1. /\ pc[h] = "collab" /\ ev[h].kind = "comment" /\ CommentInv(h) /\ told[h] = {}
      /\ UNCHANGED <<repo, pr, touched>>
  BY OnlyComments DEF AskCollaborator, Leave
<1>2. CASE End(h) /\ Fails(h, Asked(h)) /\ UNCHANGED told
  BY <1>1, <1>2, GivingUp
<1>3. /\ \A k \in todo[h] \cup unknown[h] : Fold[k] \in Asked(h)
      /\ Asked(h) \subseteq Folded(todo[h] \cup unknown[h])
  BY <1>1 DEF CommentInv, CallsAsAsked, AddsDone
<1>4. CASE Go(h, "adding", todo[h] \ payload[h], unknown[h]) /\ Works
  <2>1. "adding" \in Phase \ {"idle"}
    BY DEF Phase
  <2>2. /\ UNCHANGED <<ev, payload, told>> /\ todo'[h] = todo[h] \ payload[h] /\ unknown'[h] = unknown[h]
        /\ pc'[h] = NextPhase(ev[h], "adding", todo[h] \ payload[h], unknown[h])
    BY <1>4, <2>1, GoFrame
  <2>. QED
    BY <1>1, <1>3, <1>4, <2>2, ToAdding DEF Works
<1>5. CASE Go(h, "creating", (todo[h] \cup unknown[h]) \ payload[h], unknown[h]) /\ Works
  <2>. DEFINE d == (todo[h] \cup unknown[h]) \ payload[h]
  <2>1. /\ UNCHANGED <<ev, payload, told>> /\ todo'[h] = d /\ unknown'[h] = unknown[h]
        /\ pc'[h] = "creating" /\ lost'[h] = lost[h]
    <3>1. "creating" \in Phase \ {"idle"} /\ NextPhase(ev[h], "creating", d, unknown[h]) = "creating"
      BY DEF Phase, NextPhase
    <3>. QED
      BY <1>5, <3>1, GoFrame DEF Works
  <2>2. /\ Asked(h)' = Asked(h) /\ Barred(h)' = Barred(h) /\ Excused(h)' = Excused(h)
        /\ Asked(h) \cap Barred(h) = {}
    BY <1>1, <2>1, NoConflict DEF Asked, Barred, Excused
  <2>3. \A x \in Asked(h) : x \in Folded(d \cup pr) \cup Excused(h)
    <3>. SUFFICES ASSUME NEW x \in Asked(h) PROVE x \in Folded(d \cup pr) \cup Excused(h)
      OBVIOUS
    <3>1. PICK k \in todo[h] \cup unknown[h] : Fold[k] = x
      BY <1>3 DEF Folded
    <3>2. CASE k \in d \cup pr
      BY <3>1, <3>2 DEF Folded
    <3>3. CASE k \in payload[h] \ pr
      <4>1. k \in touched[h]
        BY <1>1, <2>2, <3>1, <3>3 DEF CommentInv, KnowsLabels
      <4>. QED
        BY <3>1, <4>1 DEF Excused, Folded
    <3>. QED
      BY <3>1, <3>2, <3>3
  <2>4. \A k \in d \cup unknown[h] : Fold[k] \in Asked(h)
    BY <1>3
  <2>. HIDE DEF d
  <2>5. KnowsLabels(h)' /\ CallsAsAsked(h)' /\ AddsDone(h)'
    BY <1>1, <2>1, <2>2, <2>3, <2>4 DEF CommentInv, KnowsLabels, CallsAsAsked, AddsDone
  <2>6. RemovesDone(h)'
    <3>1. \A k : OnlySpelling(k)' = OnlySpelling(k)
      BY <1>1 DEF OnlySpelling
    <3>. QED
      BY <1>1, <2>1, <2>2, <3>1 DEF CommentInv, RemovesDone
  <2>. QED
    BY <1>1, <2>1, <2>5, <2>6 DEF HandlerInv, CommentInv
<1>. QED
  BY <1>1, <1>2, <1>4, <1>5, NoConflict DEF AskCollaborator

LEMMA CreateOneInv ==
  ASSUME TypeOK, NEW h \in Handler, HandlerInv(h), CreateOne(h)
  PROVE  HandlerInv(h)'
<1>1. /\ pc[h] = "creating" /\ ev[h].kind = "comment" /\ CommentInv(h) /\ told[h] = {}
      /\ UNCHANGED <<pr, touched>>
  BY OnlyComments DEF CreateOne, Leave
<1>2. PICK l \in unknown[h] :
        /\ Go(h, IF unknown[h] = {l} THEN "adding" ELSE "creating", todo[h], unknown[h] \ {l})
        /\ (repo' = repo \cup {l} /\ Works) \/ (repo' = repo /\ Fails(h, {}))
  BY DEF CreateOne
<1>3. lost'[h] = lost[h] /\ repo \subseteq repo'
  <2>1. Fails(h, {}) => lost'[h] = lost[h] \cup {}
    BY CallFrame
  <2>. QED
    BY <1>2, <2>1 DEF Works
<1>4. /\ UNCHANGED <<ev, payload, told>> /\ todo'[h] = todo[h] /\ unknown'[h] \subseteq unknown[h]
      /\ \/ pc'[h] = "creating"
         \/ pc'[h] = "adding"
         \/ pc'[h] = "done" /\ todo[h] = {}
  <2>1. CASE unknown[h] = {l}
    <3>1. Go(h, "adding", todo[h], {}) /\ "adding" \in Phase \ {"idle"}
      BY <1>2, <2>1 DEF Phase
    <3>2. todo[h] # {} => NextPhase(ev[h], "adding", todo[h], {}) = "adding"
      BY DEF NextPhase
    <3>3. todo[h] = {} => NextPhase(ev[h], "adding", todo[h], {}) = "done"
      BY DEF NextPhase
    <3>. QED
      BY <3>1, <3>2, <3>3, GoFrame
  <2>2. CASE unknown[h] # {l}
    <3>1. Go(h, "creating", todo[h], unknown[h] \ {l}) /\ "creating" \in Phase \ {"idle"}
      BY <1>2, <2>2 DEF Phase
    <3>2. NextPhase(ev[h], "creating", todo[h], unknown[h] \ {l}) = "creating"
      BY DEF NextPhase
    <3>. QED
      BY <3>1, <3>2, GoFrame
  <2>. QED
    BY <2>1, <2>2
<1>5. Asked(h)' = Asked(h) /\ Barred(h)' = Barred(h) /\ Excused(h)' = Excused(h)
  BY <1>1, <1>3, <1>4 DEF Asked, Barred, Excused
<1>6. KnowsLabels(h)' /\ CallsAsAsked(h)'
  BY <1>1, <1>4, <1>5 DEF CommentInv, KnowsLabels, CallsAsAsked
<1>7. AddsDone(h)'
  <2>1. \A x \in Asked(h) : x \in Folded(todo[h] \cup pr) \cup Excused(h)
    BY <1>1 DEF CommentInv, AddsDone
  <2>2. \A x \in Folded(todo[h] \cup pr) : x \in Folded(todo[h] \cup unknown'[h] \cup pr)
    BY DEF Folded
  <2>3. todo[h] = {} => todo[h] \cup pr = pr
    OBVIOUS
  <2>. QED
    BY <1>1, <1>4, <1>5, <2>1, <2>2, <2>3 DEF AddsDone
<1>8. RemovesDone(h)'
  <2>1. \A k : OnlySpelling(k)' => OnlySpelling(k)
    BY <1>3 DEF OnlySpelling
  <2>. QED
    BY <1>1, <1>4, <1>5, <2>1 DEF CommentInv, RemovesDone
<1>. QED
  BY <1>1, <1>4, <1>6, <1>7, <1>8 DEF HandlerInv, CommentInv

LEMMA AddOneInv ==
  ASSUME TypeOK, NEW h \in Handler, HandlerInv(h), AddOne(h)
  PROVE  HandlerInv(h)'
<1>1. pc[h] = "adding" /\ ev[h].kind = "comment" /\ CommentInv(h) /\ told[h] = {}
  BY OnlyComments DEF AddOne
<1>2. PICK l \in todo[h] :
        /\ Go(h, "adding", todo[h] \ {l}, unknown[h])
        /\ (SetLabels({h}, pr \cup {l}) /\ Works) \/ (Leave /\ Fails(h, {Fold[l]}))
  BY DEF AddOne
<1>3. /\ repo' = repo /\ touched'[h] = touched[h]
      /\ \/ pr' = pr \cup {l} /\ lost'[h] = lost[h]
         \/ pr' = pr /\ lost'[h] = lost[h] \cup {Fold[l]}
  BY <1>2, CallFrame, SetFrame DEF AddOne, Leave
<1>. DEFINE t == todo[h] \ {l}
<1>4. /\ UNCHANGED <<ev, payload, told>> /\ todo'[h] = t /\ unknown'[h] = unknown[h]
      /\ pc'[h] = NextPhase(ev[h], "adding", t, unknown[h])
  <2>1. "adding" \in Phase \ {"idle"}
    BY DEF Phase
  <2>. QED
    BY <1>2, <2>1, GoFrame
<1>5. /\ Asked(h)' = Asked(h) /\ Barred(h)' = Barred(h) /\ Excused(h) \subseteq Excused(h)'
      /\ Asked(h) \cap Barred(h) = {} /\ Fold[l] \in Asked(h)
  BY <1>1, <1>3, <1>4, NoConflict DEF Asked, Barred, Excused, CommentInv, CallsAsAsked
<1>6. pr \subseteq pr' /\ (l \in pr' \/ Fold[l] \in Excused(h)')
  BY <1>3 DEF Excused
<1>7. \A x \in Asked(h) : x \in Folded(t \cup unknown[h] \cup pr') \cup Excused(h)'
  <2>. SUFFICES ASSUME NEW x \in Asked(h)
                PROVE  x \in Folded(t \cup unknown[h] \cup pr') \cup Excused(h)'
    OBVIOUS
  <2>1. x \in Folded(todo[h] \cup unknown[h] \cup pr) \cup Excused(h)
    BY <1>1 DEF CommentInv, AddsDone
  <2>2. CASE x \in Excused(h)
    BY <2>2, <1>5
  <2>3. ASSUME NEW k \in todo[h] \cup unknown[h] \cup pr, Fold[k] = x
        PROVE  x \in Folded(t \cup unknown[h] \cup pr') \cup Excused(h)'
    <3>1. CASE k \in t \cup unknown[h] \cup pr'
      BY <2>3, <3>1 DEF Folded
    <3>2. CASE k = l /\ l \notin pr'
      BY <2>3, <3>2, <1>6
    <3>. QED
      BY <1>6, <3>1, <3>2
  <2>. QED
    BY <2>1, <2>2, <2>3 DEF Folded
<1>8. \A k \in t \cup unknown[h] : Fold[k] \in Asked(h)
  BY <1>1 DEF CommentInv, CallsAsAsked
<1>9. \A k \in pr' : k \in pr \/ (k = l /\ Fold[k] \notin Barred(h))
  BY <1>3, <1>5
<1>. HIDE DEF t
<1>10. /\ t # {} => pc'[h] = "adding"
       /\ t = {} /\ unknown[h] # {} => pc'[h] = "report"
       /\ t = {} /\ unknown[h] = {} => pc'[h] = "done"
  BY <1>4 DEF NextPhase
<1>11. KnowsLabels(h)' /\ CallsAsAsked(h)'
  BY <1>1, <1>4, <1>5, <1>8, <1>10 DEF CommentInv, KnowsLabels, CallsAsAsked
<1>12. AddsDone(h)'
  <2>1. t = {} => t \cup unknown[h] \cup pr' = unknown[h] \cup pr'
    OBVIOUS
  <2>2. t = {} /\ unknown[h] = {} => t \cup unknown[h] \cup pr' = pr'
    OBVIOUS
  <2>. QED
    BY <1>4, <1>5, <1>7, <1>10, <2>1, <2>2 DEF AddsDone
<1>13. RemovesDone(h)'
  <2>1. \A k : OnlySpelling(k)' = OnlySpelling(k)
    BY <1>3 DEF OnlySpelling
  <2>. QED
    BY <1>1, <1>5, <1>9, <1>10, <2>1 DEF CommentInv, RemovesDone
<1>. QED
  BY <1>1, <1>4, <1>11, <1>12, <1>13 DEF HandlerInv, CommentInv

LEMMA ReportInv ==
  ASSUME TypeOK, NEW h \in Handler, HandlerInv(h), Report(h)
  PROVE  HandlerInv(h)'
<1>1. /\ pc[h] = "report" /\ ev[h].kind = "comment" /\ CommentInv(h) /\ told[h] = {}
      /\ UNCHANGED <<repo, pr, touched>>
  BY OnlyComments DEF Report, Leave
<1>2. /\ pc'[h] = "done" /\ UNCHANGED <<ev, payload, todo, unknown>>
  BY EndFrame DEF Report
<1>3. Excused(h) \subseteq Excused(h)' /\ Folded(unknown[h]) \subseteq Excused(h)'
  <2>1. \/ told'[h] = Folded(unknown[h]) /\ lost'[h] = lost[h]
        \/ told' = told /\ lost'[h] = lost[h] \cup Folded(unknown[h])
    BY CallFrame DEF Report, TypeOK
  <2>. QED
    BY <1>1, <2>1 DEF Excused
<1>4. Asked(h)' = Asked(h) /\ Barred(h)' = Barred(h)
  BY <1>2 DEF Asked, Barred
<1>5. KnowsLabels(h)' /\ CallsAsAsked(h)'
  BY <1>2 DEF KnowsLabels, CallsAsAsked
<1>6. AddsDone(h)'
  <2>1. \A x \in Asked(h) : x \in Folded(unknown[h] \cup pr) \cup Excused(h)
    BY <1>1 DEF CommentInv, AddsDone
  <2>2. \A x \in Folded(unknown[h] \cup pr) : x \in Folded(unknown[h]) \/ x \in Folded(pr)
    BY DEF Folded
  <2>. QED
    BY <1>1, <1>2, <1>3, <1>4, <2>1, <2>2 DEF AddsDone
<1>7. RemovesDone(h)'
  <2>1. \A k : OnlySpelling(k)' = OnlySpelling(k)
    BY <1>1 DEF OnlySpelling
  <2>. QED
    BY <1>1, <1>2, <1>3, <1>4, <2>1 DEF CommentInv, RemovesDone
<1>. QED
  BY <1>1, <1>2, <1>5, <1>6, <1>7 DEF HandlerInv, CommentInv

LEMMA CheckSquashInv ==
  ASSUME TypeOK, NEW h \in Handler, HandlerInv(h), CheckSquash(h)
  PROVE  HandlerInv(h)'
<1>1. ev[h].kind # "comment" /\ PullInv(h) /\ pc[h] = "squash"
  BY DEF CheckSquash, HandlerInv, CommentInv, CallsAsAsked
<1>2. pc'[h] = "done" /\ UNCHANGED <<ev, payload>>
  BY EndFrame DEF CheckSquash
<1>3. /\ touched'[h] = touched[h]
      /\ \/ pr' = AfterCheck(h) /\ lost'[h] = lost[h]
         \/ pr' = pr /\ lost'[h] = lost[h] \cup {Fold[SquashLabel]}
  BY CallFrame, SetFrame DEF CheckSquash, Leave
<1>4. Undisturbed(h)' => Undisturbed(h) /\ pr' = AfterCheck(h)
  BY <1>3 DEF Undisturbed
<1>. QED
  BY <1>1, <1>2, <1>4 DEF HandlerInv, PullInv, AfterCheck

LEMMA NextInv ==
  ASSUME TypeOK, Introduced, \A g \in Handler : HandlerInv(g), [Next]_vars
  PROVE  \A g \in Handler : HandlerInv(g)'
<1>1. ASSUME NEW h \in Handler, Send(h) \/ Step(h)
      PROVE  \A g \in Handler : HandlerInv(g)'
  <2>1. HandlerInv(h)'
    BY <1>1, SendInv, ReadToRemoveInv, RemoveOneInv, ReadToAddInv, AskCollaboratorInv,
       CreateOneInv, AddOneInv, CheckSquashInv, ReportInv DEF Step
  <2>. QED
    BY <1>1, <2>1, StepFrame, OthersInv
<1>2. CASE Edit
  BY <1>2, EditInv
<1>3. CASE Finished \/ UNCHANGED vars
  <2>1. UNCHANGED vars
    BY <1>3 DEF Finished
  <2>. QED
    BY <2>1, AsideInv DEF vars, handler, Aside
<1>. QED
  BY <1>1, <1>2, <1>3 DEF Next

LEMMA InductiveInvariant == Spec => []IInv
<1>1. Init => IInv
  <2>1. Init => \A g \in Handler : HandlerInv(g)
    BY DEF Init, HandlerInv, CommentInv, PullInv, KnowsLabels, CallsAsAsked, AddsDone, RemovesDone
  <2>. QED
    BY <2>1, InitType, InitIntroduced DEF IInv
<1>2. IInv /\ [Next]_vars => IInv'
  BY NextType, NextIntroduced, NextInv DEF IInv
<1>. QED
  BY <1>1, <1>2, PTL DEF Spec

\* A comment with a conflict is answered, or the answer fails, and nothing else becomes
\* of it.
Refused(h) ==
  Conflict(ev[h]) =>
    /\ pc[h] \in {"idle", "report", "done"}
    /\ pc[h] # "done" => told[h] = {} /\ lost[h] = {}
    /\ pc[h] = "report" => Folded(unknown[h]) = Disputed(ev[h])
    /\ pc[h] = "done" => told[h] \cup lost[h] = Disputed(ev[h])

LEMMA InitRefused == Init => \A h \in Handler : Refused(h)
BY DEF Init, Refused

LEMMA SendRefuses ==
  ASSUME TypeOK, NEW h \in Handler, Refused(h), Send(h)
  PROVE  Refused(h)'
<1>1. PICK f \in Spellings(ev[h].add) : unknown' = [unknown EXCEPT ![h] = Origin(f, Disputed(ev[h]))]
  BY DEF Send
<1>2. /\ UNCHANGED <<ev, told, lost>> /\ pc[h] = "idle"
      /\ Conflict(ev[h]) => pc'[h] = "report"
  BY DEF Send, TypeOK
<1>3. Folded(unknown'[h]) = Disputed(ev[h])
  <2>1. Folded(Origin(f, Disputed(ev[h]))) = Disputed(ev[h]) \cap Folded(ev[h].add)
    BY OriginFact
  <2>. QED
    BY <1>1, <2>1 DEF Disputed, TypeOK
<1>. QED
  BY <1>2, <1>3 DEF Refused

LEMMA ReportRefuses ==
  ASSUME TypeOK, NEW h \in Handler, Refused(h), Report(h)
  PROVE  Refused(h)'
<1>1. pc[h] = "report" /\ pc'[h] = "done" /\ ev' = ev
  BY EndFrame DEF Report
<1>2. \/ told'[h] = Folded(unknown[h]) /\ lost'[h] = lost[h]
      \/ told'[h] = told[h] /\ lost'[h] = lost[h] \cup Folded(unknown[h])
  BY CallFrame DEF Report, TypeOK
<1>. QED
  BY <1>1, <1>2 DEF Refused

LEMMA StepRefuses ==
  ASSUME TypeOK, \A g \in Handler : Refused(g), [Next]_vars
  PROVE  \A g \in Handler : Refused(g)'
<1>1. ASSUME NEW h \in Handler, Send(h) \/ Step(h), NEW g \in Handler
      PROVE  Refused(g)'
  <2>1. CASE g # h
    <3>1. /\ ev' = ev /\ pc'[g] = pc[g] /\ unknown'[g] = unknown[g]
          /\ told'[g] = told[g] /\ lost'[g] = lost[g]
      BY <1>1, <2>1, StepFrame DEF Frame, TypeOK
    <3>. QED
      BY <3>1 DEF Refused
  <2>2. CASE g = h /\ (Send(h) \/ Report(h))
    BY <2>2, SendRefuses, ReportRefuses
  <2>3. CASE g = h /\ ~(Send(h) \/ Report(h))
    <3>1. pc[h] \in {"remove", "removing", "squash", "add", "collab", "creating", "adding"}
      BY <1>1, <2>3 DEF Step, ReadToRemove, RemoveOne, ReadToAdd, AskCollaborator, CreateOne, AddOne, CheckSquash
    <3>2. ev' = ev
      BY <1>1, StepFrame DEF Frame
    <3>. QED
      BY <2>3, <3>1, <3>2 DEF Refused
  <2>. QED
    BY <2>1, <2>2, <2>3
<1>2. CASE Edit \/ Finished \/ UNCHANGED vars
  BY <1>2 DEF Edit, Finished, vars, handler, Refused
<1>. QED
  BY <1>1, <1>2 DEF Next

\* A comment that does not contradict itself is obeyed in the end, but for what the robot
\* said it could not do, what a failed call was about and what others changed meanwhile;
\* of one that does, the reply names exactly the labels it asks for both ways.
THEOREM AsksMet == Spec => []AsksAreMet
<1>1. IInv /\ (\A h \in Handler : Refused(h)) => AsksAreMet
  <2>. SUFFICES ASSUME IInv, NEW h \in Handler, Refused(h), pc[h] = "done", ev[h].kind = "comment"
                PROVE  IF Conflict(ev[h]) THEN told[h] \cup lost[h] = Disputed(ev[h]) ELSE Obeyed(h)
    BY DEF AsksAreMet
  <2>1. CASE Conflict(ev[h])
    BY <2>1 DEF Refused
  <2>2. CASE ~Conflict(ev[h])
    BY <2>2 DEF IInv, HandlerInv, CommentInv, AddsDone, RemovesDone, Obeyed, Asked, Barred
  <2>. QED
    BY <2>1, <2>2
<1>2. IInv /\ (\A h \in Handler : Refused(h)) /\ [Next]_vars => (\A h \in Handler : Refused(h))'
  BY StepRefuses DEF IInv
<1>. QED
  BY <1>1, <1>2, InductiveInvariant, InitRefused, PTL DEF Spec

\* An undisturbed squash label tells whether there are too many commits.
THEOREM SquashFollows == Spec => []SquashFollowsCommits
<1>1. IInv => SquashFollowsCommits
  <2>. SUFFICES ASSUME IInv, NEW h \in Handler, pc[h] = "done", ev[h].squash # "off", Undisturbed(h)
                PROVE  SquashLabel \in pr <=> ev[h].squash = "many"
    BY DEF SquashFollowsCommits, Undisturbed
  <2>1. ev[h].kind # "comment"
    BY EventShape DEF IInv
  <2>. QED
    BY <2>1 DEF IInv, HandlerInv, PullInv
<1>. QED
  BY <1>1, InductiveInvariant, PTL
=============================================================================
