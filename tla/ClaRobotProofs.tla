--------------------------- MODULE ClaRobotProofs ---------------------------
(***************************************************************************)
(* The CLA robot for any number of events, commits and failures.           *)
(* Signatures are never withdrawn, so what a handler learns of an email    *)
(* stays true; Verdict carries it from commit to commit to the comment,    *)
(* which gives ThanksMeansSigned.  UndisturbedVerdict needs the converse   *)
(* as well (Accuses) and the labels and guides after every call (Leaves).  *)
(***************************************************************************)
EXTENDS ClaRobot, FiniteSetTheorems, TLAPS

After == {"list", "delete", "remove", "add", "guide", "thank"}

Shape ==
  /\ pc \in [Handler -> {"none", "fetch", "asleep", "check", "done"} \cup After]
  /\ next \in [Handler -> Nat]
  /\ fetched \in [Handler -> Seq(Commit)]
  /\ known \in [Handler -> [yes : SUBSET Email, no : SUBSET Email]]
  /\ unsigned \in [Handler -> BOOLEAN]
  /\ commits \in Seq(Commit)

\* A handler that has not fetched yet has checked nothing.
Fresh == \A h \in Handler : pc[h] \in {"none", "fetch", "asleep"} => next[h] = 1 /\ h \notin thanks

\* What a handler has been told is signed still is.
KnownSigned == \A h \in Handler : known[h].yes \subseteq signed

\* The commits checked so far are signed, or the handler says that one is not.
Verdict ==
  \A h \in Handler : ~unsigned[h] =>
    \A k \in DOMAIN fetched[h] : k < next[h] => Signed(fetched[h][k])

Progress ==
  \A h \in Handler :
    /\ pc[h] = "check" => next[h] <= Len(fetched[h])
    /\ pc[h] \in After => next[h] = Len(fetched[h]) + 1
    /\ pc[h] = "thank" => ~unsigned[h]

IInv == Shape /\ Fresh /\ KnownSigned /\ Verdict /\ Progress /\ ThanksMeansSigned

-----------------------------------------------------------------------------
LEMMA SignedIsAuthor == ASSUME NEW c PROVE Signed(c) <=> AuthorOf(c) \in signed
BY ClaAssumption DEF Signed, AuthorOf

LEMMA InitHolds == Init => IInv
BY ClaAssumption DEF Init, IInv, Shape, Fresh, KnownSigned, Verdict, Progress, ThanksMeansSigned, AllSigned, After

\* A step that neither fetches nor checks nor thanks.
LEMMA Elsewhere ==
  ASSUME IInv, UNCHANGED <<checking, signed, thanks>>, commits' \in Seq(Commit),
         NEW h \in Handler, NEW w \in {"none", "fetch", "asleep", "check", "done"} \cup After,
         pc' = [pc EXCEPT ![h] = w],
         w \in {"fetch", "asleep"} => pc[h] \in {"none", "fetch", "asleep"},
         w \notin {"none", "check"},
         w \in After => pc[h] \in After,
         w = "thank" => ~unsigned[h]
  PROVE  IInv'
<1> USE DEF checking
<1>1. pc'[h] = w /\ \A g \in Handler : g # h => pc'[g] = pc[g]
  BY DEF IInv, Shape
<1>2. Shape'
  BY DEF IInv, Shape
<1>3. Fresh'
  BY <1>1 DEF IInv, Fresh, After
<1>4. KnownSigned' /\ Verdict' /\ ThanksMeansSigned'
  BY DEF IInv, KnownSigned, Verdict, ThanksMeansSigned, AllSigned, Signed
<1>5. Progress'
  BY <1>1 DEF IInv, Progress, After
<1> QED BY <1>2, <1>3, <1>4, <1>5 DEF IInv

LEMMA FetchPreserves ==
  ASSUME IInv, NEW h \in Handler, Fetch(h)
  PROVE  IInv'
<1>1. /\ pc[h] = "fetch" /\ next[h] = 1 /\ h \notin thanks
      /\ fetched' = [fetched EXCEPT ![h] = commits]
      /\ UNCHANGED <<commits, signed, thanks, next, known, unsigned>>
      /\ \/ commits = <<>> /\ pc' = [pc EXCEPT ![h] = "done"]
         \/ commits # <<>> /\ pc' = [pc EXCEPT ![h] = "check"]
  BY DEF Fetch, Goto, server, IInv, Fresh
<1>2. fetched'[h] = commits /\ \A g \in Handler : g # h => fetched'[g] = fetched[g]
  BY <1>1 DEF IInv, Shape
<1>3. Shape'
  BY <1>1 DEF IInv, Shape
<1>4. Fresh'
  BY <1>1 DEF IInv, Fresh, Shape, After
<1>5. KnownSigned'
  BY <1>1 DEF IInv, KnownSigned
<1>6. Verdict'
  <2> SUFFICES ASSUME NEW g \in Handler, ~unsigned'[g], NEW k \in DOMAIN fetched'[g], k < next'[g]
               PROVE  Signed(fetched[g][k]) /\ fetched'[g] = fetched[g]
    BY <1>1 DEF Verdict, Signed
  <2>1. CASE g = h
    <3>1. k \in 1 .. Len(commits) /\ k < 1
      BY <1>1, <1>2, <2>1 DEF IInv, Shape
    <3> QED BY <3>1
  <2>2. CASE g # h
    BY <1>1, <1>2, <2>2 DEF IInv, Verdict
  <2> QED BY <2>1, <2>2
<1>7. Progress'
  <2>1. commits # <<>> => Len(commits) \in Nat /\ 1 <= Len(commits)
    BY DEF IInv, Shape
  <2> QED BY <1>1, <1>2, <2>1 DEF IInv, Progress, Shape, After
<1>8. ThanksMeansSigned'
  BY <1>1, <1>2 DEF IInv, ThanksMeansSigned, AllSigned, Signed, Shape
<1> QED BY <1>3, <1>4, <1>5, <1>6, <1>7, <1>8 DEF IInv

\* One commit checked: ok says the truth about it, and asked is the truth as well.
LEMMA CheckedPreserves ==
  ASSUME IInv, NEW h \in Handler, pc[h] = "check", NEW ok \in BOOLEAN,
         NEW asked \in [yes : SUBSET Email, no : SUBSET Email],
         Checked(h, ok, asked), asked.yes \subseteq signed,
         ok => Signed(fetched[h][next[h]])
  PROVE  IInv'
<1>1. /\ next' = [next EXCEPT ![h] = next[h] + 1]
      /\ unsigned' = [unsigned EXCEPT ![h] = unsigned[h] \/ ~ok]
      /\ known' = [known EXCEPT ![h] = asked]
      /\ pc' = [pc EXCEPT ![h] = IF next[h] = Len(fetched[h]) THEN "list" ELSE "check"]
      /\ UNCHANGED <<commits, signed, thanks, fetched>>
  BY DEF Checked, Goto, server
<1>2. next[h] \in Nat /\ Len(fetched[h]) \in Nat /\ next[h] <= Len(fetched[h])
  BY DEF IInv, Shape, Progress
<1>3. /\ next'[h] = next[h] + 1 /\ unsigned'[h] = (unsigned[h] \/ ~ok) /\ known'[h] = asked
      /\ \A g \in Handler : g # h => /\ next'[g] = next[g] /\ unsigned'[g] = unsigned[g]
                                     /\ known'[g] = known[g] /\ pc'[g] = pc[g]
  BY <1>1 DEF IInv, Shape
<1>4. pc'[h] = IF next[h] = Len(fetched[h]) THEN "list" ELSE "check"
  BY <1>1 DEF IInv, Shape
<1>5. Shape'
  <2>1. unsigned' \in [Handler -> BOOLEAN]
    BY <1>1 DEF IInv, Shape
  <2>2. next' \in [Handler -> Nat]
    BY <1>1, <1>2 DEF IInv, Shape
  <2>3. pc' \in [Handler -> {"none", "fetch", "asleep", "check", "done"} \cup After]
    BY <1>1 DEF IInv, Shape, After
  <2> QED BY <1>1, <2>1, <2>2, <2>3 DEF IInv, Shape
<1>6. Fresh'
  BY <1>1, <1>3, <1>4 DEF IInv, Fresh
<1>7. KnownSigned'
  BY <1>1, <1>3 DEF IInv, KnownSigned
<1>8. Verdict'
  <2> SUFFICES ASSUME NEW g \in Handler, ~unsigned'[g], NEW k \in DOMAIN fetched[g], k < next'[g]
               PROVE  Signed(fetched[g][k])
    BY <1>1 DEF Verdict, Signed
  <2>1. CASE g = h
    <3>1. ~unsigned[h] /\ ok
      BY <1>3, <2>1
    <3>2. CASE k = next[h]
      BY <2>1, <3>1, <3>2
    <3>3. CASE k # next[h]
      <4>1. k \in Nat
        BY <2>1 DEF IInv, Shape
      <4>2. k < next[h]
        BY <1>2, <1>3, <2>1, <3>3, <4>1
      <4> QED BY <2>1, <3>1, <4>2 DEF IInv, Verdict
    <3> QED BY <3>2, <3>3
  <2>2. CASE g # h
    BY <1>3, <2>2 DEF IInv, Verdict
  <2> QED BY <2>1, <2>2
<1>9. Progress'
  <2>1. pc'[h] = "check" => next'[h] <= Len(fetched'[h])
    BY <1>1, <1>2, <1>3, <1>4
  <2>2. pc'[h] \in After => next'[h] = Len(fetched'[h]) + 1
    BY <1>1, <1>2, <1>3, <1>4 DEF After
  <2>3. pc'[h] # "thank"
    BY <1>4
  <2> QED BY <1>1, <1>3, <2>1, <2>2, <2>3 DEF IInv, Progress
<1>10. ThanksMeansSigned'
  BY <1>1 DEF IInv, ThanksMeansSigned, AllSigned, Signed
<1> QED BY <1>5, <1>6, <1>7, <1>8, <1>9, <1>10 DEF IInv

LEMMA CheckCommitPreserves ==
  ASSUME IInv, NEW h \in Handler, CheckCommit(h)
  PROVE  IInv'
<1> DEFINE e == AuthorOf(fetched[h][next[h]])
<1>1. pc[h] = "check"
  BY DEF CheckCommit
<1>2. known[h] \in [yes : SUBSET Email, no : SUBSET Email] /\ known[h].yes \subseteq signed
  BY DEF IInv, Shape, KnownSigned
<1>3. Signed(fetched[h][next[h]]) <=> e \in signed
  BY SignedIsAuthor
<1> HIDE DEF e
<1>4. CASE NoEmail(h, e)
  BY <1>1, <1>2, <1>4, CheckedPreserves DEF NoEmail
<1>5. CASE AskedBefore(h, e)
  <2>1. CASE e \in known[h].yes
    <3>1. Checked(h, TRUE, known[h])
      BY <1>5, <2>1 DEF AskedBefore, Checked
    <3> QED BY <1>1, <1>2, <1>3, <2>1, <3>1, CheckedPreserves
  <2>2. CASE e \notin known[h].yes
    <3>1. Checked(h, FALSE, known[h])
      BY <1>5, <2>2 DEF AskedBefore, Checked
    <3> QED BY <1>1, <1>2, <3>1, CheckedPreserves
  <2> QED BY <2>1, <2>2
<1>6. CASE IsSigned(h, e)
  <2>0. e \in Email
    BY <1>6, ClaAssumption DEF IsSigned
  <2>1. CASE e \in signed
    <3>1. PICK asked : asked = [known[h] EXCEPT !.yes = known[h].yes \cup {e}]
      OBVIOUS
    <3>2. Checked(h, TRUE, asked)
      BY <1>6, <2>1, <3>1 DEF IsSigned, Checked
    <3>3. asked \in [yes : SUBSET Email, no : SUBSET Email] /\ asked.yes \subseteq signed
      BY <1>2, <2>0, <2>1, <3>1
    <3> QED BY <1>1, <1>3, <2>1, <3>2, <3>3, CheckedPreserves
  <2>2. CASE e \notin signed
    <3>1. PICK asked : asked = [known[h] EXCEPT !.no = known[h].no \cup {e}]
      OBVIOUS
    <3>2. Checked(h, FALSE, asked)
      BY <1>6, <2>2, <3>1 DEF IsSigned, Checked
    <3>3. asked \in [yes : SUBSET Email, no : SUBSET Email] /\ asked.yes \subseteq signed
      BY <1>2, <2>0, <3>1
    <3> QED BY <1>1, <3>2, <3>3, CheckedPreserves
  <2> QED BY <2>1, <2>2
<1>7. CASE IsSignedFails(h, e)
  <2>1. UNCHANGED <<checking, signed, thanks, commits>> /\ pc' = [pc EXCEPT ![h] = "done"]
    BY <1>7 DEF IsSignedFails, Goto, server
  <2>2. commits' \in Seq(Commit)
    BY <2>1 DEF IInv, Shape
  <2> QED BY <2>1, <2>2, Elsewhere DEF After
<1> QED BY <1>4, <1>5, <1>6, <1>7 DEF CheckCommit, e

LEMMA SignPreserves ==
  ASSUME IInv, NEW e \in ValidEmail, Sign(e)
  PROVE  IInv'
<1>1. signed \subseteq signed' /\ UNCHANGED <<commits, thanks, pc, fetched, next, known, unsigned>>
  BY DEF Sign, checking
<1>2. ASSUME NEW c, Signed(c)
      PROVE  Signed(c)'
  BY <1>1, <1>2 DEF Signed
<1>3. Shape' /\ Fresh' /\ Progress'
  BY <1>1 DEF IInv, Shape, Fresh, Progress
<1>4. KnownSigned'
  BY <1>1 DEF IInv, KnownSigned
<1>5. Verdict'
  BY <1>1 DEF IInv, Verdict, Signed
<1>6. ThanksMeansSigned'
  BY <1>1 DEF IInv, ThanksMeansSigned, AllSigned, Signed
<1> QED BY <1>3, <1>4, <1>5, <1>6 DEF IInv

LEMMA ThankPreserves ==
  ASSUME IInv, NEW h \in Handler, PostThanks(h)
  PROVE  IInv'
<1>1. /\ pc[h] = "thank" /\ pc' = [pc EXCEPT ![h] = "done"]
      /\ thanks' \subseteq thanks \cup {h}
      /\ UNCHANGED <<commits, signed, fetched, next, known, unsigned>>
  BY DEF PostThanks, Goto, checking
<1>2. pc'[h] = "done" /\ \A g \in Handler : g # h => pc'[g] = pc[g]
  BY <1>1 DEF IInv, Shape
<1>3. Shape' /\ KnownSigned' /\ Verdict'
  BY <1>1 DEF IInv, Shape, KnownSigned, Verdict, Signed
<1>4. Fresh' /\ Progress'
  BY <1>1, <1>2 DEF IInv, Fresh, Progress, After
<1>5. AllSigned(fetched[h])
  <2>1. \A k \in DOMAIN fetched[h] : k < next[h]
    BY <1>1 DEF IInv, Shape, Progress, After
  <2> QED BY <1>1, <2>1 DEF IInv, Verdict, Progress, AllSigned
<1>6. ThanksMeansSigned'
  BY <1>1, <1>5 DEF IInv, ThanksMeansSigned, AllSigned, Signed
<1> QED BY <1>3, <1>4, <1>6 DEF IInv

LEMMA StepPreserves == IInv /\ [Next]_vars => IInv'
<1> SUFFICES ASSUME IInv, [Next]_vars PROVE IInv'
  OBVIOUS
<1> USE DEF Goto, server, checking
<1>0. commits \in Seq(Commit)
  BY DEF IInv, Shape
<1>1. ASSUME NEW h \in Handler, Step(h) PROVE IInv'
  <2>1. CASE Ignore(h)
    BY <1>0, <2>1, Elsewhere DEF Ignore, After
  <2>10. CASE FetchFails(h)
    BY <1>0, <2>10, Elsewhere DEF FetchFails, After
  <2>11. CASE Retry(h)
    BY <1>0, <2>11, Elsewhere DEF Retry, After
  <2>2. CASE Fetch(h)
    BY <2>2, FetchPreserves
  <2>3. CASE CheckCommit(h)
    BY <2>3, CheckCommitPreserves
  <2>4. CASE ListGuides(h)
    BY <1>0, <2>4, Elsewhere DEF ListGuides, After
  <2>5. CASE DeleteGuide(h)
    BY <1>0, <2>5, Elsewhere DEF DeleteGuide, After
  <2>6. CASE RemoveLabel(h)
    BY <1>0, <2>6, Elsewhere DEF RemoveLabel, After
  <2>7. CASE AddLabel(h)
    <3>1. PICK w \in {"guide", "thank", "done"} :
            pc' = [pc EXCEPT ![h] = w] /\ (w = "thank" => ~unsigned[h])
      BY <2>7 DEF AddLabel, IInv, Shape
    <3> QED BY <1>0, <2>7, <3>1, Elsewhere DEF AddLabel, After
  <2>8. CASE PostGuide(h)
    BY <1>0, <2>8, Elsewhere DEF PostGuide, After
  <2>9. CASE PostThanks(h)
    BY <2>9, ThankPreserves
  <2> QED BY <1>1, <2>1, <2>10, <2>11, <2>2, <2>3, <2>4, <2>5, <2>6, <2>7, <2>8, <2>9 DEF Step
<1>2. ASSUME NEW h \in Handler, NEW e, Notify(h, e) PROVE IInv'
  BY <1>0, <1>2, Elsewhere DEF Notify, Send, After
<1>3. ASSUME NEW h \in Handler, NEW cs \in Histories, Push(h, cs) PROVE IInv'
  <2>1. commits' \in Seq(Commit)
    BY <1>3, ClaAssumption DEF Push
  <2> QED BY <1>3, <2>1, Elsewhere DEF Push, Send, After
<1>4. ASSUME NEW e \in ValidEmail, Sign(e) PROVE IInv'
  BY <1>4, SignPreserves
<1>5. CASE UNCHANGED vars
  BY <1>5 DEF vars, IInv, Shape, Fresh, KnownSigned, Verdict, Progress, ThanksMeansSigned, AllSigned, Signed
<1> QED BY <1>1, <1>2, <1>3, <1>4, <1>5 DEF Next

\* Whatever runs at the same time and whatever fails, an author is thanked only for
\* commits that are all signed.
THEOREM ThanksMeansSignedHolds == Spec => []ThanksMeansSigned
<1>1. IInv => ThanksMeansSigned
  BY DEF IInv
<1> QED BY <1>1, InitHolds, StepPreserves, PTL DEF Spec

-----------------------------------------------------------------------------
(* Type correctness *)

Index == \A h \in Handler : next[h] \in 1 .. Len(fetched[h]) + 1

Calls ==
  /\ labels \subseteq {"yes", "no"}
  /\ guides \subseteq Handler \cup {"earlier"}
  /\ thanks \subseteq Handler
  /\ found \in [Handler -> SUBSET (Handler \cup {"earlier"})]
  /\ faults \in 0 .. MaxFaults
  /\ quiet \subseteq Handler

Payloads ==
  /\ commits \in Histories
  /\ signed \subseteq ValidEmail
  /\ event \in [Handler -> [check : BOOLEAN, relevant : BOOLEAN]]
  /\ seen \in [Handler -> SUBSET {"yes", "no"}]
  /\ \A h \in Handler : fetched[h] \in Histories \cup {<<>>}

Typed == Index /\ Calls /\ Payloads

LEMMA InitTyped == Init => Typed
<1> SUFFICES ASSUME Init PROVE Typed
  OBVIOUS
<1>1. Index
  <2>1. Len(<<>>) = 0
    OBVIOUS
  <2> QED BY <2>1 DEF Init, Index
<1>2. Calls
  BY ClaAssumption DEF Init, Calls
<1>3. Payloads
  BY DEF Init, Payloads
<1> QED BY <1>1, <1>2, <1>3 DEF Typed

\* The calls a handler makes and what it remembers of them.
LEMMA StepCalls ==
  ASSUME Calls, NEW h \in Handler, Step(h)
  PROVE  Calls'
<1> USE DEF server, checking, Calls
<1>1. ASSUME Fails(h) PROVE faults' \in 0 .. MaxFaults /\ quiet' \subseteq Handler
  BY <1>1, ClaAssumption DEF Fails
<1>2. CASE Ignore(h) \/ FetchFails(h) \/ Retry(h) \/ Fetch(h)
  BY <1>1, <1>2 DEF Ignore, FetchFails, Retry, Fetch, Works
<1>3. CASE CheckCommit(h)
  <2> DEFINE e == AuthorOf(fetched[h][next[h]])
  <2>1. CASE NoEmail(h, e) \/ AskedBefore(h, e) \/ IsSigned(h, e)
    BY <2>1 DEF NoEmail, AskedBefore, IsSigned, Checked, Works
  <2>2. CASE IsSignedFails(h, e)
    BY <1>1, <2>2 DEF IsSignedFails
  <2> QED BY <1>3, <2>1, <2>2 DEF CheckCommit
<1>4. CASE ListGuides(h)
  BY <1>1, <1>4 DEF ListGuides, Works
<1>5. CASE DeleteGuide(h)
  BY <1>1, <1>5 DEF DeleteGuide, Works
<1>6. CASE RemoveLabel(h)
  BY <1>1, <1>6 DEF RemoveLabel, Works
<1>7. CASE AddLabel(h)
  BY <1>1, <1>7 DEF AddLabel, Works, Right
<1>8. CASE PostGuide(h) \/ PostThanks(h)
  BY <1>1, <1>8 DEF PostGuide, PostThanks, Works
<1> QED BY <1>2, <1>3, <1>4, <1>5, <1>6, <1>7, <1>8 DEF Step

\* What a handler's step leaves alone.
LEMMA StepKeeps ==
  ASSUME NEW h \in Handler, Step(h)
  PROVE  UNCHANGED <<commits, signed, event, seen>>
<1> USE DEF server, checking
<1>1. CASE CheckCommit(h)
  BY <1>1 DEF CheckCommit, NoEmail, AskedBefore, IsSigned, IsSignedFails, Checked
<1>2. CASE ~CheckCommit(h)
  BY <1>2 DEF Step, Ignore, FetchFails, Retry, Fetch, ListGuides, DeleteGuide, RemoveLabel, AddLabel,
              PostGuide, PostThanks
<1> QED BY <1>1, <1>2

LEMMA StepIndex ==
  ASSUME IInv, Index, Payloads, NEW h \in Handler, Step(h)
  PROVE  Index' /\ \A g \in Handler : fetched'[g] \in Histories \cup {<<>>}
<1> USE DEF server, checking
<1>1. CASE Fetch(h)
  <2>1. /\ next[h] = 1 /\ next' = next
        /\ fetched' = [fetched EXCEPT ![h] = commits]
        /\ commits \in Histories /\ Len(commits) \in Nat
    BY <1>1 DEF Fetch, IInv, Fresh, Payloads, Shape
  <2>2. fetched'[h] = commits /\ \A g \in Handler : g # h => fetched'[g] = fetched[g]
    BY <2>1 DEF IInv, Shape
  <2>3. next'[h] \in 1 .. Len(fetched'[h]) + 1
    BY <2>1, <2>2
  <2> QED BY <2>1, <2>2, <2>3 DEF Index, Payloads
<1>2. CASE CheckCommit(h)
  <2>1. /\ fetched' = fetched
        /\ next' = next \/ next' = [next EXCEPT ![h] = next[h] + 1]
    BY <1>2 DEF CheckCommit, NoEmail, AskedBefore, IsSigned, IsSignedFails, Checked
  <2>2. next[h] \in Nat /\ Len(fetched[h]) \in Nat /\ next[h] <= Len(fetched[h])
    BY <1>2 DEF CheckCommit, IInv, Shape, Progress
  <2>3. next'[h] \in 1 .. Len(fetched'[h]) + 1
    BY <2>1, <2>2 DEF Index, IInv, Shape
  <2>4. \A g \in Handler : g # h => next'[g] = next[g]
    BY <2>1 DEF IInv, Shape
  <2> QED BY <2>1, <2>3, <2>4 DEF Index, Payloads
<1>3. CASE ~Fetch(h) /\ ~CheckCommit(h)
  <2>1. UNCHANGED <<fetched, next>>
    BY <1>3 DEF Step, Ignore, FetchFails, Retry, ListGuides, DeleteGuide, RemoveLabel, AddLabel,
                PostGuide, PostThanks
  <2> QED BY <2>1 DEF Index, Payloads
<1> QED BY <1>1, <1>2, <1>3

LEMMA NextTyped == IInv /\ Typed /\ [Next]_vars => Typed'
<1> SUFFICES ASSUME IInv, Typed, [Next]_vars PROVE Typed'
  OBVIOUS
<1> USE DEF server, checking
<1>1. ASSUME NEW h \in Handler, Step(h) PROVE Typed'
  <2>1. Calls'
    BY <1>1, StepCalls DEF Typed
  <2>2. Index' /\ \A g \in Handler : fetched'[g] \in Histories \cup {<<>>}
    BY <1>1, StepIndex DEF Typed
  <2>3. Payloads'
    BY <1>1, <2>2, StepKeeps DEF Typed, Payloads
  <2> QED BY <2>1, <2>2, <2>3 DEF Typed
<1>2. ASSUME NEW h \in Handler, NEW e \in [check : BOOLEAN, relevant : BOOLEAN], Send(h, e),
             commits' \in Histories, UNCHANGED <<signed, labels, guides, thanks>>
      PROVE  Typed'
  <2>1. Index' /\ Calls'
    BY <1>2 DEF Typed, Index, Calls, Send
  <2>2. event' \in [Handler -> [check : BOOLEAN, relevant : BOOLEAN]]
    BY <1>2 DEF Typed, Payloads, Send
  <2>3. seen' \in [Handler -> SUBSET {"yes", "no"}]
    BY <1>2 DEF Typed, Payloads, Calls, Send
  <2> QED BY <1>2, <2>1, <2>2, <2>3 DEF Typed, Payloads, Send
<1>3. ASSUME NEW h \in Handler, NEW check \in BOOLEAN, NEW relevant \in BOOLEAN,
             Notify(h, [check |-> check, relevant |-> relevant])
      PROVE  Typed'
  BY <1>2, <1>3 DEF Notify, Typed, Payloads
<1>4. ASSUME NEW h \in Handler, NEW cs \in Histories, Push(h, cs) PROVE Typed'
  BY <1>2, <1>4 DEF Push
<1>5. ASSUME NEW e \in ValidEmail, Sign(e) PROVE Typed'
  BY <1>5 DEF Sign, Typed, Index, Calls, Payloads
<1>6. CASE UNCHANGED vars
  BY <1>6 DEF vars, Typed, Index, Calls, Payloads
<1> QED BY <1>1, <1>3, <1>4, <1>5, <1>6 DEF Next

\* No commit is looked up beyond the last, and no call is made with a label, guide or
\* email that there cannot be.
THEOREM TypeCorrect == Spec => []TypeOK
<1>1. IInv /\ Typed => TypeOK
  BY DEF IInv, Shape, Progress, Typed, Index, Calls, Payloads, TypeOK, After
<1> QED BY <1>1, InitHolds, StepPreserves, InitTyped, NextTyped, PTL DEF Spec

-----------------------------------------------------------------------------
(* A handler that nothing disturbs *)

\* A handler that has not fetched yet knows of no email and has found nothing unsigned.
Untouched ==
  \A h \in Handler : pc[h] \in {"none", "fetch", "asleep"} => ~unsigned[h] /\ known[h].no = {}

\* The commits it was given are still those of the pull request, and what it holds
\* against them is true.
Accuses(h) ==
  /\ fetched[h] = commits
  /\ known[h].no \cap signed = {}
  /\ unsigned[h] => \E k \in DOMAIN commits : k < next[h] /\ ~Signed(commits[k])

\* The labels and guides it leaves behind, call by call.
Leaves(h) ==
  /\ pc[h] \in {"fetch", "check", "list", "delete", "remove"} => labels = seen[h]
  /\ pc[h] = "add" => labels = seen[h] \ {Wrong(h)}
  /\ pc[h] \in {"guide", "thank", "done"} => labels = {Right(h)}
  /\ pc[h] = "delete" => guides = found[h]
  /\ pc[h] \in {"remove", "add", "guide", "thank"} => guides = {}
  /\ pc[h] = "guide" => unsigned[h]
  /\ pc[h] = "done" => guides = IF unsigned[h] THEN {h} ELSE {}

Undisturbed(h) ==
  /\ \A g \in Handler : g # h => ~Active(g)
  /\ pc[h] \in {"fetch", "check", "done"} \cup After
  /\ pc[h] # "fetch" => Accuses(h)
  /\ pc[h] = "done" => next[h] = Len(fetched[h]) + 1
  /\ Leaves(h)

QuietInv == Untouched /\ \A h \in quiet : Undisturbed(h)

LEMMA InitQuiet == Init => QuietInv
BY DEF Init, QuietInv, Untouched

LEMMA StepUntouched ==
  ASSUME IInv, Untouched, NEW h \in Handler, Step(h)
  PROVE  Untouched'
<1> USE DEF server, checking, Goto
<1>1. pc' = [pc EXCEPT ![h] = pc'[h]]
      /\ (pc'[h] \in {"none", "fetch", "asleep"} => pc[h] \in {"fetch", "asleep"})
  <2>1. CASE CheckCommit(h)
    BY <2>1 DEF CheckCommit, NoEmail, AskedBefore, IsSigned, IsSignedFails, Checked, IInv, Shape
  <2>2. CASE Ignore(h) \/ FetchFails(h) \/ Retry(h) \/ Fetch(h)
    BY <2>2 DEF Ignore, FetchFails, Retry, Fetch, IInv, Shape
  <2>3. CASE ListGuides(h) \/ DeleteGuide(h) \/ RemoveLabel(h)
    BY <2>3 DEF ListGuides, DeleteGuide, RemoveLabel, IInv, Shape
  <2>4. CASE AddLabel(h) \/ PostGuide(h) \/ PostThanks(h)
    BY <2>4 DEF AddLabel, PostGuide, PostThanks, IInv, Shape
  <2> QED BY <2>1, <2>2, <2>3, <2>4 DEF Step
<1>2. CASE CheckCommit(h)
  <2>1. pc[h] = "check"
    BY <1>2 DEF CheckCommit
  <2>2. \A g \in Handler : g # h => known'[g] = known[g] /\ unsigned'[g] = unsigned[g]
    BY <1>2 DEF CheckCommit, NoEmail, AskedBefore, IsSigned, IsSignedFails, Checked, IInv, Shape
  <2> QED BY <1>1, <2>1, <2>2 DEF Untouched, IInv, Shape
<1>3. CASE ~CheckCommit(h)
  <2>1. UNCHANGED <<known, unsigned>>
    BY <1>3 DEF Step, Ignore, FetchFails, Retry, Fetch, ListGuides, DeleteGuide, RemoveLabel, AddLabel,
                PostGuide, PostThanks
  <2> QED BY <1>1, <2>1 DEF Untouched, IInv, Shape
<1> QED BY <1>2, <1>3

\* A step of a quiet handler that stays quiet is one in which the call works.
LEMMA StepQuiet ==
  ASSUME NEW h \in Handler, Step(h)
  PROVE  /\ Active(h)
         /\ quiet' = quiet \/ quiet' = quiet \ {h}
<1> USE DEF server, checking, Goto, Active, Works, Fails
<1>1. CASE CheckCommit(h)
  BY <1>1 DEF CheckCommit, NoEmail, AskedBefore, IsSigned, IsSignedFails, Checked
<1>2. CASE ~CheckCommit(h)
  BY <1>2 DEF Step, Ignore, FetchFails, Retry, Fetch, ListGuides, DeleteGuide, RemoveLabel, AddLabel,
              PostGuide, PostThanks
<1> QED BY <1>1, <1>2

\* A commit is looked at: what the handler holds against it is true.
LEMMA CheckedUndisturbed ==
  ASSUME NEW h \in Handler, IInv, Index, Undisturbed(h), pc[h] = "check", NEW ok \in BOOLEAN,
         NEW asked \in [yes : SUBSET Email, no : SUBSET Email],
         Checked(h, ok, asked), asked.no \cap signed = {},
         ~ok => ~Signed(fetched[h][next[h]])
  PROVE  Undisturbed(h)'
<1>1. /\ next' = [next EXCEPT ![h] = next[h] + 1]
      /\ unsigned' = [unsigned EXCEPT ![h] = unsigned[h] \/ ~ok]
      /\ known' = [known EXCEPT ![h] = asked]
      /\ pc' = [pc EXCEPT ![h] = IF next[h] = Len(fetched[h]) THEN "list" ELSE "check"]
      /\ UNCHANGED <<commits, signed, labels, guides, seen, fetched, found>>
  BY DEF Checked, Goto, server
<1>2. next[h] \in Nat /\ Len(fetched[h]) \in Nat /\ next[h] <= Len(fetched[h])
  BY DEF IInv, Shape, Progress
<1>3. /\ next'[h] = next[h] + 1 /\ unsigned'[h] = (unsigned[h] \/ ~ok) /\ known'[h] = asked
      /\ \A g \in Handler : g # h => pc'[g] = pc[g]
  BY <1>1 DEF IInv, Shape
<1>4. pc'[h] \in {"list", "check"}
  BY <1>1 DEF IInv, Shape
<1>5. next[h] \in DOMAIN commits /\ fetched[h] = commits
  <2>1. fetched[h] = commits /\ commits \in Seq(Commit) /\ next[h] >= 1
    BY <1>2 DEF Undisturbed, Accuses, IInv, Shape, Index
  <2> QED BY <1>2, <2>1
<1>6. Accuses(h)'
  <2>1. CASE ok
    <3>1. unsigned'[h] = unsigned[h]
      BY <1>3, <2>1 DEF IInv, Shape
    <3>2. \A k \in DOMAIN commits : k < next[h] => k < next'[h]
      BY <1>2, <1>3 DEF IInv, Shape
    <3> QED BY <1>1, <1>3, <3>1, <3>2 DEF Undisturbed, Accuses, Signed
  <2>2. CASE ~ok
    <3>1. next[h] < next'[h] /\ ~Signed(commits[next[h]])
      BY <1>2, <1>3, <1>5, <2>2
    <3> QED BY <1>1, <1>3, <1>5, <3>1 DEF Undisturbed, Accuses, Signed
  <2> QED BY <2>1, <2>2
<1>7. Leaves(h)'
  BY <1>1, <1>4 DEF Undisturbed, Leaves
<1> QED BY <1>3, <1>4, <1>6, <1>7 DEF Undisturbed, Active, After

LEMMA CheckCommitUndisturbed ==
  ASSUME NEW h \in Handler, IInv, Typed, Undisturbed(h), CheckCommit(h), h \in quiet, h \in quiet'
  PROVE  Undisturbed(h)'
<1> DEFINE e == AuthorOf(fetched[h][next[h]])
<1>1. pc[h] = "check" /\ Index
  BY DEF CheckCommit, Typed
<1>2. known[h] \in [yes : SUBSET Email, no : SUBSET Email] /\ known[h].no \cap signed = {}
  BY <1>1 DEF IInv, Shape, Undisturbed, Accuses
<1>3. Signed(fetched[h][next[h]]) <=> e \in signed
  BY SignedIsAuthor
<1> HIDE DEF e
<1>4. CASE NoEmail(h, e)
  <2>1. e \notin signed
    BY <1>4 DEF NoEmail, Typed, Payloads
  <2> QED BY <1>1, <1>2, <1>3, <1>4, <2>1, CheckedUndisturbed DEF NoEmail
<1>5. CASE AskedBefore(h, e)
  <2>1. CASE e \in known[h].yes
    <3>1. Checked(h, TRUE, known[h])
      BY <1>5, <2>1 DEF AskedBefore, Checked
    <3> QED BY <1>1, <1>2, <3>1, CheckedUndisturbed
  <2>2. CASE e \notin known[h].yes
    <3>1. Checked(h, FALSE, known[h]) /\ e \in known[h].no
      BY <1>5, <2>2 DEF AskedBefore, Checked
    <3> QED BY <1>1, <1>2, <1>3, <3>1, CheckedUndisturbed
  <2> QED BY <2>1, <2>2
<1>6. CASE IsSigned(h, e)
  <2>0. e \in Email
    BY <1>6, ClaAssumption DEF IsSigned
  <2>1. CASE e \in signed
    <3>1. PICK asked : asked = [known[h] EXCEPT !.yes = known[h].yes \cup {e}]
      OBVIOUS
    <3>2. Checked(h, TRUE, asked)
      BY <1>6, <2>1, <3>1 DEF IsSigned, Checked
    <3>3. asked \in [yes : SUBSET Email, no : SUBSET Email] /\ asked.no \cap signed = {}
      BY <1>2, <2>0, <3>1
    <3> QED BY <1>1, <3>2, <3>3, CheckedUndisturbed
  <2>2. CASE e \notin signed
    <3>1. PICK asked : asked = [known[h] EXCEPT !.no = known[h].no \cup {e}]
      OBVIOUS
    <3>2. Checked(h, FALSE, asked)
      BY <1>6, <2>2, <3>1 DEF IsSigned, Checked
    <3>3. asked \in [yes : SUBSET Email, no : SUBSET Email] /\ asked.no \cap signed = {}
      BY <1>2, <2>0, <2>2, <3>1
    <3> QED BY <1>1, <1>3, <2>2, <3>2, <3>3, CheckedUndisturbed
  <2> QED BY <2>1, <2>2
<1>7. CASE IsSignedFails(h, e)
  BY <1>7 DEF IsSignedFails, Fails
<1> QED BY <1>4, <1>5, <1>6, <1>7 DEF CheckCommit, e

\* The calls after the check.
LEMMA CallUndisturbed ==
  ASSUME NEW h \in Handler, IInv, Typed, Undisturbed(h), h \in quiet, h \in quiet',
         ListGuides(h) \/ DeleteGuide(h) \/ RemoveLabel(h) \/ AddLabel(h) \/ PostGuide(h) \/ PostThanks(h)
  PROVE  Undisturbed(h)'
<1> USE DEF server, checking, Goto
<1>0. /\ UNCHANGED <<commits, signed, seen, fetched, next, known, unsigned>>
      /\ pc[h] \in After /\ next[h] = Len(fetched[h]) + 1
      /\ Accuses(h) /\ Leaves(h)
  BY DEF ListGuides, DeleteGuide, RemoveLabel, AddLabel, PostGuide, PostThanks, IInv, Progress, After,
         Undisturbed
<1>1. Accuses(h)'
  BY <1>0 DEF Accuses, Signed
<1>2. Wrong(h)' = Wrong(h) /\ Right(h)' = Right(h)
  BY <1>0 DEF Wrong, Right
<1>3. ASSUME NEW w \in After \cup {"done"}, pc' = [pc EXCEPT ![h] = w],
             (pc[h] = w)' => Leaves(h)'
      PROVE  Undisturbed(h)'
  <2>1. pc'[h] = w /\ \A g \in Handler : g # h => pc'[g] = pc[g]
    BY <1>3 DEF IInv, Shape
  <2>2. \A g \in Handler : g # h => ~Active(g)'
    BY <2>1 DEF Undisturbed, Active
  <2> QED BY <1>0, <1>1, <1>3, <2>1, <2>2 DEF Undisturbed, After
<1>4. CASE ListGuides(h)
  <2>1. found' = [found EXCEPT ![h] = guides] /\ UNCHANGED <<labels, guides>> /\ pc[h] = "list"
        /\ pc' = [pc EXCEPT ![h] = IF guides = {} THEN "remove" ELSE "delete"]
    BY <1>4 DEF ListGuides, Fails
  <2>2. found'[h] = guides
    BY <2>1 DEF Typed, Calls
  <2>3. CASE guides = {}
    BY <1>0, <1>3, <2>1, <2>3 DEF Leaves, After
  <2>4. CASE guides # {}
    BY <1>0, <1>3, <2>1, <2>2, <2>4 DEF Leaves, After
  <2> QED BY <2>3, <2>4
<1>5. CASE DeleteGuide(h)
  <2>1. PICK g \in found[h] :
          /\ found' = [found EXCEPT ![h] = found[h] \ {g}] /\ guides' = guides \ {g}
          /\ pc' = [pc EXCEPT ![h] = IF found[h] = {g} THEN "remove" ELSE "delete"]
          /\ UNCHANGED labels /\ pc[h] = "delete"
    BY <1>5 DEF DeleteGuide, Fails
  <2>2. found'[h] = guides' /\ (found[h] = {g} => guides' = {})
    BY <1>0, <2>1 DEF Typed, Calls, Leaves
  <2>3. CASE found[h] = {g}
    BY <1>0, <1>3, <2>1, <2>2, <2>3 DEF Leaves, After
  <2>4. CASE found[h] # {g}
    BY <1>0, <1>3, <2>1, <2>2, <2>4 DEF Leaves, After
  <2> QED BY <2>3, <2>4
<1>6. CASE RemoveLabel(h)
  <2>1. /\ pc' = [pc EXCEPT ![h] = "add"] /\ UNCHANGED <<guides, found>> /\ pc[h] = "remove"
        /\ \/ Wrong(h) \notin seen[h] /\ labels' = labels
           \/ labels' = labels \ {Wrong(h)}
    BY <1>6 DEF RemoveLabel, Fails
  <2>2. labels' = seen[h] \ {Wrong(h)} /\ guides' = {}
    BY <1>0, <2>1 DEF Leaves
  <2> QED BY <1>0, <1>2, <1>3, <2>1, <2>2 DEF Leaves, After
<1>7. CASE AddLabel(h)
  <2>1. /\ UNCHANGED <<guides, found>> /\ pc[h] = "add"
        /\ labels' = labels \/ labels' = labels \cup {Right(h)}
        /\ labels' = labels => Right(h) \in labels \cup seen[h]
    BY <1>7 DEF AddLabel, Fails
  <2>2. PICK w \in {"guide", "thank", "done"} :
          /\ pc' = [pc EXCEPT ![h] = w]
          /\ w = "guide" <=> unsigned[h]
    BY <1>7 DEF AddLabel
  <2>3. labels = seen[h] \ {Wrong(h)} /\ guides = {} /\ seen[h] \subseteq {"yes", "no"}
    BY <1>0, <2>1 DEF Leaves, Typed, Payloads
  <2>4. labels' = {Right(h)}
    BY <2>1, <2>3 DEF Right, Wrong
  <2>5. pc'[h] = w
    BY <2>2 DEF IInv, Shape
  <2>6. Leaves(h)'
    BY <1>0, <1>2, <2>1, <2>2, <2>3, <2>4, <2>5 DEF Leaves
  <2> QED BY <1>3, <2>2, <2>6 DEF After
<1>8. CASE PostGuide(h)
  <2>1. /\ pc' = [pc EXCEPT ![h] = "done"] /\ UNCHANGED <<labels, found>> /\ pc[h] = "guide"
        /\ guides' = guides \cup {h}
    BY <1>8 DEF PostGuide, Fails
  <2>2. guides' = {h} /\ unsigned[h] /\ labels = {Right(h)}
    BY <1>0, <2>1 DEF Leaves
  <2> QED BY <1>0, <1>2, <1>3, <2>1, <2>2 DEF Leaves, After
<1>9. CASE PostThanks(h)
  <2>1. /\ pc' = [pc EXCEPT ![h] = "done"] /\ UNCHANGED <<labels, guides, found>> /\ pc[h] = "thank"
    BY <1>9 DEF PostThanks
  <2>2. ~unsigned[h] /\ guides = {} /\ labels = {Right(h)}
    BY <1>0, <2>1 DEF Leaves, IInv, Progress
  <2> QED BY <1>0, <1>2, <1>3, <2>1, <2>2 DEF Leaves, After
<1> QED BY <1>4, <1>5, <1>6, <1>7, <1>8, <1>9

LEMMA StepUndisturbed ==
  ASSUME NEW h \in Handler, IInv, Typed, Untouched, Undisturbed(h), Step(h), h \in quiet, h \in quiet'
  PROVE  Undisturbed(h)'
<1> USE DEF server, checking, Goto
<1>1. CASE Ignore(h) \/ FetchFails(h)
  BY <1>1 DEF Ignore, FetchFails, Fails
<1>2. CASE Retry(h)
  BY <1>2 DEF Retry, Undisturbed, After
<1>3. CASE Fetch(h)
  <2>1. /\ pc[h] = "fetch" /\ fetched' = [fetched EXCEPT ![h] = commits]
        /\ UNCHANGED <<commits, signed, labels, guides, seen, next, known, unsigned, found>>
        /\ pc' = [pc EXCEPT ![h] = "check"]
    BY <1>3 DEF Fetch
  <2>2. /\ pc'[h] = "check" /\ fetched'[h] = commits /\ known[h].no = {} /\ ~unsigned[h]
        /\ \A g \in Handler : g # h => pc'[g] = pc[g]
    BY <2>1 DEF IInv, Shape, Untouched
  <2> QED BY <2>1, <2>2 DEF Undisturbed, Accuses, Leaves, Active, After
<1>4. CASE CheckCommit(h)
  BY <1>4, CheckCommitUndisturbed
<1>5. CASE ListGuides(h) \/ DeleteGuide(h) \/ RemoveLabel(h) \/ AddLabel(h) \/ PostGuide(h) \/ PostThanks(h)
  BY <1>5, CallUndisturbed
<1> QED BY <1>1, <1>2, <1>3, <1>4, <1>5 DEF Step

\* An event that is sent while no handler is at work finds everything as its payload says.
LEMMA SendQuiet ==
  ASSUME IInv, Typed, QuietInv, NEW h \in Handler, NEW e, Send(h, e), labels' = labels
  PROVE  QuietInv'
<1> USE DEF checking
<1>1. /\ pc' = [pc EXCEPT ![h] = "fetch"] /\ pc[h] = "none"
      /\ UNCHANGED <<known, unsigned, next, fetched>>
      /\ seen' = [seen EXCEPT ![h] = labels]
  BY DEF Send
<1>2. Untouched'
  BY <1>1 DEF QuietInv, Untouched, IInv, Shape
<1>3. ASSUME NEW g \in quiet' PROVE Undisturbed(g)'
  <2>1. g = h /\ \A x \in Handler : ~Active(x)
    BY <1>3 DEF Send
  <2>2. pc'[h] = "fetch" /\ \A x \in Handler : x # h => pc'[x] = pc[x]
    BY <1>1 DEF IInv, Shape
  <2>3. seen'[h] = labels
    BY <1>1 DEF Typed, Payloads
  <2> QED BY <1>1, <2>1, <2>2, <2>3 DEF Undisturbed, Leaves, Active
<1> QED BY <1>2, <1>3 DEF QuietInv

LEMMA NextQuiet == IInv /\ Typed /\ QuietInv /\ [Next]_vars => QuietInv'
<1> SUFFICES ASSUME IInv, Typed, QuietInv, [Next]_vars PROVE QuietInv'
  OBVIOUS
<1> USE DEF server, checking
<1>1. ASSUME NEW h \in Handler, Step(h) PROVE QuietInv'
  <2>1. Untouched'
    BY <1>1, StepUntouched DEF QuietInv
  <2>2. ASSUME NEW g \in quiet' PROVE Undisturbed(g)'
    <3>1. g \in quiet /\ g \in Handler /\ Undisturbed(g)
      BY <1>1, <2>2, StepQuiet DEF QuietInv, Typed, Calls
    <3>2. g = h
      BY <1>1, <3>1, StepQuiet DEF Undisturbed
    <3> QED BY <1>1, <2>2, <3>1, <3>2, StepUndisturbed DEF QuietInv
  <2> QED BY <2>1, <2>2 DEF QuietInv
<1>2. ASSUME NEW h \in Handler, NEW e, Notify(h, e) PROVE QuietInv'
  BY <1>2, SendQuiet DEF Notify
<1>3. ASSUME NEW h \in Handler, NEW cs \in Histories, Push(h, cs) PROVE QuietInv'
  BY <1>3, SendQuiet DEF Push
<1>4. ASSUME NEW e \in ValidEmail, Sign(e) PROVE QuietInv'
  BY <1>4 DEF Sign, QuietInv, Untouched
<1>5. CASE UNCHANGED vars
  BY <1>5 DEF vars, QuietInv, Untouched, Undisturbed, Accuses, Leaves, Active, Signed, Wrong, Right
<1> QED BY <1>1, <1>2, <1>3, <1>4, <1>5 DEF Next

\* For any number of commits: a handler that nothing disturbs leaves one cla label, the
\* one its commits deserve, and a sign guide exactly if there is something to sign.
THEOREM UndisturbedVerdictHolds == Spec => []UndisturbedVerdict
<1>1. IInv /\ Typed /\ QuietInv => UndisturbedVerdict
  <2> SUFFICES ASSUME IInv, Typed, QuietInv, NEW h \in quiet, pc[h] = "done"
               PROVE  IF AllSigned(commits) THEN labels = {"yes"} /\ guides = {}
                      ELSE labels = {"no"} /\ Cardinality(guides) = 1
    BY DEF UndisturbedVerdict
  <2>1. /\ h \in Handler /\ fetched[h] = commits /\ next[h] = Len(commits) + 1
        /\ labels = {Right(h)} /\ guides = IF unsigned[h] THEN {h} ELSE {}
        /\ unsigned[h] => \E k \in DOMAIN commits : ~Signed(commits[k])
    BY DEF Typed, Calls, QuietInv, Undisturbed, Accuses, Leaves
  <2>2. ~unsigned[h] => AllSigned(commits)
    <3>1. \A k \in DOMAIN commits : k < next[h]
      BY <2>1 DEF IInv, Shape
    <3> QED BY <2>1, <3>1 DEF IInv, Verdict, AllSigned
  <2>3. unsigned[h] <=> ~AllSigned(commits)
    BY <2>1, <2>2 DEF AllSigned
  <2>4. Cardinality({h}) = 1
    BY FS_Singleton
  <2> QED BY <2>1, <2>3, <2>4 DEF Right
<1> QED BY <1>1, InitHolds, StepPreserves, InitTyped, NextTyped, InitQuiet, NextQuiet, PTL DEF Spec
=============================================================================
