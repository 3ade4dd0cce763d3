--------------------------- MODULE LibraryProofs ---------------------------
(***************************************************************************)
(* Two components of community-robot-lib that share nothing.               *)
(*                                                                         *)
(* The repository filter: Find answers rightly for item lists of every     *)
(* length; the loop invariant says what index is among the items the loop  *)
(* has left behind.                                                        *)
(*                                                                         *)
(* The secret agent, for every number of skips and every modification      *)
(* time: while a readable file is not the one handed out, every load since *)
(* its last change was one that passed it over, and counted that.          *)
(***************************************************************************)
EXTENDS RepoFilter, SecretAgent, TLAPS

(* The repository filter *)

Before == {k \in DOMAIN cfg : k < i}

LoopInv ==
  pc = "loop" =>
    /\ Naming \cap Before = {}
    /\ index = 0 => Covering \cap Before = {}
    /\ index # 0 => index \in Covering \cap Before /\ \A m \in Covering \cap Before : m <= index

FindInv ==
  /\ FindTypeOK
  /\ \A k \in DOMAIN cfg : Validate(cfg[k])
  /\ LoopInv
  /\ FindAnswers

LEMMA Domain == ASSUME FindTypeOK PROVE DOMAIN cfg = 1 .. Len(cfg) /\ Len(cfg) \in Nat /\ cfg \in Seq(Filter)
BY RepoFilterAssumption DEF FindTypeOK

\* What CanApply answers for item k, in terms of the specification's sets.
LEMMA Applying ==
  ASSUME FindTypeOK, \A k \in DOMAIN cfg : Validate(cfg[k]), NEW k \in DOMAIN cfg
  PROVE  /\ AppliesToRepo(cfg[k], query) /\ ~AppliesToOrg(cfg[k], query) <=> k \in Naming
         /\ k \notin Naming =>
              (AppliesToRepo(cfg[k], query) /\ AppliesToOrg(cfg[k], query) <=> k \in Covering)
         /\ ~AppliesToRepo(cfg[k], query) => k \notin Naming /\ k \notin Covering
BY DEF AppliesToRepo, AppliesToOrg, ListsRepo, ListsOrg, Naming, Covering, Validate

LEMMA FindInitHolds == FindInit => FindInv
<1> SUFFICES ASSUME FindInit PROVE FindInv
  OBVIOUS
<1>1. FindTypeOK
  BY RepoFilterAssumption DEF FindInit, FindTypeOK
<1>2. Before = {}
  BY <1>1, Domain DEF FindInit, Before
<1> QED BY <1>1, <1>2 DEF FindInit, FindInv, LoopInv, FindAnswers

\* Leaving item i behind adds it to Before and nothing else.
LEMMA Advance ==
  ASSUME FindTypeOK, i \in DOMAIN cfg, i' = i + 1, UNCHANGED <<cfg, query>>
  PROVE  Before' = Before \cup {i} /\ Naming' = Naming /\ Covering' = Covering
<1>1. \A k \in DOMAIN cfg : k < i + 1 <=> k < i \/ k = i
  BY Domain DEF FindTypeOK
<1> QED BY <1>1 DEF Before, Naming, Covering

LEMMA FindStepPreserves == FindInv /\ [FindNext]_findVars => FindInv'
<1> SUFFICES ASSUME FindInv, [FindNext]_findVars PROVE FindInv'
  OBVIOUS
<1>0. /\ DOMAIN cfg = 1 .. Len(cfg) /\ Len(cfg) \in Nat
      /\ i \in Nat /\ index \in Nat
  BY Domain DEF FindInv, FindTypeOK
<1>1. CASE TakeRepo
  <2>1. i \in DOMAIN cfg /\ i \in Naming
    BY <1>0, <1>1, Applying DEF TakeRepo, FindInv, FindTypeOK
  <2>2. \A m \in Naming : i <= m
    BY <1>0, <1>1 DEF TakeRepo, FindInv, LoopInv, Before, Naming
  <2>3. IsAnswer(i)
    BY <2>1, <2>2 DEF IsAnswer
  <2>4. FindAnswers'
    BY <1>1, <2>3 DEF TakeRepo, FindAnswers, IsAnswer, Naming, Covering
  <2> QED BY <1>0, <1>1, <2>1, <2>4 DEF TakeRepo, FindInv, FindTypeOK, LoopInv
<1>2. CASE TakeOrg
  <2>1. i \in DOMAIN cfg /\ i \in Covering /\ i \notin Naming
    BY <1>0, <1>2, Applying DEF TakeOrg, FindInv, FindTypeOK
  <2>2. Before' = Before \cup {i} /\ Naming' = Naming /\ Covering' = Covering
    BY <1>2, <2>1, Advance DEF TakeOrg, FindInv
  <2>3. \A m \in Before : m <= i
    BY <1>0 DEF Before
  <2>4. LoopInv'
    BY <1>0, <1>2, <2>1, <2>2, <2>3 DEF TakeOrg, FindInv, LoopInv
  <2> QED BY <1>0, <1>2, <2>1, <2>4 DEF TakeOrg, FindInv, FindTypeOK, FindAnswers
<1>3. CASE PassOver
  <2>1. i \in DOMAIN cfg /\ i \notin Covering /\ i \notin Naming
    BY <1>0, <1>3, Applying DEF PassOver, FindInv, FindTypeOK
  <2>2. Before' = Before \cup {i} /\ Naming' = Naming /\ Covering' = Covering
    BY <1>3, <2>1, Advance DEF PassOver, FindInv
  <2>3. LoopInv'
    BY <1>3, <2>1, <2>2 DEF PassOver, FindInv, LoopInv
  <2> QED BY <1>0, <1>3, <2>1, <2>3 DEF PassOver, FindInv, FindTypeOK, FindAnswers
<1>4. CASE FindReturn
  <2>1. Before = DOMAIN cfg
    BY <1>0, <1>4 DEF FindReturn, Before
  <2>2. Naming = {} /\ (index = 0 => Covering = {})
        /\ (index # 0 => index \in Covering /\ \A m \in Covering : index >= m)
    BY <1>0, <1>4, <2>1 DEF FindReturn, FindInv, LoopInv, Naming, Covering
  <2>3. IsAnswer(index)
    BY <2>2 DEF IsAnswer
  <2>4. FindAnswers'
    BY <1>4, <2>3 DEF FindReturn, FindAnswers, IsAnswer, Naming, Covering
  <2> QED BY <1>4, <2>4 DEF FindReturn, FindInv, FindTypeOK, LoopInv
<1>5. CASE Finished \/ UNCHANGED findVars
  BY <1>5 DEF Finished, findVars, FindInv, FindTypeOK, LoopInv, FindAnswers, IsAnswer, Before, Naming, Covering
<1> QED BY <1>1, <1>2, <1>3, <1>4, <1>5 DEF FindNext

\* The loop's index and answer stay within the list.
THEOREM FindTypeCorrect == FindSpec => []FindTypeOK
<1>1. FindInv => FindTypeOK
  BY DEF FindInv
<1> QED BY <1>1, FindInitHolds, FindStepPreserves, PTL DEF FindSpec

\* For item lists of every length Find returns the item the specification of the
\* answer asks for.
THEOREM FindAnswersHolds == FindSpec => []FindAnswers
<1>1. FindInv => FindAnswers
  BY DEF FindInv
<1> QED BY <1>1, FindInitHolds, FindStepPreserves, PTL DEF FindSpec

\* No item that excludes a repository is ever applied to it.
THEOREM ExclusionHoldsAlways == FindSpec => []ExclusionHolds
<1>1. FindInv => ExclusionHolds
  <2> SUFFICES ASSUME FindInv, pc = "done", index # 0 PROVE query.full \notin cfg[index].excluded
    BY DEF ExclusionHolds
  <2>1. index \in Naming \/ index \in Covering
    BY DEF FindInv, FindAnswers, IsAnswer
  <2> QED BY <2>1 DEF FindInv, Naming, Covering, Validate
<1> QED BY <1>1, FindInitHolds, FindStepPreserves, PTL DEF FindSpec

-----------------------------------------------------------------------------
(* The secret agent *)

\* While a readable file is not the one handed out, every load since its last change was
\* one that passed it over, and counted that.
Overdue == access = "ok" /\ served # value => quiet <= skips

\* Once Stop has returned, the goroutine is gone.
GoneAfterStop == stop = "returned" => loader = "stopped"

SecretInv == TypeOK /\ Overdue /\ GoneAfterStop

LEMMA SecretInit == Init => SecretInv
<1> SUFFICES ASSUME Init PROVE SecretInv
  OBVIOUS
<1>1. TypeOK
  <2>1. fresh \in BOOLEAN
    BY DEF Init
  <2> QED BY <2>1, SecretAssumption DEF Init, TypeOK
<1> QED BY <1>1 DEF Init, SecretInv, Overdue, GoneAfterStop

LEMMA SecretStep ==
  ASSUME SecretInv, [Next]_vars PROVE SecretInv'
<1> USE SecretAssumption DEF SecretInv, TypeOK, Overdue, GoneAfterStop
<1>1. CASE Replace
  <2>1. fresh' \in BOOLEAN
    BY <1>1 DEF Replace
  <2> QED BY <1>1, <2>1 DEF Replace
<1>2. CASE Look
  BY <1>2 DEF Look, Return, LooksFirst, Skipped, file
<1>3. CASE Read
  BY <1>3 DEF Read, Return, AfterFailedRead, file
<1>4. CASE SeeStop
  BY <1>4 DEF SeeStop, file
<1>5. CASE StopCall
  BY <1>5 DEF StopCall, file
<1>6. CASE StopReturn
  BY <1>6 DEF StopReturn, file
<1>7. CASE UNCHANGED vars
  BY <1>7 DEF vars, file
<1> QED BY <1>1, <1>2, <1>3, <1>4, <1>5, <1>6, <1>7 DEF Next

LEMMA SecretInvariant == Spec => []SecretInv
BY SecretInit, SecretStep, PTL DEF Spec

\* The skips and the loads counted stay within their limits, for every number of skips.
THEOREM SecretTypeCorrect == Spec => []TypeOK
<1>1. SecretInv => TypeOK
  BY DEF SecretInv
<1> QED BY <1>1, SecretInvariant, PTL

\* A file left alone for MaxSkips loads and one more is the one handed out, whatever its
\* modification time and whatever failed before.
THEOREM StalenessBoundedHolds == Spec => []StalenessBounded
<1>1. ASSUME SecretInv PROVE StalenessBounded
  BY <1>1, SecretAssumption DEF SecretInv, TypeOK, Overdue, StalenessBounded
<1> QED BY <1>1, SecretInvariant, PTL

\* Nothing handed out changes once Stop has returned.
THEOREM SecretFrozenAfterStop == Spec => [][stop = "returned" => UNCHANGED served]_vars
<1>1. ASSUME SecretInv, [Next]_vars
      PROVE  [stop = "returned" => UNCHANGED served]_vars
  BY <1>1 DEF SecretInv, GoneAfterStop, Next, vars, file, Replace,
       Look, Read, SeeStop, StopCall, StopReturn
<1> QED BY <1>1, SecretInvariant, PTL DEF Spec
=============================================================================
