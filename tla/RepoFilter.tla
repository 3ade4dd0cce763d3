----------------------------- MODULE RepoFilter -----------------------------
(***************************************************************************)
(* config.RepoFilter and config.Find: which item of a robot's              *)
(* configuration applies to a repository.  Every robot but the access      *)
(* robot looks its configuration up this way for every event.  A filter    *)
(* lists organizations and repositories, and repositories to exclude; Find *)
(* is one loop over the items, of which Step is an iteration.              *)
(***************************************************************************)
EXTENDS Naturals, Sequences

CONSTANTS Name,        \* organizations ("org") and repositories ("org/repo")
          Candidates,  \* the lists of filters an operator may write
          Query        \* the repositories asked about: [org, full]

Filter == [repos : SUBSET Name, excluded : SUBSET Name]

ASSUME RepoFilterAssumption ==
  /\ Candidates \subseteq Seq(Filter)
  /\ Query \subseteq {q \in [org : Name, full : Name] : q.org # q.full}

VARIABLES cfg,    \* the filters of the items, in their order
          query,  \* what Find is asked
          i,      \* the item the loop is at
          index,  \* the last item found to apply, 0 for none (-1 in the code)
          pc      \* "loop" or "done"

findVars == <<cfg, query, i, index, pc>>

\* Validate.
\* (Mutant: nothing is refused.)
Validate_Nothing(p) == TRUE
Validate(p) == p.repos \cap p.excluded = {}

\* CanApply: whether the filter applies to the repository, and whether it does so by
\* way of its organization.
ListsRepo(p, q) == q.full \in p.repos
ListsOrg(p, q) == ~ListsRepo(p, q) /\ q.org \in p.repos

\* (Mutant: the exclusions are not looked at.)
AppliesToRepo_NoExclusion(p, q) == ListsRepo(p, q) \/ ListsOrg(p, q)
AppliesToRepo(p, q) == ListsRepo(p, q) \/ (ListsOrg(p, q) /\ q.full \notin p.excluded)
AppliesToOrg(p, q) == ListsOrg(p, q)

FindInit ==
  /\ cfg \in {c \in Candidates : \A k \in DOMAIN c : Validate(c[k])}
  /\ query \in Query
  /\ i = 1
  /\ index = 0
  /\ pc = "loop"

\* The item names the repository itself: it is the answer.
TakeRepo ==
  /\ pc = "loop"
  /\ i <= Len(cfg)
  /\ AppliesToRepo(cfg[i], query)
  /\ ~AppliesToOrg(cfg[i], query)
  /\ index' = i
  /\ pc' = "done"
  /\ UNCHANGED <<cfg, query, i>>

\* It names the organization: remembered, unless a later item is better.
TakeOrg ==
  /\ pc = "loop"
  /\ i <= Len(cfg)
  /\ AppliesToRepo(cfg[i], query)
  /\ AppliesToOrg(cfg[i], query)
  /\ index' = i
  /\ i' = i + 1
  /\ UNCHANGED <<cfg, query, pc>>

PassOver ==
  /\ pc = "loop"
  /\ i <= Len(cfg)
  /\ ~AppliesToRepo(cfg[i], query)
  /\ i' = i + 1
  /\ UNCHANGED <<cfg, query, index, pc>>

\* The loop is over.
\* (Mutant: the loop variable is returned when nothing was remembered.)
FindReturn_LoopVariable ==
  /\ pc = "loop"
  /\ i > Len(cfg)
  /\ index' = IF index = 0 THEN i ELSE index
  /\ pc' = "done"
  /\ UNCHANGED <<cfg, query, i>>

FindReturn ==
  /\ pc = "loop"
  /\ i > Len(cfg)
  /\ pc' = "done"
  /\ UNCHANGED <<cfg, query, i, index>>

Finished == pc = "done" /\ UNCHANGED findVars

FindNext == TakeRepo \/ TakeOrg \/ PassOver \/ FindReturn \/ Finished

FindSpec == FindInit /\ [][FindNext]_findVars

-----------------------------------------------------------------------------
(* Properties *)

\* Type invariant of Find's loop; index is a legal index of the items whenever Find
\* returns one.
FindTypeOK ==
  /\ cfg \in Candidates
  /\ query \in Query
  /\ i \in 1 .. Len(cfg) + 1
  /\ index \in 0 .. Len(cfg)
  /\ pc \in {"loop", "done"}

\* What Find should answer.  An item that lists the repository itself beats every
\* item that lists its organization, wherever they stand; among the former the first
\* counts, among the latter the last.
Naming == {k \in DOMAIN cfg : query.full \in cfg[k].repos}
Covering == {k \in DOMAIN cfg : query.org \in cfg[k].repos /\ query.full \notin cfg[k].excluded}
IsAnswer(k) ==
  \/ Naming # {} /\ k \in Naming /\ \A m \in Naming : k <= m
  \/ Naming = {} /\ Covering # {} /\ k \in Covering /\ \A m \in Covering : k >= m
  \/ Naming = {} /\ Covering = {} /\ k = 0
FindAnswers == pc = "done" => IsAnswer(index)

\* A repository is never given a configuration that excludes it.
ExclusionHolds == pc = "done" /\ index # 0 => query.full \notin cfg[index].excluded
=============================================================================
