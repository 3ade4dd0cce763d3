---------------------------- MODULE SecretAgent ----------------------------
(***************************************************************************)
(* secret.Agent, for one of its files: a timer goroutine looks at the file *)
(* every second and reads it again when its modification time has moved    *)
(* on, or when it has been passed over MaxSkips times (600 in the code).   *)
(* Every file has a goroutine of its own; they share nothing but the map   *)
(* of the values, one entry each, under the agent's lock.                  *)
(*                                                                         *)
(* The file is replaced at any moment, between the look and the read too,  *)
(* by a file of any modification time: a restored copy or a swapped link   *)
(* may be older than what it replaces.                                     *)
(***************************************************************************)
EXTENDS Naturals

CONSTANTS Value,     \* what the file may hold, white space trimmed
          MaxTime,   \* modification times are 1 .. MaxTime; 0 is Go's zero time
          MaxSkips

ASSUME SecretAssumption == MaxTime \in Nat /\ MaxSkips \in Nat

VARIABLES value,        \* what the file holds,
          mtime,        \* its modification time,
          access,       \* and whether it is there ("gone") and readable ("locked")
          served,       \* secretsMap[path], what GetSecret answers
          lastModTime, skips,
          loader,       \* where the timer goroutine stands
          stop,         \* timer.Stop: not called, stop channel closed, returned
          fresh,        \* the load in progress began after the last change of the file
          quiet         \* how many loads were begun and ended since that change

file == <<value, mtime, access>>
vars == <<file, served, lastModTime, skips, loader, stop, fresh, quiet>>

\* Start: every file is read once, then its goroutine is started.
Init ==
  /\ value \in Value
  /\ mtime \in 1 .. MaxTime
  /\ access = "ok"
  /\ served = value
  /\ lastModTime = 0
  /\ skips = 0
  /\ loader = "select"
  /\ stop = "no"
  /\ fresh = FALSE
  /\ quiet = 0

\* The file is replaced, removed, or its permissions change.
Replace ==
  /\ value' \in Value
  /\ mtime' \in 1 .. MaxTime
  /\ access' \in {"ok", "locked", "gone"}
  /\ file' # file
  /\ fresh' = FALSE
  /\ quiet' = 0
  /\ UNCHANGED <<served, lastModTime, skips, loader, stop>>

\* A load is over, counted if the file is what it was when the load began; the count
\* stops where it need not go on.
Return(next, unchanged) ==
  /\ loader' = next
  /\ quiet' = IF unchanged /\ quiet <= MaxSkips THEN quiet + 1 ELSE quiet

\* (Mutant: one skip more.)
LooksFirst_OffByOne == skips <= MaxSkips
LooksFirst == skips < MaxSkips

\* (Mutant: a skip is not counted.)
Skipped_Uncounted == 0
Skipped == skips + 1

\* A tick, the first half of load: os.Stat, unless skipped too often.
Look ==
  /\ loader = "select"
  /\ fresh' = TRUE
  /\ \/ /\ LooksFirst /\ access = "gone"
        /\ Return("select", TRUE)
        /\ UNCHANGED <<lastModTime, skips>>
     \/ /\ LooksFirst /\ access # "gone" /\ mtime <= lastModTime
        /\ skips' = Skipped
        /\ Return("select", TRUE)
        /\ UNCHANGED lastModTime
     \/ /\ LooksFirst /\ access # "gone" /\ mtime > lastModTime
        /\ lastModTime' = mtime
        /\ loader' = "reading"
        /\ UNCHANGED <<skips, quiet>>
     \/ /\ ~LooksFirst
        /\ loader' = "reading"
        /\ UNCHANGED <<lastModTime, skips, quiet>>
  /\ UNCHANGED <<file, served, stop>>

\* LoadSingleSecret: a failed read is only logged, the modification time stays recorded.
\* (Mutant: the goroutine ends.)
AfterFailedRead_Ends == "stopped"
AfterFailedRead == "select"

Read ==
  /\ loader = "reading"
  /\ \/ /\ access = "ok"
        /\ served' = value
        /\ skips' = 0
        /\ Return("select", fresh)
     \/ /\ access # "ok"
        /\ Return(AfterFailedRead, fresh)
        /\ UNCHANGED <<served, skips>>
  /\ UNCHANGED <<file, lastModTime, stop, fresh>>

SeeStop ==
  /\ loader = "select"
  /\ stop # "no"
  /\ loader' = "stopped"
  /\ UNCHANGED <<file, served, lastModTime, skips, stop, fresh, quiet>>

\* Agent.Stop.
StopCall ==
  /\ stop = "no"
  /\ stop' = "closed"
  /\ UNCHANGED <<file, served, lastModTime, skips, loader, fresh, quiet>>

StopReturn ==
  /\ stop = "closed"
  /\ loader = "stopped"
  /\ stop' = "returned"
  /\ UNCHANGED <<file, served, lastModTime, skips, loader, fresh, quiet>>

Next == Replace \/ Look \/ Read \/ SeeStop \/ StopCall \/ StopReturn

Spec == Init /\ [][Next]_vars
\* The ticker keeps firing and the scheduler runs what can run.
FairSpec == Spec /\ WF_vars(Look) /\ WF_vars(Read)

-----------------------------------------------------------------------------
(* Properties *)

\* Type invariant; the skips stay within their limit.
TypeOK ==
  /\ value \in Value
  /\ mtime \in 1 .. MaxTime
  /\ access \in {"ok", "locked", "gone"}
  /\ served \in Value
  /\ lastModTime \in 0 .. MaxTime
  /\ skips \in 0 .. MaxSkips
  /\ loader \in {"select", "reading", "stopped"}
  /\ stop \in {"no", "closed", "returned"}
  /\ fresh \in BOOLEAN
  /\ quiet \in 0 .. MaxSkips + 1

\* Once a readable file has been left alone for MaxSkips loads and one more, its value
\* is the one handed out, however old its modification time and whatever failed before:
\* a recorded time whose read failed costs at most those ten minutes.
StalenessBounded == access = "ok" /\ quiet > MaxSkips => served = value

\* A secret that stays in the file is handed out in the end, unless the agent stops.
FollowsTheFile ==
  \A v \in Value : [](access = "ok" /\ value = v) ~> (served = v \/ stop # "no")
=============================================================================
