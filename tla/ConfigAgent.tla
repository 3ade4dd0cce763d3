---------------------------- MODULE ConfigAgent ----------------------------
(***************************************************************************)
(* config.ConfigAgent with the utils.Timer that polls it.  The agent keeps *)
(* one parsed configuration and the md5 sum of the text it came from; the  *)
(* timer goroutine re-reads the file every minute and replaces both under  *)
(* the agent's lock when the text is new and valid; Stop closes the stop   *)
(* channel and waits for the goroutine to close the stopped channel.       *)
(*                                                                         *)
(* The text of the file is a member of Contents.  What the code does with  *)
(* it is kept: reading may fail (Unreadable), unmarshalling or Validate    *)
(* may refuse it (outside Valid), Digest stands for the md5 sum and Parsed *)
(* for the object unmarshalled from it, both injective.                    *)
(***************************************************************************)

CONSTANTS Contents,    \* every text the file may hold
          Unreadable,  \* the texts (a missing or locked file) ReadFile fails on
          Valid        \* the texts that unmarshal and pass Validate

ASSUME ContentsAssumption ==
  /\ Unreadable \subseteq Contents
  /\ Valid \subseteq Contents
  /\ Unreadable \cap Valid = {}

VARIABLES confFile,  \* what the file holds now
          conf,      \* ca.c: the published configuration, <<>> when nil
          md5Sum,    \* ca.md5Sum: the digest published with it, <<>> when ""
          agent,     \* where the thread that runs load stands
          buf,       \* the text that thread read
          stop       \* timer.Stop: not called, stop channel closed, returned

vars == <<confFile, conf, md5Sum, agent, buf, stop>>

Digest(c) == <<"md5", c>>
Parsed(c) == <<"config", c>>
Nil == <<>>

Init ==
  /\ confFile \in Contents
  /\ conf = Nil
  /\ md5Sum = Nil
  /\ agent = "new"
  /\ buf = confFile
  /\ stop = "no"

-----------------------------------------------------------------------------
(* The environment: an operator replaces the file. *)

EditFile(c) ==
  /\ c # confFile
  /\ confFile' = c
  /\ UNCHANGED <<conf, md5Sum, agent, buf, stop>>

-----------------------------------------------------------------------------
(* load: one step reads the file, one step finishes with what was read. *)

Rejects(c) == c \in Unreadable \/ (Digest(c) # md5Sum /\ c \notin Valid)
Skips(c) == c \notin Unreadable /\ Digest(c) = md5Sum
Publishes(c) == c \in Valid /\ Digest(c) # md5Sum

ReadFile(from, to) ==
  /\ agent = from
  /\ buf' = confFile
  /\ agent' = to
  /\ UNCHANGED <<confFile, conf, md5Sum, stop>>

\* Mutants of FinishLoad: the digest recorded before Validate ran; the error of
\* Validate dropped.
FinishLoad_DigestFirst(from, onNil, onErr) ==
  /\ agent = from
  /\ \/ /\ Rejects(buf)
        /\ agent' = onErr
        /\ md5Sum' = IF buf \in Unreadable THEN md5Sum ELSE Digest(buf)
        /\ UNCHANGED conf
     \/ /\ Skips(buf)
        /\ agent' = onNil
        /\ UNCHANGED <<conf, md5Sum>>
     \/ /\ Publishes(buf)
        /\ agent' = onNil
        /\ conf' = Parsed(buf)
        /\ md5Sum' = Digest(buf)
  /\ UNCHANGED <<confFile, buf, stop>>

FinishLoad_Unvalidated(from, onNil, onErr) ==
  /\ agent = from
  /\ \/ /\ buf \in Unreadable
        /\ agent' = onErr
        /\ UNCHANGED <<conf, md5Sum>>
     \/ /\ buf \notin Unreadable
        /\ agent' = onNil
        /\ conf' = Parsed(buf)
        /\ md5Sum' = Digest(buf)
  /\ UNCHANGED <<confFile, buf, stop>>

\* load returns an error (next state onErr) or nil (next state onNil).
FinishLoad(from, onNil, onErr) ==
  /\ agent = from
  /\ \/ /\ Rejects(buf)
        /\ agent' = onErr
        /\ UNCHANGED <<conf, md5Sum>>
     \/ /\ Skips(buf)
        /\ agent' = onNil
        /\ UNCHANGED <<conf, md5Sum>>
     \/ /\ Publishes(buf)
        /\ agent' = onNil
        /\ conf' = Parsed(buf)
        /\ md5Sum' = Digest(buf)
  /\ UNCHANGED <<confFile, buf, stop>>

\* Start: the first load must succeed, then the timer goroutine runs.
Start == ReadFile("new", "starting")
StartReturn == FinishLoad("starting", "select", "failed")

\* The timer goroutine: a tick runs load, whose error is only logged.  With the
\* stop channel closed and a tick pending the select may take either.
Tick == ReadFile("select", "loading")
\* (Mutant: the goroutine returns when load fails.)
TickReturn_ExitsOnError == FinishLoad("loading", "select", "failed")
TickReturn == FinishLoad("loading", "select", "select")

SeeStop ==
  /\ agent = "select"
  /\ stop # "no"
  /\ agent' = "stopped"
  /\ UNCHANGED <<confFile, conf, md5Sum, buf, stop>>

-----------------------------------------------------------------------------
(* Stop, called once and only on an agent that was started. *)

StopCall ==
  /\ agent \in {"select", "loading", "stopped"}
  /\ stop = "no"
  /\ stop' = "closed"
  /\ UNCHANGED <<confFile, conf, md5Sum, agent, buf>>

\* Mutant: Stop closes the channel and does not wait.
StopReturn_NoWait ==
  /\ stop = "closed"
  /\ stop' = "returned"
  /\ UNCHANGED <<confFile, conf, md5Sum, agent, buf>>

StopReturn ==
  /\ stop = "closed"
  /\ agent = "stopped"
  /\ stop' = "returned"
  /\ UNCHANGED <<confFile, conf, md5Sum, agent, buf>>

-----------------------------------------------------------------------------
Loader == Start \/ StartReturn \/ Tick \/ TickReturn \/ SeeStop

Next ==
  \/ \E c \in Contents : EditFile(c)
  \/ Loader
  \/ StopCall
  \/ StopReturn

(* The Go scheduler runs a runnable goroutine, the ticker keeps firing, and  *)
(* a select chooses among its ready cases at random, so a closed stop        *)
(* channel is not passed over for ever (strong fairness of SeeStop).         *)
Fairness ==
  /\ WF_vars(Start) /\ WF_vars(StartReturn)
  /\ WF_vars(Tick) /\ WF_vars(TickReturn)
  /\ SF_vars(SeeStop)
  /\ WF_vars(StopReturn)

Spec == Init /\ [][Next]_vars
FairSpec == Spec /\ Fairness

-----------------------------------------------------------------------------
(* Properties *)

\* Type invariant of ConfigAgent and timer; nothing is kept of a text load refused,
\* not even by a Start that fails.
TypeOK ==
  /\ confFile \in Contents
  /\ conf \in {Nil} \cup {Parsed(c) : c \in Valid}
  /\ md5Sum \in {Nil} \cup {Digest(c) : c \in Valid}
  /\ agent \in {"new", "starting", "failed", "select", "loading", "stopped"}
  /\ buf \in Contents
  /\ stop \in {"no", "closed", "returned"}

\* What GetConfig hands to a handler: once Start has returned nil there is a
\* configuration, it passed Validate, and the digest next to it is the digest of
\* the text it was parsed from (load skips a reload on the strength of that
\* digest, so a wrong one would pin an old configuration).
PublishedIsValid ==
  agent \in {"select", "loading", "stopped"} =>
    \E c \in Valid : conf = Parsed(c) /\ md5Sum = Digest(c)

\* After Stop has returned the configuration never changes again: handlers that
\* are still draining all see the same one.
NoPublishAfterStop ==
  [][stop = "returned" => UNCHANGED <<conf, md5Sum>>]_vars

\* A valid text that stays in the file is eventually the one served, whatever
\* invalid or unreadable versions were there before, unless the agent is stopped
\* (or Start failed: then nothing is ever served).
Converges ==
  \A c \in Valid :
    [](confFile = c) ~> (conf \in {Nil, Parsed(c)} \/ stop # "no")

\* Stop does not wait for ever, even called while a load is running.
StopTerminates == (stop = "closed") ~> (stop = "returned")
=============================================================================
