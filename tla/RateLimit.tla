----------------------------- MODULE RateLimit -----------------------------
(***************************************************************************)
(* Client.BareDo of go-atomgit: what a client knows of the server's rate   *)
(* limits, and how concurrent calls use it.  A call looks at the primary   *)
(* and at the secondary limit, each under rateMu, sends its request, and   *)
(* records what the answer says, while the other calls do the same; an     *)
(* answer may be long on its way.  A call of RateLimitService.Get bypasses  *)
(* both checks, and records the limits its answer lists once more.         *)
(*                                                                         *)
(* An instant is the number of ticks until it, 0 when it is past, so that  *)
(* the clock needs no bound.  One category of requests is modelled: the    *)
(* categories share nothing but the secondary limit.                       *)
(***************************************************************************)
EXTENDS Naturals

CONSTANTS Call,
          Patient,    \* calls made with SleepUntilPrimaryRateLimitResetWhenRateLimited
          Bypassing,  \* calls of RateLimitService.Get
          Limit,      \* requests per window of the server
          Window,     \* ticks from a window's first request to its reset
          RetryAfter, \* the secondary limit's Retry-After, in ticks; without it the
                      \* reset of the window is taken
          MaxFaults   \* abuse answers, and answers without rate headers

ASSUME RateAssumption ==
  /\ Patient \subseteq Call /\ Bypassing \subseteq Call
  /\ Limit \in Nat \ {0} /\ Window \in Nat \ {0} /\ RetryAfter \in Nat \ {0}
  /\ MaxFaults \in Nat

\* parseRate: Remaining and Reset.  An answer without the headers gives NoRate.
Rate == [remaining : 0 .. Limit, reset : 0 .. Window]
NoRate == [remaining |-> 0, reset |-> 0]
Status == {"ok", "limited", "abuse", "gateway"}

VARIABLES remaining, reset,  \* the server's window
          rate,              \* rateLimits[category]
          secondary,         \* secondaryRateLimitReset
          pc,                \* [Call -> where BareDo stands]
          patient,           \* the calls whose context still has the sleep option
          wake,              \* [Call -> when its sleep ends]
          answer,            \* [Call -> the answer on its way: status and rate]
          sends,             \* [Call -> its requests so far, counted to 3]
          told,              \* history: when the last limit the client was told of ends
          early,             \* history: the calls that looked before they were told
          misled,            \* history: the client has heard one of those, or one that
                             \* does not look, since
          faults

server == <<remaining, reset>>
client == <<rate, secondary>>
history == <<told, early, misled>>
vars == <<server, client, pc, patient, wake, answer, sends, history, faults>>

Phase == {"idle", "primary", "secondary", "send", "sent", "answered", "read", "pause", "sleep",
          "resources", "done"}
Later(a, b) == IF a > b THEN a ELSE b
Move(c, from, to) == pc[c] = from /\ pc' = [pc EXCEPT ![c] = to]

Init ==
  /\ remaining = Limit /\ reset = 0
  /\ rate = NoRate
  /\ secondary = 0
  /\ pc = [c \in Call |-> "idle"]
  /\ patient = Patient
  /\ wake = [c \in Call |-> 0]
  /\ answer = [c \in Call |-> [status |-> "ok", rate |-> NoRate]]
  /\ sends = [c \in Call |-> 0]
  /\ told = 0
  /\ early = {}
  /\ misled = FALSE
  /\ faults = 0

Start(c) == IF c \in Bypassing THEN "send" ELSE "primary"

Begin(c) ==
  /\ Move(c, "idle", Start(c))
  /\ UNCHANGED <<server, client, patient, wake, answer, sends, history, faults>>

\* sleepUntilResetWithBuffer sleeps a second longer.
\* (Mutant: the buffer is added twice.)
SleepFor_Twice(ends) == ends + 2
SleepFor(ends) == ends + 1

\* checkRateLimitBeforeDo: a call with the option sleeps and then goes on unchecked, one
\* without is told RateLimitError.
Exceeded == rate.remaining = 0 /\ rate.reset > 0
CheckPrimary(c) ==
  /\ \/ ~Exceeded /\ Move(c, "primary", "secondary") /\ UNCHANGED wake
     \/ Exceeded /\ c \in patient /\ Move(c, "primary", "pause")
        /\ wake' = [wake EXCEPT ![c] = SleepFor(rate.reset)]
     \/ Exceeded /\ c \notin patient /\ Move(c, "primary", "done") /\ UNCHANGED wake
  /\ UNCHANGED <<server, client, patient, answer, sends, history, faults>>

\* checkSecondaryRateLimitBeforeDo.
CheckSecondary(c) ==
  /\ \/ secondary = 0 /\ Move(c, "secondary", "send")
     \/ secondary > 0 /\ Move(c, "secondary", "done")
  /\ UNCHANGED <<server, client, patient, wake, answer, sends, history, faults>>

Send(c) ==
  /\ Move(c, "send", "sent")
  /\ sends' = [sends EXCEPT ![c] = IF @ < 3 THEN @ + 1 ELSE @]
  /\ UNCHANGED <<server, client, patient, wake, answer, history, faults>>

-----------------------------------------------------------------------------
(* The server and the network *)

Reply(c, status, r) ==
  /\ Move(c, "sent", "answered")
  /\ answer' = [answer EXCEPT ![c] = [status |-> status, rate |-> r]]

\* What RateLimitService.Get asks for is not subject to the limit.
Serve(c) ==
  LET left == IF reset = 0 THEN Limit ELSE remaining
      ends == IF reset = 0 THEN Window ELSE reset
  IN /\ \/ /\ c \in Bypassing
           /\ Reply(c, "ok", [remaining |-> left, reset |-> reset])
           /\ UNCHANGED server
        \/ /\ c \notin Bypassing /\ left > 0
           /\ remaining' = left - 1 /\ reset' = ends
           /\ Reply(c, "ok", [remaining |-> left - 1, reset |-> ends])
        \/ /\ c \notin Bypassing /\ left = 0
           /\ remaining' = 0 /\ reset' = ends
           /\ Reply(c, "limited", [remaining |-> 0, reset |-> ends])
     /\ UNCHANGED <<client, patient, wake, sends, history, faults>>

\* The server suspects abuse; a gateway answers in its place, without rate headers.
ServeBadly(c) ==
  /\ faults < MaxFaults
  /\ faults' = faults + 1
  /\ \/ Reply(c, "abuse", [remaining |-> IF reset = 0 THEN Limit ELSE remaining, reset |-> reset])
     \/ Reply(c, "gateway", NoRate)
  /\ UNCHANGED <<server, client, patient, wake, sends, history>>

\* The request or its answer is lost: Do fails.
Lose(c) ==
  /\ pc[c] \in {"sent", "answered"}
  /\ pc' = [pc EXCEPT ![c] = "done"]
  /\ UNCHANGED <<server, client, patient, wake, answer, sends, history, faults>>

\* Other programs with the same token use the window up, or open one and use it up.
UseUp ==
  /\ reset = 0 \/ remaining > 0
  /\ remaining' = 0
  /\ reset' = IF reset = 0 THEN Window ELSE reset
  /\ UNCHANGED <<client, pc, patient, wake, answer, sends, history, faults>>

-----------------------------------------------------------------------------
(* The answer *)

\* The rate is recorded whatever the status.
\* (Mutant: only of a successful answer.)
Recorded_OfSuccess(a) == IF a.status = "ok" THEN a.rate ELSE rate
Recorded(a) == a.rate

\* The calls that have looked at the limits and act on what they saw.
Looked == {c \in Call : pc[c] \in {"pause", "secondary", "send", "sent", "answered", "read"}}
Outdated(c) == told > 0 /\ c \in early \cup Bypassing

\* The client is told of a limit until the instant n, and other calls do not know it yet.
Tell(c, n) ==
  /\ told' = Later(told, n)
  /\ early' = IF n > 0 THEN early \cup (Looked \ {c}) ELSE early

Record(c) ==
  /\ rate' = Recorded(answer[c])
  /\ Tell(c, IF answer[c].rate.remaining = 0 THEN answer[c].rate.reset ELSE 0)
  /\ misled' = (misled \/ Outdated(c))

RecordRate(c) ==
  /\ Move(c, "answered", "read")
  /\ Record(c)
  /\ UNCHANGED <<server, secondary, patient, wake, answer, sends, faults>>

\* CheckResponse: 403 with X-RateLimit-Remaining "0" is a RateLimitError, whatever it is
\* about; only other 403 answers are looked at for abuse.
IsRateLimit(a) == a.status \in {"limited", "abuse"} /\ a.rate.remaining = 0
IsAbuse(a) == a.status = "abuse" /\ ~IsRateLimit(a)

\* A primary limit makes a call with the option sleep and start over without it.
\* (Mutant: the option is kept.)
PatientAfter_Kept(c) == patient
PatientAfter(c) == patient \ {c}

Finish(c) ==
  /\ \/ /\ IsRateLimit(answer[c]) /\ c \in patient
        /\ Move(c, "read", "sleep")
        /\ wake' = [wake EXCEPT ![c] = SleepFor(answer[c].rate.reset)]
        /\ patient' = PatientAfter(c)
        /\ early' = early \ {c}
        /\ UNCHANGED <<secondary, told, misled>>
     \/ /\ IsAbuse(answer[c])
        /\ Move(c, "read", "done")
        /\ secondary' \in {RetryAfter, answer[c].rate.reset}
        /\ Tell(c, secondary')
        /\ misled' = (misled \/ Outdated(c))
        /\ UNCHANGED <<wake, patient>>
     \/ /\ ~IsAbuse(answer[c])
        /\ ~(IsRateLimit(answer[c]) /\ c \in patient)
        /\ Move(c, "read", IF c \in Bypassing /\ answer[c].status = "ok" THEN "resources" ELSE "done")
        /\ UNCHANGED <<secondary, history, wake, patient>>
  /\ UNCHANGED <<server, rate, answer, sends, faults>>

\* RateLimitService.Get: the limits the answer lists are recorded like those of its headers.
RecordResources(c) ==
  /\ Move(c, "resources", "done")
  /\ Record(c)
  /\ UNCHANGED <<server, secondary, patient, wake, answer, sends, faults>>

\* sleepUntilResetWithBuffer is over: from the check on to the next, from the answer
\* back to the start.
Wake(c) ==
  /\ wake[c] = 0
  /\ \/ Move(c, "pause", "secondary")
     \/ Move(c, "sleep", Start(c))
  /\ UNCHANGED <<server, client, patient, wake, answer, sends, history, faults>>

Earlier(n) == IF n = 0 THEN 0 ELSE n - 1
EarlierRate(r) == [r EXCEPT !.reset = Earlier(@)]
Tick ==
  /\ reset' = Earlier(reset)
  /\ rate' = EarlierRate(rate)
  /\ secondary' = Earlier(secondary)
  /\ wake' = [c \in Call |-> Earlier(wake[c])]
  /\ answer' = [c \in Call |-> [answer[c] EXCEPT !.rate = EarlierRate(@)]]
  /\ told' = Earlier(told)
  /\ early' = IF told' = 0 THEN {} ELSE early
  /\ misled' = (misled /\ told' # 0)
  /\ UNCHANGED <<remaining, pc, patient, sends, faults>>

ClientStep(c) ==
  CheckPrimary(c) \/ CheckSecondary(c) \/ Send(c) \/ RecordRate(c) \/ Finish(c)
    \/ RecordResources(c) \/ Wake(c)

Next ==
  \/ \E c \in Call : Begin(c) \/ ClientStep(c) \/ Serve(c) \/ ServeBadly(c) \/ Lose(c)
  \/ UseUp
  \/ Tick

Spec == Init /\ [][Next]_vars

-----------------------------------------------------------------------------
(* Properties *)

\* Type invariant.
TypeOK ==
  /\ remaining \in 0 .. Limit /\ reset \in 0 .. Window
  /\ rate \in Rate
  /\ secondary \in 0 .. Later(Window, RetryAfter)
  /\ pc \in [Call -> Phase]
  /\ patient \in SUBSET Patient
  /\ wake \in [Call -> 0 .. Window + 1]
  /\ answer \in [Call -> [status : Status, rate : Rate]]
  /\ sends \in [Call -> 0 .. 3]
  /\ told \in 0 .. Later(Window, RetryAfter)
  /\ early \in SUBSET Call
  /\ misled \in BOOLEAN
  /\ faults \in 0 .. MaxFaults

\* From the answer that tells the client of a limit to the end of that limit, no call is
\* about to send: a success that used the window up tells it as much as a refusal, and so
\* does a secondary limit.  Exempt are only the calls of RateLimitService.Get and those
\* that had looked before the client was told; and from the moment the answer of one of
\* these is recorded over what the client knew, the others too, until the limit's end.
SparesTheServer ==
  \A c \in Call : pc[c] = "send" /\ told > 0 => misled \/ c \in early \cup Bypassing

\* A call is retried at most once, and only with the option to sleep.
RetriedOnce == \A c \in Call : sends[c] <= IF c \in Patient THEN 2 ELSE 1
=============================================================================
