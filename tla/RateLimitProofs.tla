-------------------------- MODULE RateLimitProofs --------------------------
(***************************************************************************)
(* Theorems about the client's rate limits, for any calls, limits, windows *)
(* and faults.  As long as no outdated answer has been recorded, the last  *)
(* limit the client was told of is in rateLimits or in the secondary       *)
(* limit; each check that a call passes after it was told rules one of     *)
(* them out, and nothing is left when it sends.                            *)
(***************************************************************************)
EXTENDS RateLimit, TLAPS

\* Until its end, the client knows of the last limit it was told.
LimitRemembered ==
  told = 0 \/ (rate.remaining = 0 /\ told <= rate.reset) \/ told <= secondary

\* What a call that looks at the limits knows of the last one told, where it stands.
Informed(c) ==
  /\ pc[c] = "pause" => told <= wake[c] \/ told <= secondary
  /\ pc[c] = "secondary" => told <= secondary
  /\ pc[c] \in {"send", "sent", "answered"} => told = 0
  /\ pc[c] = "read" => \/ told = 0
                       \/ answer[c].rate.remaining = 0 /\ rate.remaining = 0 /\ told <= rate.reset
Knowing ==
  ~misled => LimitRemembered /\ \A c \in Call \ (early \cup Bypassing) : Informed(c)

\* Only RateLimitService.Get reads limits from the body of an answer.
ReadsResources == \A c \in Call : pc[c] = "resources" => c \in Bypassing

\* How often a call has sent, by where it stands and whether its sleep is used up.
Spent(c) == IF c \in Patient \ patient THEN 1 ELSE 0
Counted ==
  \A c \in Call :
    /\ pc[c] \in {"idle", "primary", "pause", "secondary", "send", "sleep"} => sends[c] = Spent(c)
    /\ pc[c] \in {"sent", "answered", "read", "resources"} => sends[c] = Spent(c) + 1
    /\ pc[c] = "done" => sends[c] <= Spent(c) + 1

-----------------------------------------------------------------------------
(* Type correctness *)

LEMMA Bounds ==
  /\ Limit \in Nat /\ Window \in Nat /\ RetryAfter \in Nat /\ MaxFaults \in Nat
  /\ Limit > 0 /\ Window > 0
  /\ Later(Window, RetryAfter) \in Nat
  /\ Window <= Later(Window, RetryAfter) /\ RetryAfter <= Later(Window, RetryAfter)
BY RateAssumption DEF Later

LEMMA LaterType ==
  ASSUME NEW n \in Nat, NEW a \in 0 .. n, NEW b \in 0 .. n
  PROVE  Later(a, b) \in 0 .. n
BY DEF Later

LEMMA EarlierType ==
  ASSUME NEW n \in Nat, NEW a \in 0 .. n
  PROVE  Earlier(a) \in 0 .. n
BY DEF Earlier

LEMMA MoveType ==
  ASSUME TypeOK, NEW c \in Call, NEW from, NEW to \in Phase, Move(c, from, to)
  PROVE  pc' \in [Call -> Phase]
BY DEF TypeOK, Move

LEMMA RateType ==
  /\ NoRate \in Rate
  /\ \A n \in 0 .. Limit, m \in 0 .. Window : [remaining |-> n, reset |-> m] \in Rate
  /\ \A r \in Rate : r.remaining \in 0 .. Limit /\ r.reset \in 0 .. Window /\ EarlierRate(r) \in Rate
<1>1. \A r \in Rate : EarlierRate(r) \in Rate
  BY Bounds, EarlierType DEF Rate, EarlierRate
<1>. QED
  BY <1>1, Bounds DEF Rate, NoRate

LEMMA AnswerType ==
  ASSUME TypeOK, NEW c \in Call
  PROVE  /\ answer[c].status \in Status /\ answer[c].rate \in Rate
         /\ answer[c].rate.remaining \in 0 .. Limit /\ answer[c].rate.reset \in 0 .. Window
BY RateType DEF TypeOK

LEMMA ReplyType ==
  ASSUME TypeOK, NEW c \in Call, NEW s \in Status, NEW r \in Rate, Reply(c, s, r)
  PROVE  pc' \in [Call -> Phase] /\ answer' \in [Call -> [status : Status, rate : Rate]]
<1>1. pc' \in [Call -> Phase]
  BY MoveType DEF Reply, Phase
<1>2. [status |-> s, rate |-> r] \in [status : Status, rate : Rate]
  OBVIOUS
<1>. QED
  BY <1>1, <1>2 DEF Reply, TypeOK

LEMMA CheckType ==
  ASSUME TypeOK, NEW c \in Call, Begin(c) \/ CheckPrimary(c) \/ CheckSecondary(c) \/ Send(c) \/ Wake(c)
  PROVE  TypeOK'
<1>. USE DEF server, client, history
<1>1. CASE Begin(c)
  <2>1. pc' \in [Call -> Phase]
    BY <1>1, MoveType DEF Begin, Start, Phase
  <2>. QED
    BY <1>1, <2>1 DEF Begin, TypeOK
<1>2. CASE CheckPrimary(c)
  <2>1. pc' \in [Call -> Phase]
    BY <1>2, MoveType DEF CheckPrimary, Phase
  <2>2. SleepFor(rate.reset) \in 0 .. Window + 1
    BY RateType, Bounds DEF SleepFor, TypeOK
  <2>3. wake' \in [Call -> 0 .. Window + 1]
    BY <1>2, <2>2 DEF CheckPrimary, TypeOK
  <2>. QED
    BY <1>2, <2>1, <2>3 DEF CheckPrimary, TypeOK
<1>3. CASE CheckSecondary(c)
  <2>1. pc' \in [Call -> Phase]
    BY <1>3, MoveType DEF CheckSecondary, Phase
  <2>. QED
    BY <1>3, <2>1 DEF CheckSecondary, TypeOK
<1>4. CASE Send(c)
  <2>1. pc' \in [Call -> Phase]
    BY <1>4, MoveType DEF Send, Phase
  <2>2. sends' \in [Call -> 0 .. 3]
    BY <1>4 DEF Send, TypeOK
  <2>. QED
    BY <1>4, <2>1, <2>2 DEF Send, TypeOK
<1>5. CASE Wake(c)
  <2>1. pc' \in [Call -> Phase]
    BY <1>5, MoveType DEF Wake, Start, Phase
  <2>. QED
    BY <1>5, <2>1 DEF Wake, TypeOK
<1>. QED
  BY <1>1, <1>2, <1>3, <1>4, <1>5

LEMMA ServerType ==
  ASSUME TypeOK, NEW c \in Call, Serve(c) \/ ServeBadly(c) \/ Lose(c)
  PROVE  TypeOK'
<1>. USE DEF server, client, history
<1>1. CASE Serve(c)
  <2>. DEFINE left == IF reset = 0 THEN Limit ELSE remaining
              ends == IF reset = 0 THEN Window ELSE reset
  <2>1. left \in 0 .. Limit /\ ends \in 0 .. Window
    BY Bounds DEF TypeOK
  <2>2. /\ \/ Reply(c, "ok", [remaining |-> left, reset |-> reset]) /\ UNCHANGED <<remaining, reset>>
           \/ /\ left > 0 /\ remaining' = left - 1 /\ reset' = ends
              /\ Reply(c, "ok", [remaining |-> left - 1, reset |-> ends])
           \/ /\ left = 0 /\ remaining' = 0 /\ reset' = ends
              /\ Reply(c, "limited", [remaining |-> 0, reset |-> ends])
        /\ UNCHANGED <<rate, secondary, patient, wake, sends, told, early, misled, faults>>
    BY <1>1 DEF Serve
  <2>. HIDE DEF left, ends
  <2>3. /\ (left > 0 => left - 1 \in 0 .. Limit) /\ 0 \in 0 .. Limit
        /\ remaining \in 0 .. Limit /\ reset \in 0 .. Window
    BY <2>1, Bounds DEF TypeOK
  <2>4. "ok" \in Status /\ "limited" \in Status
    BY DEF Status
  <2>5. pc' \in [Call -> Phase] /\ answer' \in [Call -> [status : Status, rate : Rate]]
    BY <2>1, <2>2, <2>3, <2>4, ReplyType, RateType
  <2>6. remaining' \in 0 .. Limit /\ reset' \in 0 .. Window
    BY <2>1, <2>2, <2>3
  <2>. QED
    BY <2>2, <2>5, <2>6 DEF TypeOK
<1>2. CASE ServeBadly(c)
  <2>1. faults' \in 0 .. MaxFaults /\ UNCHANGED <<server, client, patient, wake, sends, history>>
    BY <1>2, Bounds DEF ServeBadly, TypeOK
  <2>2. [remaining |-> IF reset = 0 THEN Limit ELSE remaining, reset |-> reset] \in Rate
    BY Bounds, RateType DEF TypeOK
  <2>3. "abuse" \in Status /\ "gateway" \in Status
    BY DEF Status
  <2>4. pc' \in [Call -> Phase] /\ answer' \in [Call -> [status : Status, rate : Rate]]
    BY <1>2, <2>2, <2>3, ReplyType, RateType DEF ServeBadly
  <2>. QED
    BY <2>1, <2>4 DEF TypeOK
<1>3. CASE Lose(c)
  <2>1. pc' \in [Call -> Phase]
    BY <1>3 DEF Lose, TypeOK, Phase
  <2>. QED
    BY <1>3, <2>1 DEF Lose, TypeOK
<1>. QED
  BY <1>1, <1>2, <1>3

\* What recording an answer, or a secondary limit, leaves in the history.
LEMMA TellType ==
  ASSUME TypeOK, NEW c \in Call, NEW n \in 0 .. Later(Window, RetryAfter), Tell(c, n)
  PROVE  told' \in 0 .. Later(Window, RetryAfter) /\ early' \in SUBSET Call
<1>1. told' \in 0 .. Later(Window, RetryAfter)
  BY LaterType, Bounds DEF Tell, TypeOK
<1>2. Looked \subseteq Call
  BY DEF Looked
<1>. QED
  BY <1>1, <1>2 DEF Tell, TypeOK

LEMMA RecordType ==
  ASSUME TypeOK, NEW c \in Call, Record(c)
  PROVE  /\ rate' \in Rate /\ told' \in 0 .. Later(Window, RetryAfter)
         /\ early' \in SUBSET Call /\ misled' \in BOOLEAN
<1>. DEFINE n == IF answer[c].rate.remaining = 0 THEN answer[c].rate.reset ELSE 0
<1>1. n \in 0 .. Later(Window, RetryAfter) /\ answer[c].rate \in Rate
  BY AnswerType, Bounds
<1>2. Tell(c, n) /\ rate' = answer[c].rate /\ misled' = (misled \/ Outdated(c))
  BY DEF Record, Recorded
<1>. HIDE DEF n
<1>3. told' \in 0 .. Later(Window, RetryAfter) /\ early' \in SUBSET Call
  BY <1>1, <1>2, TellType
<1>4. misled' \in BOOLEAN
  BY <1>2
<1>. QED
  BY <1>1, <1>2, <1>3, <1>4

LEMMA AfterAnswerType ==
  ASSUME TypeOK, NEW c \in Call, RecordRate(c) \/ RecordResources(c) \/ Finish(c)
  PROVE  TypeOK'
<1>. USE DEF server, client, history
<1>1. answer[c].rate \in Rate /\ answer[c].rate.reset \in 0 .. Window
  BY AnswerType
<1>2. answer[c].rate.reset \in 0 .. Later(Window, RetryAfter) /\ RetryAfter \in 0 .. Later(Window, RetryAfter)
  BY <1>1, Bounds
<1>3. told \in 0 .. Later(Window, RetryAfter) /\ early \in SUBSET Call /\ misled \in BOOLEAN
  BY DEF TypeOK
<1>4. CASE RecordRate(c) \/ RecordResources(c)
  <2>1. pc' \in [Call -> Phase]
    BY <1>4, MoveType DEF RecordRate, RecordResources, Phase
  <2>2. /\ rate' \in Rate /\ told' \in 0 .. Later(Window, RetryAfter)
        /\ early' \in SUBSET Call /\ misled' \in BOOLEAN
    BY <1>4, RecordType DEF RecordRate, RecordResources
  <2>. QED
    BY <1>4, <2>1, <2>2 DEF RecordRate, RecordResources, TypeOK
<1>5. CASE Finish(c)
  <2>1. pc' \in [Call -> Phase]
    BY <1>5, MoveType DEF Finish, Phase
  <2>2. secondary' \in 0 .. Later(Window, RetryAfter)
    BY <1>2, <1>5 DEF Finish, TypeOK
  <2>3. /\ told' \in 0 .. Later(Window, RetryAfter) /\ early' \in SUBSET Call
        /\ misled' \in BOOLEAN
    BY <1>3, <1>5, <2>2, TellType DEF Finish
  <2>4. SleepFor(answer[c].rate.reset) \in 0 .. Window + 1
    BY <1>1, Bounds DEF SleepFor
  <2>5. wake' \in [Call -> 0 .. Window + 1] /\ patient' \in SUBSET Patient
    BY <1>5, <2>4 DEF Finish, PatientAfter, TypeOK
  <2>. QED
    BY <1>5, <2>1, <2>2, <2>3, <2>5 DEF Finish, TypeOK
<1>. QED
  BY <1>4, <1>5

LEMMA TickType == ASSUME TypeOK, Tick PROVE TypeOK'
<1>1. reset' \in 0 .. Window
  BY EarlierType, Bounds DEF Tick, TypeOK
<1>2. rate' \in Rate
  BY RateType DEF Tick, TypeOK
<1>3. secondary' \in 0 .. Later(Window, RetryAfter) /\ told' \in 0 .. Later(Window, RetryAfter)
  BY EarlierType, Bounds DEF Tick, TypeOK
<1>4. wake' \in [Call -> 0 .. Window + 1]
  BY EarlierType, Bounds DEF Tick, TypeOK
<1>5. \A c \in Call : [answer[c] EXCEPT !.rate = EarlierRate(@)] \in [status : Status, rate : Rate]
  BY RateType DEF TypeOK
<1>6. answer' \in [Call -> [status : Status, rate : Rate]]
  BY <1>5 DEF Tick
<1>7. early' \in SUBSET Call /\ misled' \in BOOLEAN
  BY DEF Tick, TypeOK
<1>. QED
  BY <1>1, <1>2, <1>3, <1>4, <1>6, <1>7 DEF Tick, TypeOK

LEMMA UseUpType == ASSUME TypeOK, UseUp PROVE TypeOK'
BY Bounds DEF UseUp, TypeOK, client, history

LEMMA NextType == TypeOK /\ [Next]_vars => TypeOK'
<1>1. CASE UNCHANGED vars
  BY <1>1 DEF vars, server, client, history, TypeOK
<1>. QED
  BY <1>1, CheckType, ServerType, AfterAnswerType, UseUpType, TickType DEF Next, ClientStep

LEMMA InitType == Init => TypeOK
<1>1. [status |-> "ok", rate |-> NoRate] \in [status : Status, rate : Rate]
  BY RateType DEF Status
<1>2. "idle" \in Phase /\ NoRate \in Rate
  BY RateType DEF Phase
<1>3. /\ Limit \in 0 .. Limit /\ 0 \in 0 .. Window /\ 0 \in 0 .. Window + 1 /\ 0 \in 0 .. 3
      /\ 0 \in 0 .. Later(Window, RetryAfter) /\ 0 \in 0 .. MaxFaults
  BY Bounds
<1>. SUFFICES ASSUME Init PROVE TypeOK
  OBVIOUS
<1>4. /\ pc \in [Call -> Phase] /\ wake \in [Call -> 0 .. Window + 1] /\ sends \in [Call -> 0 .. 3]
      /\ patient \in SUBSET Patient /\ early \in SUBSET Call
  BY <1>2, <1>3 DEF Init
<1>5. answer \in [Call -> [status : Status, rate : Rate]]
  BY <1>1 DEF Init
<1>6. /\ remaining \in 0 .. Limit /\ reset \in 0 .. Window /\ rate \in Rate
      /\ secondary \in 0 .. Later(Window, RetryAfter) /\ told \in 0 .. Later(Window, RetryAfter)
      /\ misled \in BOOLEAN /\ faults \in 0 .. MaxFaults
  BY <1>2, <1>3 DEF Init
<1>. QED
  BY <1>4, <1>5, <1>6 DEF TypeOK

\* The state is well typed in every reachable state; no sleep is longer than a window
\* and a tick.
THEOREM TypeCorrect == Spec => []TypeOK
BY InitType, NextType, PTL DEF Spec

-----------------------------------------------------------------------------
(* A call is retried once *)

LEMMA CountedStep == TypeOK /\ Counted /\ [Next]_vars => Counted'
<1>. SUFFICES ASSUME TypeOK, Counted, [Next]_vars PROVE Counted'
  OBVIOUS
<1>. USE DEF server, client, history
<1>1. ASSUME NEW c \in Call, NEW from, NEW to, Move(c, from, to)
      PROVE  pc[c] = from /\ pc'[c] = to /\ \A d \in Call \ {c} : pc'[d] = pc[d]
  BY <1>1 DEF Move, TypeOK
<1>2. CASE UNCHANGED <<pc, patient, sends>>
  BY <1>2 DEF Counted, Spent
<1>3. ASSUME NEW c \in Call, Begin(c) \/ CheckPrimary(c) \/ CheckSecondary(c) \/ Wake(c) PROVE Counted'
  <2>1. /\ \A d \in Call \ {c} : pc'[d] = pc[d]
        /\ pc[c] \in {"idle", "primary", "pause", "secondary", "sleep"}
        /\ pc'[c] \in {"primary", "pause", "secondary", "send", "done"}
    BY <1>3, <1>1 DEF Begin, Start, CheckPrimary, CheckSecondary, Wake
  <2>2. UNCHANGED <<patient, sends>>
    BY <1>3 DEF Begin, CheckPrimary, CheckSecondary, Wake
  <2>3. Spent(c) \in Nat
    BY DEF Spent
  <2>4. \A d \in Call : Spent(d)' = Spent(d)
    BY <2>2 DEF Spent
  <2>. QED
    BY <2>1, <2>2, <2>3, <2>4 DEF Counted
<1>4. ASSUME NEW c \in Call, Send(c) PROVE Counted'
  <2>1. /\ pc[c] = "send" /\ pc'[c] = "sent" /\ \A d \in Call \ {c} : pc'[d] = pc[d]
    BY <1>4, <1>1 DEF Send
  <2>2. patient' = patient /\ \A d \in Call : Spent(d)' = Spent(d)
    BY <1>4 DEF Send, Spent
  <2>3. sends[c] = Spent(c) /\ Spent(c) \in {0, 1}
    BY <2>1 DEF Counted, Spent
  <2>4. sends'[c] = Spent(c) + 1 /\ \A d \in Call \ {c} : sends'[d] = sends[d]
    BY <1>4, <2>3 DEF Send, TypeOK
  <2>. QED
    BY <2>1, <2>2, <2>4 DEF Counted
<1>5. ASSUME NEW c \in Call, Serve(c) \/ ServeBadly(c) \/ Lose(c) \/ RecordRate(c)
                             \/ RecordResources(c)
      PROVE  Counted'
  <2>1. /\ \A d \in Call \ {c} : pc'[d] = pc[d]
        /\ pc[c] \in {"sent", "answered", "resources"} /\ pc'[c] \in {"answered", "read", "done"}
    <3>1. CASE Lose(c)
      BY <3>1 DEF Lose, TypeOK
    <3>2. CASE Serve(c) \/ ServeBadly(c) \/ RecordRate(c) \/ RecordResources(c)
      BY <3>2, <1>1 DEF Serve, ServeBadly, RecordRate, RecordResources, Reply
    <3>. QED
      BY <1>5, <3>1, <3>2
  <2>2. UNCHANGED <<patient, sends>>
    BY <1>5 DEF Serve, ServeBadly, Lose, RecordRate, RecordResources
  <2>3. Spent(c) \in Nat /\ \A d \in Call : Spent(d)' = Spent(d)
    BY <2>2 DEF Spent
  <2>. QED
    BY <2>1, <2>2, <2>3 DEF Counted
<1>6. ASSUME NEW c \in Call, Finish(c) PROVE Counted'
  <2>1. pc[c] = "read" /\ sends' = sends /\ \A d \in Call \ {c} : pc'[d] = pc[d]
    BY <1>6, <1>1 DEF Finish
  <2>2. sends[c] = Spent(c) + 1 /\ Spent(c) \in Nat
    BY <2>1 DEF Counted, Spent
  <2>3. CASE pc'[c] \in {"resources", "done"} /\ patient' = patient
    BY <2>1, <2>2, <2>3 DEF Counted, Spent
  <2>4. CASE pc'[c] = "sleep" /\ c \in patient /\ patient' = patient \ {c}
    <3>1. Spent(c) = 0 /\ Spent(c)' = 1 /\ \A d \in Call \ {c} : Spent(d)' = Spent(d)
      BY <2>4 DEF Spent, TypeOK
    <3>. QED
      BY <2>1, <2>2, <2>4, <3>1 DEF Counted
  <2>. QED
    BY <1>6, <1>1, <2>3, <2>4 DEF Finish, PatientAfter
<1>7. CASE UseUp \/ Tick \/ UNCHANGED vars
  BY <1>2, <1>7 DEF UseUp, Tick, vars
<1>. QED
  BY <1>3, <1>4, <1>5, <1>6, <1>7 DEF Next, ClientStep

\* However often the server refuses, a call sends its request twice at most, and only
\* when it has the option to sleep.
THEOREM RetryBound == Spec => []RetriedOnce
<1>1. Init => Counted
  BY DEF Init, Counted, Spent
<1>2. TypeOK /\ Counted => RetriedOnce
  <2>. SUFFICES ASSUME TypeOK, Counted, NEW c \in Call
                PROVE  sends[c] <= IF c \in Patient THEN 2 ELSE 1
    BY DEF RetriedOnce
  <2>1. pc[c] \in Phase /\ (c \notin Patient => Spent(c) = 0) /\ Spent(c) \in {0, 1}
    BY DEF TypeOK, Spent
  <2>2. sends[c] \in Nat /\ sends[c] <= Spent(c) + 1
    BY <2>1 DEF TypeOK, Counted, Phase
  <2>. QED
    BY <2>1, <2>2
<1>. QED
  BY <1>1, <1>2, InitType, NextType, CountedStep, PTL DEF Spec

-----------------------------------------------------------------------------
(* The server is spared *)

LEMMA MoveFact ==
  ASSUME TypeOK, NEW c \in Call, NEW from, NEW to, Move(c, from, to)
  PROVE  pc[c] = from /\ pc'[c] = to /\ \A d \in Call \ {c} : pc'[d] = pc[d]
BY DEF Move, TypeOK

LEMMA Numbers ==
  ASSUME TypeOK
  PROVE  /\ told \in Nat /\ secondary \in Nat /\ rate.reset \in Nat /\ RetryAfter \in Nat
         /\ \A c \in Call : wake[c] \in Nat /\ answer[c].rate.reset \in Nat
BY Bounds, RateType, AnswerType DEF TypeOK

LEMMA ResourcesStep == TypeOK /\ ReadsResources /\ [Next]_vars => ReadsResources'
<1>. SUFFICES ASSUME TypeOK, ReadsResources, [Next]_vars PROVE ReadsResources'
  OBVIOUS
<1>1. CASE UNCHANGED pc
  BY <1>1 DEF ReadsResources
<1>2. ASSUME NEW c \in Call, NEW from, NEW to, Move(c, from, to), to # "resources" \/ c \in Bypassing
      PROVE  ReadsResources'
  BY <1>2, MoveFact DEF ReadsResources
<1>3. ASSUME NEW c \in Call, Lose(c) PROVE ReadsResources'
  BY <1>3 DEF Lose, ReadsResources, TypeOK
<1>4. ASSUME NEW c \in Call, Begin(c) \/ CheckPrimary(c) \/ CheckSecondary(c) \/ Send(c) \/ Wake(c)
      PROVE  ReadsResources'
  BY <1>2, <1>4 DEF Begin, Start, CheckPrimary, CheckSecondary, Send, Wake
<1>5. ASSUME NEW c \in Call, Serve(c) \/ ServeBadly(c) \/ RecordRate(c) \/ RecordResources(c)
      PROVE  ReadsResources'
  BY <1>2, <1>5 DEF Serve, ServeBadly, Reply, RecordRate, RecordResources
<1>6. ASSUME NEW c \in Call, Finish(c) PROVE ReadsResources'
  BY <1>2, <1>6 DEF Finish
<1>7. CASE UseUp \/ Tick \/ UNCHANGED vars
  BY <1>1, <1>7 DEF UseUp, Tick, vars
<1>. QED
  BY <1>3, <1>4, <1>5, <1>6, <1>7 DEF Next, ClientStep

\* A step that tells the client nothing and leaves what it knows need only be looked at
\* in the call that takes it.
LEMMA LocalStep ==
  ASSUME TypeOK, Knowing, NEW c \in Call,
         UNCHANGED <<rate, secondary, told, misled>>,
         \A d \in Call \ {c} : pc'[d] = pc[d] /\ wake'[d] = wake[d] /\ answer'[d] = answer[d],
         early \subseteq early' \cup {c},
         /\ LimitRemembered /\ (c \notin early \cup Bypassing => Informed(c))
         => (c \notin early' \cup Bypassing => Informed(c)')
  PROVE  Knowing'
<1>. SUFFICES ASSUME ~misled' PROVE Knowing'
  BY DEF Knowing
<1>1. ~misled /\ LimitRemembered /\ LimitRemembered'
  BY DEF Knowing, LimitRemembered
<1>2. ASSUME NEW d \in Call \ {c}, d \notin early' \cup Bypassing PROVE Informed(d)'
  <2>1. Informed(d)
    BY <1>1, <1>2 DEF Knowing
  <2>. QED
    BY <2>1 DEF Informed
<1>. QED
  BY <1>1, <1>2 DEF Knowing

\* When a call that was told of nothing else tells the client of a limit, every other
\* call that had looked is noted.
LEMMA OthersStep ==
  ASSUME TypeOK, TypeOK', NEW c \in Call, NEW d \in Call \ {c}, NEW n \in Nat, told = 0, Tell(c, n),
         pc'[d] = pc[d], d \notin early'
  PROVE  Informed(d)'
<1>1. CASE n = 0
  <2>1. told' = 0
    BY <1>1 DEF Tell, Later
  <2>2. told' <= secondary'
    BY <2>1, Bounds DEF TypeOK
  <2>. QED
    BY <2>1, <2>2 DEF Informed
<1>2. CASE n > 0
  <2>1. d \notin Looked
    BY <1>2 DEF Tell
  <2>. QED
    BY <2>1 DEF Looked, Informed
<1>. QED
  BY <1>1, <1>2

LEMMA KnowingRecord ==
  ASSUME TypeOK, TypeOK', Knowing, ReadsResources,
         NEW c \in Call, RecordRate(c) \/ RecordResources(c)
  PROVE  Knowing'
<1>. DEFINE n == IF answer[c].rate.remaining = 0 THEN answer[c].rate.reset ELSE 0
<1>. SUFFICES ASSUME ~misled' PROVE LimitRemembered' /\ \A d \in Call \ (early' \cup Bypassing) : Informed(d)'
  BY DEF Knowing
<1>1. /\ pc[c] \in {"answered", "resources"} /\ pc'[c] \in {"read", "done"}
      /\ \A d \in Call \ {c} : pc'[d] = pc[d]
      /\ Record(c) /\ answer' = answer
  BY MoveFact DEF RecordRate, RecordResources
<1>2. ~misled /\ ~Outdated(c) /\ rate' = answer[c].rate /\ Tell(c, n)
  BY <1>1 DEF Record, Recorded
<1>3. told = 0
  <2>1. CASE c \in early \cup Bypassing
    BY <1>2, <2>1, Numbers DEF Outdated
  <2>2. CASE c \notin early \cup Bypassing
    <3>1. pc[c] = "answered"
      BY <1>1, <2>2 DEF ReadsResources
    <3>. QED
      BY <1>2, <2>2, <3>1 DEF Knowing, Informed
  <2>. QED
    BY <2>1, <2>2
<1>4. n \in Nat
  BY Numbers
<1>5. told' = n
  BY <1>2, <1>3, <1>4 DEF Tell, Later
<1>6. told' = 0 \/ (rate'.remaining = 0 /\ told' <= rate'.reset)
  BY <1>2, <1>5, Numbers
<1>7. Informed(c)'
  BY <1>1, <1>2, <1>6 DEF Informed
<1>. HIDE DEF n
<1>8. ASSUME NEW d \in Call \ {c}, d \notin early' PROVE Informed(d)'
  BY <1>1, <1>2, <1>3, <1>4, <1>8, OthersStep
<1>. QED
  BY <1>6, <1>7, <1>8 DEF LimitRemembered

LEMMA KnowingFinish ==
  ASSUME TypeOK, TypeOK', Knowing, NEW c \in Call, Finish(c)
  PROVE  Knowing'
<1>1. /\ pc[c] = "read" /\ pc'[c] \in {"sleep", "resources", "done"}
      /\ \A d \in Call \ {c} : pc'[d] = pc[d]
      /\ rate' = rate /\ answer' = answer
  BY MoveFact DEF Finish
<1>2. Informed(c)' \/ IsAbuse(answer[c])
  BY <1>1 DEF Informed
<1>3. CASE ~IsAbuse(answer[c])
  <2>1. /\ UNCHANGED <<secondary, told, misled>> /\ early \subseteq early' \cup {c}
        /\ \A d \in Call \ {c} : wake'[d] = wake[d]
    BY <1>3 DEF Finish, history, TypeOK
  <2>. QED
    BY <1>1, <1>2, <1>3, <2>1, LocalStep
<1>4. CASE IsAbuse(answer[c])
  <2>. SUFFICES ASSUME ~misled' PROVE LimitRemembered' /\ \A d \in Call \ (early' \cup Bypassing) : Informed(d)'
    BY DEF Knowing
  <2>1. ~IsRateLimit(answer[c]) /\ answer[c].rate.remaining # 0
    BY <1>4 DEF IsAbuse, IsRateLimit
  <2>2. /\ pc'[c] = "done" /\ Tell(c, secondary') /\ ~misled /\ ~Outdated(c)
    BY <1>4, <2>1, MoveFact DEF Finish
  <2>3. told = 0
    <3>1. CASE c \in early \cup Bypassing
      BY <2>2, <3>1, Numbers DEF Outdated
    <3>2. CASE c \notin early \cup Bypassing
      BY <1>1, <2>1, <2>2, <3>2 DEF Knowing, Informed
    <3>. QED
      BY <3>1, <3>2
  <2>4. secondary' \in Nat
    BY Bounds DEF TypeOK
  <2>5. told' = secondary'
    BY <2>2, <2>3, <2>4 DEF Tell, Later
  <2>6. LimitRemembered'
    BY <2>4, <2>5 DEF LimitRemembered
  <2>7. Informed(c)'
    BY <2>2 DEF Informed
  <2>8. ASSUME NEW d \in Call \ {c}, d \notin early' PROVE Informed(d)'
    BY <1>1, <2>2, <2>3, <2>4, <2>8, OthersStep
  <2>. QED
    BY <2>6, <2>7, <2>8
<1>. QED
  BY <1>3, <1>4

LEMMA KnowingTick == ASSUME TypeOK, Knowing, Tick PROVE Knowing'
<1>1. \A m, n \in Nat : (m <= n => Earlier(m) <= Earlier(n)) /\ (m = 0 => Earlier(m) = 0)
                       /\ Earlier(m) \in Nat
  BY DEF Earlier
<1>2. /\ told' = Earlier(told) /\ secondary' = Earlier(secondary)
      /\ rate'.remaining = rate.remaining /\ rate'.reset = Earlier(rate.reset)
      /\ \A c \in Call : /\ wake'[c] = Earlier(wake[c])
                        /\ answer'[c].rate.remaining = answer[c].rate.remaining
      /\ pc' = pc
  BY RateType, AnswerType DEF Tick, EarlierRate, TypeOK, Rate
<1>3. CASE told' = 0
  <2>1. LimitRemembered'
    BY <1>3 DEF LimitRemembered
  <2>2. 0 <= secondary'
    BY <1>1, <1>2, Numbers
  <2>3. \A c \in Call : Informed(c)'
    BY <1>3, <2>2 DEF Informed
  <2>. QED
    BY <2>1, <2>3 DEF Knowing
<1>4. CASE told' # 0
  <2>. SUFFICES ASSUME ~misled' PROVE Knowing'
    BY DEF Knowing
  <2>1. ~misled /\ early' = early
    BY <1>4 DEF Tick, TypeOK
  <2>2. /\ told <= rate.reset => told' <= rate'.reset
        /\ told <= secondary => told' <= secondary'
        /\ told = 0 => told' = 0
        /\ \A c \in Call : told <= wake[c] => told' <= wake'[c]
    BY <1>1, <1>2, Numbers
  <2>3. LimitRemembered'
    BY <1>2, <2>1, <2>2 DEF Knowing, LimitRemembered
  <2>4. ASSUME NEW c \in Call \ (early' \cup Bypassing) PROVE Informed(c)'
    <3>1. Informed(c)
      BY <2>1 DEF Knowing
    <3>. QED
      BY <1>2, <2>2, <3>1 DEF Informed
  <2>. QED
    BY <2>3, <2>4 DEF Knowing
<1>. QED
  BY <1>3, <1>4

LEMMA KnowingStep ==
  ASSUME TypeOK, TypeOK', Knowing, ReadsResources, [Next]_vars
  PROVE  Knowing'
<1>. USE DEF server, client, history
<1>1. ASSUME NEW c \in Call, Begin(c) PROVE Knowing'
  <2>1. /\ pc'[c] = Start(c) /\ \A d \in Call \ {c} : pc'[d] = pc[d]
        /\ UNCHANGED <<rate, secondary, told, early, misled, wake, answer>>
    BY <1>1, MoveFact DEF Begin
  <2>2. c \notin Bypassing => Informed(c)'
    BY <2>1 DEF Start, Informed
  <2>. QED
    BY <2>1, <2>2, LocalStep
<1>2. ASSUME NEW c \in Call, CheckPrimary(c) PROVE Knowing'
  <2>1. /\ \A d \in Call \ {c} : pc'[d] = pc[d] /\ wake'[d] = wake[d]
        /\ UNCHANGED <<rate, secondary, told, early, misled, answer>>
    BY <1>2, MoveFact DEF CheckPrimary, TypeOK
  <2>2. \/ ~Exceeded /\ pc'[c] = "secondary"
        \/ Exceeded /\ pc'[c] = "pause" /\ wake'[c] = rate.reset + 1
        \/ Exceeded /\ pc'[c] = "done"
    BY <1>2, MoveFact DEF CheckPrimary, SleepFor, TypeOK
  <2>3. LimitRemembered /\ ~Exceeded => told <= secondary
    BY Numbers DEF Exceeded, LimitRemembered
  <2>4. LimitRemembered => told <= rate.reset + 1 \/ told <= secondary
    BY Numbers DEF LimitRemembered
  <2>5. LimitRemembered => Informed(c)'
    BY <2>1, <2>2, <2>3, <2>4 DEF Informed
  <2>. QED
    BY <2>1, <2>5, LocalStep
<1>3. ASSUME NEW c \in Call, CheckSecondary(c) PROVE Knowing'
  <2>1. /\ pc[c] = "secondary" /\ \A d \in Call \ {c} : pc'[d] = pc[d]
        /\ UNCHANGED <<rate, secondary, told, early, misled, wake, answer>>
        /\ (secondary = 0 /\ pc'[c] = "send") \/ pc'[c] = "done"
    BY <1>3, MoveFact DEF CheckSecondary
  <2>2. Informed(c) => Informed(c)'
    BY <2>1, Numbers DEF Informed
  <2>. QED
    BY <2>1, <2>2, LocalStep
<1>4. ASSUME NEW c \in Call, Send(c) \/ Serve(c) \/ ServeBadly(c) \/ Lose(c) PROVE Knowing'
  <2>1. /\ pc[c] \in {"send", "sent", "answered"} /\ pc'[c] \in {"sent", "answered", "done"}
        /\ \A d \in Call \ {c} : pc'[d] = pc[d] /\ answer'[d] = answer[d]
    <3>1. CASE Lose(c)
      BY <3>1 DEF Lose, TypeOK
    <3>2. CASE Send(c)
      BY <3>2, MoveFact DEF Send
    <3>3. ASSUME NEW s, NEW r, Reply(c, s, r)
          PROVE  /\ pc[c] = "sent" /\ pc'[c] = "answered"
                 /\ \A d \in Call \ {c} : pc'[d] = pc[d] /\ answer'[d] = answer[d]
      BY <3>3, MoveFact DEF Reply, TypeOK
    <3>4. CASE Serve(c) \/ ServeBadly(c)
      BY <3>3, <3>4 DEF Serve, ServeBadly
    <3>. QED
      BY <1>4, <3>1, <3>2, <3>4
  <2>2. UNCHANGED <<rate, secondary, told, early, misled, wake>>
    BY <1>4 DEF Send, Serve, ServeBadly, Lose
  <2>3. Informed(c) => Informed(c)'
    BY <2>1, <2>2 DEF Informed
  <2>. QED
    BY <2>1, <2>2, <2>3, LocalStep
<1>5. ASSUME NEW c \in Call, Wake(c) PROVE Knowing'
  <2>1. /\ \/ pc[c] = "pause" /\ pc'[c] = "secondary"
           \/ pc[c] = "sleep" /\ pc'[c] = Start(c)
        /\ \A d \in Call \ {c} : pc'[d] = pc[d]
        /\ wake[c] = 0 /\ UNCHANGED <<rate, secondary, told, early, misled, wake, answer>>
    BY <1>5, MoveFact DEF Wake
  <2>2. Informed(c) /\ c \notin Bypassing => Informed(c)'
    BY <2>1, Numbers DEF Informed, Start
  <2>. QED
    BY <2>1, <2>2, LocalStep
<1>6. CASE UseUp \/ UNCHANGED vars
  <2>1. UNCHANGED <<rate, secondary, told, early, misled, pc, wake, answer>>
    BY <1>6 DEF UseUp, vars
  <2>. QED
    BY <2>1 DEF Knowing, LimitRemembered, Informed
<1>. QED
  BY <1>1, <1>2, <1>3, <1>4, <1>5, <1>6, KnowingRecord, KnowingFinish, KnowingTick DEF Next, ClientStep

\* However calls overlap, a call sends under a limit the client was told of only if it
\* had looked before, does not look, or the client has recorded such a call's answer.
THEOREM ServerSpared == Spec => []SparesTheServer
<1>1. Init => Knowing /\ ReadsResources
  BY DEF Init, Knowing, ReadsResources, LimitRemembered, Informed
<1>2. TypeOK /\ TypeOK' /\ Knowing /\ ReadsResources /\ [Next]_vars => Knowing'
  BY KnowingStep
<1>3. TypeOK /\ Knowing => SparesTheServer
  BY Numbers DEF SparesTheServer, Knowing, Informed
<1>. QED
  BY <1>1, <1>2, <1>3, InitType, NextType, ResourcesStep, PTL DEF Spec
=============================================================================
