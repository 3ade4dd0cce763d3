------------------------ MODULE RobotServiceProofs ------------------------
(***************************************************************************)
(* Theorems about one robot process, for every set of requests, messages,  *)
(* registered handlers and configuration texts.  The argument is one       *)
(* inductive invariant, IInv: the two wait groups count what they are      *)
(* meant to count, and the goroutine of OnInterrupt is as far as the agent *)
(* and the handlers allow.                                                 *)
(* With it every step of the service is a step of EventDelivery or changes *)
(* nothing of it: the refinement at the end.                               *)
(***************************************************************************)
EXTENDS RobotService, FiniteSetTheorems, TLAPS

One(b) == IF b THEN 1 ELSE 0

\* single.wg counts the OnInterrupt goroutine and the one that serves.
MgrWgCountsWorkers ==
  mgrWg = One(onInt \notin {"none", "done"}) + One(srv \in {"starting", "serving"})

\* How far main, and the goroutines it started, can be.
Progress ==
  /\ main = "load" => onInt = "none"
  /\ main \in {"load", "listen"} => srv = "none" /\ shut = "none"
  /\ main # "load" => onInt # "none"
  /\ main \in {"wait", "drain"} => srv # "none"
  /\ onInt \in {"calling", "blocked", "released", "done"} => stop = "returned"

\* A handler goroutine exists only for a request ServeHTTP has dealt with.
HandlersAreServed ==
  \A r \in Req : conn[r] \in {"none", "open"} => job[r] = "none"

IInv ==
  /\ TypeOK
  /\ WgCountsHandlers
  /\ MgrWgCountsWorkers
  /\ Progress
  /\ HandlersAreServed
  /\ DrainBarrier
  /\ CleanExit

-----------------------------------------------------------------------------
(* The set of live handlers and its cardinality *)

LEMMA LiveIsFinite == IsFiniteSet(Live) /\ Cardinality(Live) \in Nat
<1>1. Live \subseteq Req
  BY DEF Live
<1>2. IsFiniteSet(Live)
  BY <1>1, ServiceAssumption, FS_Subset
<1>. QED
  BY <1>2, FS_CardinalityType

\* A counter at zero means that no handler is live, a counter of one that there is
\* exactly one.
LEMMA CountZero ==
  ASSUME WgCountsHandlers
  PROVE  (dWg = 0) <=> (Live = {})
BY LiveIsFinite, FS_EmptySet DEF WgCountsHandlers

LEMMA CountPositive ==
  ASSUME WgCountsHandlers, NEW r \in Live
  PROVE  /\ dWg \in Nat \ {0}
         /\ dWg - 1 = Cardinality(Live \ {r})
         /\ dWg = 1 => Live \ {r} = {}
<1>1. IsFiniteSet(Live \ {r}) /\ Cardinality(Live \ {r}) = Cardinality(Live) - 1
  BY LiveIsFinite, FS_RemoveElement
<1>2. Cardinality(Live) \in Nat /\ Cardinality(Live \ {r}) \in Nat
  BY <1>1, LiveIsFinite, FS_CardinalityType
<1>3. Cardinality(Live \ {r}) = 0 => Live \ {r} = {}
  BY <1>1, FS_EmptySet
<1>. QED
  BY <1>1, <1>2, <1>3 DEF WgCountsHandlers

\* Steps that leave the handlers and the counter alone keep the count.
LEMMA CountUnchanged ==
  ASSUME WgCountsHandlers, UNCHANGED <<job, dWg>>
  PROVE  WgCountsHandlers' /\ Live' = Live
BY DEF WgCountsHandlers, Live

-----------------------------------------------------------------------------
(* Preservation, one lemma per group of actions *)

LEMMA InitIInv == Init => IInv
<1>. SUFFICES ASSUME Init PROVE IInv
  OBVIOUS
<1>1. TypeOK
  BY DEF Init, TypeOK, CA!Init, CA!TypeOK, CA!Nil
<1>2. Live = {}
  BY DEF Init, Live
<1>3. WgCountsHandlers
  BY <1>2, FS_EmptySet DEF Init, WgCountsHandlers
<1>. QED
  BY <1>1, <1>2, <1>3
     DEF Init, CA!Init, IInv, MgrWgCountsWorkers, One, Progress, HandlersAreServed,
         DrainBarrier, CleanExit

LEMMA AgentStepIInv == IInv /\ AgentStep => IInv'
<1>. SUFFICES ASSUME IInv, AgentStep PROVE IInv'
  OBVIOUS
<1>1. CA!TypeOK' /\ stop' = stop
  <2>. USE DEF IInv, TypeOK, CA!TypeOK, CA!Nil
  <2>1. ASSUME NEW c \in Contents, CA!EditFile(c)
        PROVE  CA!TypeOK' /\ stop' = stop
    BY <2>1 DEF CA!EditFile
  <2>2. CASE CA!Start \/ CA!Tick
    BY <2>2 DEF CA!Start, CA!Tick, CA!ReadFile
  <2>3. CASE CA!StartReturn \/ CA!TickReturn
    BY <2>3 DEF CA!StartReturn, CA!TickReturn, CA!FinishLoad, CA!Publishes
  <2>4. CASE CA!SeeStop
    BY <2>4 DEF CA!SeeStop
  <2>. QED
    BY <2>1, <2>2, <2>3, <2>4 DEF AgentStep, CA!Loader
<1>. QED
  BY <1>1, CountUnchanged
     DEF AgentStep, mgrVars, reqVars, IInv, TypeOK, MgrWgCountsWorkers, Progress,
         HandlersAreServed, DrainBarrier, CleanExit, Up

LEMMA MainStepIInv == IInv /\ (MainStep \/ HandleInterrupt) => IInv'
<1>. SUFFICES ASSUME IInv, MainStep \/ HandleInterrupt PROVE IInv'
  OBVIOUS
<1>. USE DEF IInv, TypeOK, CA!TypeOK, MgrWgCountsWorkers, One, Progress,
             HandlersAreServed, DrainBarrier, CleanExit, Up, agentVars, mgrVars, reqVars
<1>1. WgCountsHandlers' /\ Live' = Live
  BY CountUnchanged
     DEF MainStep, LoadFailed, OnInterrupt, ListenAndServe, Interrupted,
         AllTerminated, GraceTimeout, HandleInterrupt
<1>2. CASE LoadFailed
  BY <1>1, <1>2 DEF LoadFailed
<1>3. CASE OnInterrupt
  BY <1>1, <1>3 DEF OnInterrupt
<1>4. CASE ListenAndServe
  BY <1>1, <1>4 DEF ListenAndServe
<1>5. CASE Interrupted
  BY <1>1, <1>5 DEF Interrupted
<1>6. CASE AllTerminated
  BY <1>1, <1>6 DEF AllTerminated
<1>7. CASE GraceTimeout
  BY <1>1, <1>7 DEF GraceTimeout
<1>8. CASE HandleInterrupt
  BY <1>1, <1>8 DEF HandleInterrupt
<1>. QED
  BY <1>2, <1>3, <1>4, <1>5, <1>6, <1>7, <1>8 DEF MainStep

LEMMA InterruptStepIInv == IInv /\ InterruptStep => IInv'
<1>. SUFFICES ASSUME IInv, InterruptStep PROVE IInv'
  OBVIOUS
<1>. USE DEF IInv, TypeOK, CA!TypeOK, MgrWgCountsWorkers, One, Progress,
             HandlersAreServed, DrainBarrier, CleanExit, Up, agentVars, mgrVars, reqVars
<1>1. WgCountsHandlers' /\ Live' = Live
  BY CountUnchanged
     DEF InterruptStep, StopAgent, AgentStopped, WaitAtZero, WaitBlocks,
         WaitReturns, WaitPanics
<1>2. CASE StopAgent
  BY <1>1, <1>2 DEF StopAgent, CA!StopCall
<1>3. CASE AgentStopped
  BY <1>1, <1>3 DEF AgentStopped, CA!StopReturn
<1>4. CASE WaitAtZero
  BY <1>1, <1>4, CountZero DEF WaitAtZero
<1>5. CASE WaitBlocks
  BY <1>1, <1>5 DEF WaitBlocks
<1>6. CASE WaitReturns
  BY <1>1, <1>6 DEF WaitReturns
<1>7. CASE WaitPanics
  BY <1>1, <1>7 DEF WaitPanics
<1>. QED
  BY <1>2, <1>3, <1>4, <1>5, <1>6, <1>7 DEF InterruptStep

LEMMA ServerStepIInv == IInv /\ ServerStep => IInv'
<1>. SUFFICES ASSUME IInv, ServerStep PROVE IInv'
  OBVIOUS
<1>. USE DEF IInv, TypeOK, CA!TypeOK, MgrWgCountsWorkers, One, Progress,
             HandlersAreServed, DrainBarrier, CleanExit, Up, agentVars, mgrVars, reqVars
<1>1. WgCountsHandlers' /\ Live' = Live
  BY CountUnchanged
     DEF ServerStep, Listen, ServeReturns, Shutdown, ShutdownReturns, ShutdownTimeout
<1>2. CASE Listen
  BY <1>1, <1>2 DEF Listen
<1>3. CASE ServeReturns
  BY <1>1, <1>3 DEF ServeReturns
<1>4. CASE Shutdown \/ ShutdownReturns \/ ShutdownTimeout
  BY <1>1, <1>4 DEF Shutdown, ShutdownReturns, ShutdownTimeout
<1>. QED
  BY <1>2, <1>3, <1>4 DEF ServerStep

LEMMA RequestStepIInv ==
  ASSUME NEW r \in Req, IInv, RequestStep(r)
  PROVE  IInv'
<1>. USE DEF IInv, TypeOK, CA!TypeOK, MgrWgCountsWorkers, One, Progress,
             HandlersAreServed, DrainBarrier, CleanExit, Up, agentVars, mgrVars
<1>1. CASE Connect(r) \/ ServeIgnored(r) \/ Reply(r)
  BY <1>1, CountUnchanged DEF Connect, ServeIgnored, Reply
<1>2. CASE Dispatch(r)
  <2>1. r \notin Live /\ Live' = Live \cup {r}
    BY <1>2 DEF Dispatch, Live
  <2>2. Cardinality(Live') = Cardinality(Live) + 1
    BY <2>1, LiveIsFinite, FS_AddElement
  <2>3. WgCountsHandlers'
    BY <1>2, <2>2 DEF Dispatch, WgCountsHandlers
  <2>. QED
    BY <1>2, <2>1, <2>3 DEF Dispatch
<1>3. CASE HandlerCall(r)
  <2>1. Live' = Live
    BY <1>3 DEF HandlerCall, Live
  <2>2. WgCountsHandlers'
    BY <1>3, <2>1 DEF HandlerCall, WgCountsHandlers
  <2>. QED
    BY <1>3, <2>1, <2>2 DEF HandlerCall
<1>4. CASE HandlerPanic(r)
  BY <1>4, CountUnchanged DEF HandlerPanic, reqVars
<1>5. CASE HandlerReturn(r)
  <2>1. r \in Live /\ Live' = Live \ {r}
    BY <1>5 DEF HandlerReturn, Live
  <2>2. WgCountsHandlers'
    <3>1. dWg' = Cardinality(Live \ {r})
      BY <1>5, <2>1, CountPositive DEF HandlerReturn
    <3>. QED
      BY <2>1, <3>1 DEF WgCountsHandlers
  <2>3. dWg \in Nat \ {0} /\ dWg' = dWg - 1
    BY <1>5, <2>1, CountPositive DEF HandlerReturn
  <2>4. dWg = 1 => Live' = {}
    BY <2>1, CountPositive
  <2>. QED
    BY <1>5, <2>1, <2>2, <2>3, <2>4 DEF HandlerReturn
<1>. QED
  BY <1>1, <1>2, <1>3, <1>4, <1>5 DEF RequestStep

\* IInv is inductive.
THEOREM InductiveInvariant == Spec => []IInv
<1>1. IInv /\ [Next]_vars => IInv'
  <2>. SUFFICES ASSUME IInv, [Next]_vars PROVE IInv'
    OBVIOUS
  <2>1. CASE UNCHANGED vars
    BY <2>1, CountUnchanged
       DEF vars, agentVars, mgrVars, reqVars, IInv, TypeOK, CA!TypeOK,
           MgrWgCountsWorkers, Progress, HandlersAreServed, DrainBarrier, CleanExit
  <2>2. CASE Ended
    BY <2>1, <2>2 DEF Ended
  <2>. QED
    BY <2>1, <2>2, AgentStepIInv, MainStepIInv, InterruptStepIInv, ServerStepIInv,
       RequestStepIInv DEF Next
<1>. QED
  BY InitIInv, <1>1, PTL DEF Spec

\* The process is well typed; in particular neither wait group's counter ever goes
\* negative, which sync.WaitGroup answers with a panic.
THEOREM ServiceTypeCorrect == Spec => []TypeOK
BY InductiveInvariant, PTL DEF IInv

\* d.Wait looks at the true number of live handlers.
THEOREM WgCountsHandlersHolds == Spec => []WgCountsHandlers
BY InductiveInvariant, PTL DEF IInv

\* d.Wait is a barrier for the handlers dispatched before it was called, for any
\* number of requests.
THEOREM DrainBarrierHolds == Spec => []DrainBarrier
BY InductiveInvariant, PTL DEF IInv

\* A clean exit leaves no polling goroutine, no listener and no handler that was
\* dispatched before d.Wait was called.
THEOREM CleanExitHolds == Spec => []CleanExit
BY InductiveInvariant, PTL DEF IInv

-----------------------------------------------------------------------------
(* The process implements EventDelivery, and uses its agent as ConfigAgent *)
(* specifies                                                               *)

\* The refined state.
Status == [r \in Req |-> StatusOf(r)]
Owed == IF Waiting THEN Live \ late ELSE {}

\* Nothing is late before d.Wait is called.
LateInv == ~Waiting => late = {}

LEMMA LateInvariant == Spec => []LateInv
<1>. USE DEF LateInv, Waiting
<1>1. Init => LateInv
  BY DEF Init
<1>2. IInv /\ LateInv /\ [Next]_vars => LateInv'
  <2>. SUFFICES ASSUME IInv, LateInv, [Next]_vars PROVE LateInv'
    OBVIOUS
  <2>. USE DEF agentVars, mgrVars, reqVars
  <2>1. CASE AgentStep \/ MainStep \/ HandleInterrupt \/ ServerStep
    BY <2>1 DEF AgentStep, MainStep, LoadFailed, OnInterrupt, ListenAndServe,
                Interrupted, AllTerminated, GraceTimeout, HandleInterrupt,
                ServerStep, Listen, ServeReturns, Shutdown, ShutdownReturns,
                ShutdownTimeout, IInv, Progress
  <2>2. CASE InterruptStep
    BY <2>2 DEF InterruptStep, StopAgent, AgentStopped, WaitAtZero, WaitBlocks,
                WaitReturns, WaitPanics
  <2>3. ASSUME NEW r \in Req, RequestStep(r) PROVE LateInv'
    BY <2>3 DEF RequestStep, Connect, ServeIgnored, Dispatch, Reply, HandlerCall,
                HandlerPanic, HandlerReturn
  <2>4. CASE Ended \/ UNCHANGED vars
    BY <2>4 DEF Ended, vars
  <2>. QED
    BY <2>1, <2>2, <2>3, <2>4 DEF Next
<1>. QED
  BY <1>1, <1>2, InductiveInvariant, PTL DEF Spec

-----------------------------------------------------------------------------
(* How the refined state moves *)

LEMMA StatusValue ==
  ASSUME TypeOK, NEW r \in Req
  PROVE  /\ Status[r] = StatusOf(r)
         /\ StatusOf(r) = "new" <=> job[r] = "none"
         /\ StatusOf(r) = "accepted" <=> r \in Live
         /\ StatusOf(r) = "handled" <=> job[r] = "done"
<1>1. job[r] \in {"none", "spawned", "running", "done"}
  BY DEF TypeOK
<1>. QED
  BY <1>1 DEF Status, StatusOf, Live

DNext == Delivery!Next \/ UNCHANGED Delivery!vars

\* A step that leaves the handlers and the process alone, and does not take the
\* OnInterrupt goroutine into d.Wait, is invisible.
LEMMA Invisible ==
  ASSUME UNCHANGED <<job, late, proc>>, Waiting' = Waiting
  PROVE  UNCHANGED Delivery!vars
<1>1. Live' = Live
  BY DEF Live
<1>2. Status' = Status
  BY DEF Status, StatusOf
<1>3. PhaseOf' = PhaseOf
  BY DEF PhaseOf, Up
<1>4. Owed' = Owed
  BY <1>1 DEF Owed
<1>. QED
  BY <1>2, <1>3, <1>4 DEF Delivery!vars, Status, Owed

LEMMA EndIsAbort ==
  ASSUME Up, UNCHANGED <<job, late, onInt>>, proc' \in {"timeout", "noconfig", "wgReused", "handlerPanic"}
  PROVE  Delivery!Abort
<1>1. UNCHANGED <<Status, Owed>>
  BY DEF Status, StatusOf, Owed, Live, Waiting
<1>2. PhaseOf \in {"serving", "draining"} /\ PhaseOf' = "aborted"
  BY DEF PhaseOf, Up
<1>. QED
  BY <1>1, <1>2 DEF Delivery!Abort, Delivery!Running, Status, Owed

-----------------------------------------------------------------------------
(* Every step of the process is a step of EventDelivery or a stutter *)

LEMMA QuietSteps ==
  ASSUME IInv, AgentStep \/ HandleInterrupt \/ ServerStep \/ Ended \/ UNCHANGED vars
  PROVE  UNCHANGED Delivery!vars
<1>1. UNCHANGED <<job, late, onInt, proc>>
  BY DEF AgentStep, HandleInterrupt, ServerStep, Listen, ServeReturns, Shutdown,
         ShutdownReturns, ShutdownTimeout, Ended, vars, agentVars, mgrVars, reqVars
<1>2. Waiting' = Waiting
  BY <1>1 DEF Waiting
<1>. QED
  BY <1>1, <1>2, Invisible

LEMMA MainRefines == ASSUME IInv, MainStep PROVE DNext
<1>. USE DEF agentVars, mgrVars, reqVars
<1>1. CASE LoadFailed \/ GraceTimeout
  BY <1>1, EndIsAbort DEF LoadFailed, GraceTimeout, DNext, Delivery!Next
<1>2. CASE OnInterrupt \/ ListenAndServe \/ Interrupted
  <2>1. UNCHANGED <<job, late, proc>> /\ Waiting' = Waiting
    BY <1>2 DEF OnInterrupt, ListenAndServe, Interrupted, IInv, Progress, Waiting
  <2>. QED
    BY <2>1, Invisible DEF DNext
<1>3. CASE AllTerminated
  <2>1. onInt = "done" /\ Live \subseteq late
    BY <1>3 DEF AllTerminated, IInv, TypeOK, MgrWgCountsWorkers, One, Progress, DrainBarrier
  <2>2. UNCHANGED <<Status, Owed>> /\ Owed = {}
    BY <1>3, <2>1 DEF AllTerminated, Status, StatusOf, Owed, Live, Waiting
  <2>3. PhaseOf = "draining" /\ PhaseOf' = "drained"
    BY <1>3, <2>1 DEF AllTerminated, PhaseOf, Up, Waiting
  <2>. QED
    BY <2>2, <2>3 DEF Delivery!EndDrain, Delivery!Next, DNext, Status, Owed
<1>. QED
  BY <1>1, <1>2, <1>3 DEF MainStep

LEMMA InterruptRefines == ASSUME IInv, LateInv, InterruptStep PROVE DNext
<1>. USE DEF agentVars, mgrVars, reqVars
<1>1. CASE StopAgent \/ AgentStopped \/ WaitReturns
  <2>1. UNCHANGED <<job, late, proc>> /\ Waiting' = Waiting
    BY <1>1 DEF StopAgent, AgentStopped, WaitReturns, Waiting
  <2>. QED
    BY <2>1, Invisible DEF DNext
<1>2. CASE WaitAtZero \/ WaitBlocks
  <2>1. /\ Up /\ ~Waiting /\ Waiting'
        /\ UNCHANGED <<job, late, proc>>
    BY <1>2 DEF WaitAtZero, WaitBlocks, Waiting
  <2>2. Status' = Status /\ Owed' = Live
    BY <2>1 DEF Status, StatusOf, Owed, Live, LateInv
  <2>3. Live = {r \in Req : Status[r] = "accepted"}
    BY StatusValue DEF IInv, Live
  <2>4. PhaseOf = "serving" /\ PhaseOf' = "draining"
    BY <2>1 DEF PhaseOf, Up
  <2>. QED
    BY <2>2, <2>3, <2>4 DEF Delivery!BeginDrain, Delivery!Next, DNext, Status, Owed
<1>3. CASE WaitPanics
  BY <1>3, EndIsAbort DEF WaitPanics, DNext, Delivery!Next
<1>. QED
  BY <1>1, <1>2, <1>3 DEF InterruptStep

LEMMA RequestRefines ==
  ASSUME IInv, NEW r \in Req, RequestStep(r)
  PROVE  DNext
<1>. USE DEF agentVars, mgrVars, reqVars
<1>1. CASE Connect(r) \/ ServeIgnored(r) \/ Reply(r)
  <2>1. UNCHANGED <<job, late, proc>> /\ Waiting' = Waiting
    BY <1>1 DEF Connect, ServeIgnored, Reply, Waiting
  <2>. QED
    BY <2>1, Invisible DEF DNext
<1>2. CASE HandlerCall(r)
  <2>1. Live' = Live /\ Status' = Status
    BY <1>2 DEF HandlerCall, Live, Status, StatusOf, IInv, TypeOK
  <2>. QED
    BY <1>2, <2>1 DEF HandlerCall, DNext, Delivery!vars, Status, Owed, PhaseOf, Up, Waiting
<1>3. CASE Dispatch(r)
  <2>1. r \notin Live /\ Live' = Live \cup {r} /\ StatusOf(r) = "new"
    BY <1>3 DEF Dispatch, Live, StatusOf, IInv, TypeOK, HandlersAreServed
  <2>2. Status' = [Status EXCEPT ![r] = "accepted"]
    BY <1>3 DEF Dispatch, Status, StatusOf, IInv, TypeOK
  <2>3. Owed' = Owed /\ PhaseOf' = PhaseOf /\ PhaseOf \in {"serving", "draining"}
    BY <1>3, <2>1 DEF Dispatch, Owed, Waiting, PhaseOf, Up
  <2>4. Delivery!Accept(r)
    BY <2>1, <2>2, <2>3 DEF Delivery!Accept, Delivery!Running, Status, Owed
  <2>. QED
    BY <2>4 DEF Delivery!Next, DNext
<1>4. CASE HandlerReturn(r)
  <2>1. r \in Live /\ Live' = Live \ {r} /\ StatusOf(r) = "accepted"
    BY <1>4 DEF HandlerReturn, Live, StatusOf, IInv, TypeOK
  <2>2. Status' = [Status EXCEPT ![r] = "handled"]
    BY <1>4 DEF HandlerReturn, Status, StatusOf, IInv, TypeOK
  <2>3. Owed' = Owed \ {r} /\ PhaseOf' = PhaseOf /\ PhaseOf \in {"serving", "draining"}
    BY <1>4, <2>1 DEF HandlerReturn, Owed, Waiting, PhaseOf, Up
  <2>4. Delivery!Handle(r)
    BY <2>1, <2>2, <2>3 DEF Delivery!Handle, Delivery!Running, Status, Owed
  <2>. QED
    BY <2>4 DEF Delivery!Next, DNext
<1>5. CASE HandlerPanic(r)
  BY <1>5, EndIsAbort DEF HandlerPanic, DNext, Delivery!Next
<1>. QED
  BY <1>1, <1>2, <1>3, <1>4, <1>5 DEF RequestStep

\* An accepted event is handled at most once, and a clean exit has handled every
\* event accepted before the draining began.
THEOREM ServiceImplementsEventDelivery == Spec => ImplementsEventDelivery
<1>1. Init => Delivery!Init
  BY DEF Init, Delivery!Init, StatusOf, PhaseOf, Waiting, Up
<1>2. IInv /\ LateInv /\ [Next]_vars => [Delivery!Next]_(Delivery!vars)
  BY QuietSteps, MainRefines, InterruptRefines, RequestRefines DEF Next, DNext
<1>. QED
  BY <1>1, <1>2, InductiveInvariant, LateInvariant, PTL
     DEF Spec, ImplementsEventDelivery, Delivery!Spec
=============================================================================
