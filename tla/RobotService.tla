---------------------------- MODULE RobotService ----------------------------
(***************************************************************************)
(* One robot process: framework.Run composed of                            *)
(*   - the configuration agent (module ConfigAgent),                       *)
(*   - the dispatcher, which turns a webhook request into a handler        *)
(*     goroutine counted by a sync.WaitGroup,                              *)
(*   - the HTTP server the requests arrive at,                             *)
(*   - the interrupts manager, which on a signal stops the agent, waits    *)
(*     for the handlers, shuts the server down and lets main return.       *)
(* Every goroutine has its own program counter; a step is what it does     *)
(* between two synchronisations with the others.                           *)
(***************************************************************************)
EXTENDS Naturals, FiniteSets

CONSTANTS Req,         \* the requests, each on a connection of its own
          Messages,    \* what a request may carry (see Message below)
          Registered,  \* the kinds the robot registered a handler for
          Panicking    \* the registered kinds whose handler panics

CONSTANTS Contents, Unreadable, Valid

Kinds == {"access", "issues", "pull_request", "push", "issue_comment",
          "review", "review_comment"}

\* A request: its headers as parseRequest tells them apart, and the kind of event
\* ParseWebHook finds in it.  "unknown" stands for a type the dispatcher ignores and for a
\* payload ParseWebHook refuses: Dispatch logs the one and returns on both.
Message ==
  [event : BOOLEAN, readable : BOOLEAN, ua : {"Hookshot", "Access", "other"},
   delivery : BOOLEAN, sign : {"missing", "wrong", "right"},
   kind : Kinds \cup {"unknown"}]

ASSUME ServiceAssumption ==
  /\ IsFiniteSet(Req)
  /\ Messages \subseteq Message
  /\ Registered \subseteq Kinds
  /\ Panicking \subseteq Registered

VARIABLES confFile, conf, md5Sum, agent, buf, stop  \* the configuration agent

VARIABLES proc,        \* the process: "up", or how it ended
          main,        \* the main goroutine, in framework.Run
          seenSignal,  \* single.seenSignal
          mgrWg,       \* single.wg: workers registered with the manager
          onInt,       \* the goroutine of OnInterrupt: agent.Stop, then d.Wait
          srv,         \* the goroutine that runs server.ListenAndServe
          shut,        \* the goroutine that runs server.Shutdown
          conn,        \* the connection and ServeHTTP goroutine of a request
          msg,         \* what it carries
          job,         \* the handler goroutine of a request
          dWg,         \* dispatcher.wg
          late         \* history: dispatched after d.Wait had looked at wg

agentVars == <<confFile, conf, md5Sum, agent, buf, stop>>
mgrVars == <<main, seenSignal, mgrWg, onInt, srv, shut>>
reqVars == <<conn, msg, job, dWg, late>>
vars == <<agentVars, proc, mgrVars, reqVars>>

CA == INSTANCE ConfigAgent

Up == proc = "up"

Init ==
  /\ CA!Init
  /\ proc = "up"
  /\ main = "load"
  /\ seenSignal = FALSE
  /\ mgrWg = 0
  /\ onInt = "none"
  /\ srv = "none"
  /\ shut = "none"
  /\ conn = [r \in Req |-> "none"]
  /\ msg \in [Req -> Messages]
  /\ job = [r \in Req |-> "none"]
  /\ dWg = 0
  /\ late = {}

-----------------------------------------------------------------------------
(* main: framework.Run and, deferred, WaitForGracefulShutdown *)

LoadFailed ==
  /\ Up
  /\ main = "load"
  /\ agent = "failed"
  /\ proc' = "noconfig"
  /\ UNCHANGED <<agentVars, mgrVars, reqVars>>

\* (Mutant: the manager is not told to wait for the work.)
OnInterrupt_NoAdd ==
  /\ Up
  /\ main = "load"
  /\ agent \in {"select", "loading"}
  /\ onInt' = "armed"
  /\ main' = "listen"
  /\ UNCHANGED <<agentVars, proc, seenSignal, mgrWg, srv, shut, reqVars>>

OnInterrupt ==
  /\ Up
  /\ main = "load"
  /\ agent \in {"select", "loading"}
  /\ mgrWg' = mgrWg + 1
  /\ onInt' = "armed"
  /\ main' = "listen"
  /\ UNCHANGED <<agentVars, proc, seenSignal, srv, shut, reqVars>>

ListenAndServe ==
  /\ Up
  /\ main = "listen"
  /\ mgrWg' = mgrWg + 1
  /\ srv' = "starting"
  /\ shut' = "armed"
  /\ main' = "wait"
  /\ UNCHANGED <<agentVars, proc, seenSignal, onInt, reqVars>>

Interrupted ==
  /\ Up
  /\ main = "wait"
  /\ seenSignal
  /\ main' = "drain"
  /\ UNCHANGED <<agentVars, proc, seenSignal, mgrWg, onInt, srv, shut, reqVars>>

\* single.wg.Wait returned before the grace period was over.
\* (Mutant: it is not waited for.)
AllTerminated_NoWait ==
  /\ Up
  /\ main = "drain"
  /\ proc' = "clean"
  /\ UNCHANGED <<agentVars, mgrVars, reqVars>>

AllTerminated ==
  /\ Up
  /\ main = "drain"
  /\ mgrWg = 0
  /\ proc' = "clean"
  /\ UNCHANGED <<agentVars, mgrVars, reqVars>>

\* (Mutant: WaitForGracefulShutdown without the timeout.)
GraceTimeout_WaitsForAll ==
  /\ Up
  /\ main = "drain"
  /\ mgrWg = 0
  /\ proc' = "timeout"
  /\ UNCHANGED <<agentVars, mgrVars, reqVars>>

GraceTimeout ==
  /\ Up
  /\ main = "drain"
  /\ proc' = "timeout"
  /\ UNCHANGED <<agentVars, mgrVars, reqVars>>

-----------------------------------------------------------------------------
(* The interrupts manager *)

\* handleInterrupt: one signal is taken from the channel, later ones stay there.
HandleInterrupt ==
  /\ Up
  /\ ~seenSignal
  /\ seenSignal' = TRUE
  /\ UNCHANGED <<agentVars, proc, main, mgrWg, onInt, srv, shut, reqVars>>

\* The work of OnInterrupt: agent.Stop ...
StopAgent ==
  /\ Up
  /\ onInt = "armed"
  /\ seenSignal
  /\ CA!StopCall
  /\ onInt' = "stopping"
  /\ UNCHANGED <<proc, main, seenSignal, mgrWg, srv, shut, reqVars>>

AgentStopped ==
  /\ Up
  /\ onInt = "stopping"
  /\ CA!StopReturn
  /\ onInt' = "calling"
  /\ UNCHANGED <<proc, main, seenSignal, mgrWg, srv, shut, reqVars>>

\* ... then d.Wait: with the counter at zero it returns at once ...
WaitAtZero ==
  /\ Up
  /\ onInt = "calling"
  /\ dWg = 0
  /\ onInt' = "done"
  /\ mgrWg' = mgrWg - 1
  /\ UNCHANGED <<agentVars, proc, main, seenSignal, srv, shut, reqVars>>

\* ... otherwise it sleeps until the Done that reaches zero (HandlerReturn) ...
WaitBlocks ==
  /\ Up
  /\ onInt = "calling"
  /\ dWg # 0
  /\ onInt' = "blocked"
  /\ UNCHANGED <<agentVars, proc, main, seenSignal, mgrWg, srv, shut, reqVars>>

\* ... and, woken, returns if the counter is still zero, and panics ("WaitGroup
\* is reused before previous Wait has returned") if it is not.
WaitReturns ==
  /\ Up
  /\ onInt = "released"
  /\ dWg = 0
  /\ onInt' = "done"
  /\ mgrWg' = mgrWg - 1
  /\ UNCHANGED <<agentVars, proc, main, seenSignal, srv, shut, reqVars>>

WaitPanics ==
  /\ Up
  /\ onInt = "released"
  /\ dWg # 0
  /\ proc' = "wgReused"
  /\ UNCHANGED <<agentVars, mgrVars, reqVars>>

-----------------------------------------------------------------------------
(* The HTTP server *)

\* The listener is opened, unless Shutdown was called first (ErrServerClosed).
Listen ==
  /\ Up
  /\ srv = "starting"
  /\ shut = "armed"
  /\ srv' = "serving"
  /\ UNCHANGED <<agentVars, proc, main, seenSignal, mgrWg, onInt, shut, reqVars>>

\* server.ListenAndServe returns: the port could not be opened, or Shutdown was
\* called.  The deferred wg.Done follows, whatever Shutdown is still doing.
ServeReturns ==
  /\ Up
  /\ srv = "starting" \/ (srv = "serving" /\ shut # "armed")
  /\ srv' = "closed"
  /\ mgrWg' = mgrWg - 1
  /\ UNCHANGED <<agentVars, proc, main, seenSignal, onInt, shut, reqVars>>

Shutdown ==
  /\ Up
  /\ shut = "armed"
  /\ seenSignal
  /\ shut' = "draining"
  /\ UNCHANGED <<agentVars, proc, main, seenSignal, mgrWg, onInt, srv, reqVars>>

Active(r) == conn[r] \in {"open", "served"}

\* Shutdown returns once no connection is active, or on its own grace period.
ShutdownReturns ==
  /\ Up
  /\ shut = "draining"
  /\ \A r \in Req : ~Active(r)
  /\ shut' = "drained"
  /\ UNCHANGED <<agentVars, proc, main, seenSignal, mgrWg, onInt, srv, reqVars>>

ShutdownTimeout ==
  /\ Up
  /\ shut = "draining"
  /\ \E r \in Req : Active(r)
  /\ shut' = "timeout"
  /\ UNCHANGED <<agentVars, proc, main, seenSignal, mgrWg, onInt, srv, reqVars>>

-----------------------------------------------------------------------------
(* Requests: ServeHTTP, Dispatch and the handler goroutines *)

Connect(r) ==
  /\ Up
  /\ srv = "serving"
  /\ shut = "armed"
  /\ conn[r] = "none"
  /\ conn' = [conn EXCEPT ![r] = "open"]
  /\ UNCHANGED <<agentVars, proc, mgrVars, msg, job, dWg, late>>

\* parseRequest: a request it refuses gets a 4xx or 5xx answer and nothing more.
FromWebhook(m) == m.ua = "Hookshot"
Refused(m) ==
  \/ ~m.event
  \/ ~m.readable
  \/ FromWebhook(m) /\ (~m.delivery \/ m.sign # "right")
  \/ ~FromWebhook(m) /\ m.ua # "Access"

\* The type ServeHTTP passes to Dispatch: whatever a webhook delivers becomes an
\* access event.
EventKind(m) == IF FromWebhook(m) THEN "access" ELSE m.kind
Dispatched(m) == ~Refused(m) /\ EventKind(m) \in Kinds

\* ServeHTTP for a request that spawns no goroutine: refused, of a type the
\* dispatcher does not know, or not parsable.
ServeIgnored(r) ==
  /\ Up
  /\ conn[r] = "open"
  /\ ~Dispatched(msg[r])
  /\ conn' = [conn EXCEPT ![r] = "served"]
  /\ UNCHANGED <<agentVars, proc, mgrVars, msg, job, dWg, late>>

\* Dispatch: wg.Add(1), then the go statement.
\* (Mutant: Add left to the goroutine itself, as is easily done.)
Dispatch_AddMissing(r) ==
  /\ Up
  /\ conn[r] = "open"
  /\ Dispatched(msg[r])
  /\ conn' = [conn EXCEPT ![r] = "served"]
  /\ job' = [job EXCEPT ![r] = "spawned"]
  /\ late' = IF onInt \in {"blocked", "released", "done"} THEN late \cup {r} ELSE late
  /\ UNCHANGED <<agentVars, proc, mgrVars, msg, dWg>>

Dispatch(r) ==
  /\ Up
  /\ conn[r] = "open"
  /\ Dispatched(msg[r])
  /\ conn' = [conn EXCEPT ![r] = "served"]
  /\ dWg' = dWg + 1
  /\ job' = [job EXCEPT ![r] = "spawned"]
  /\ late' = IF onInt \in {"blocked", "released", "done"} THEN late \cup {r} ELSE late
  /\ UNCHANGED <<agentVars, proc, mgrVars, msg>>

\* ServeHTTP has returned: the response is written and the connection is idle.
Reply(r) ==
  /\ Up
  /\ conn[r] = "served"
  /\ conn' = [conn EXCEPT ![r] = "closed"]
  /\ UNCHANGED <<agentVars, proc, mgrVars, msg, job, dWg, late>>

Runs(r) == EventKind(msg[r]) \in Registered \ Panicking

\* The goroutine calls the registered handler with the current configuration ...
\* (Mutant: only once the response was written, which no client is bound to await.)
HandlerCall_AfterReply(r) ==
  /\ Up
  /\ job[r] = "spawned"
  /\ conn[r] = "closed"
  /\ Runs(r)
  /\ job' = [job EXCEPT ![r] = "running"]
  /\ UNCHANGED <<agentVars, proc, mgrVars, conn, msg, dWg, late>>

HandlerCall(r) ==
  /\ Up
  /\ job[r] = "spawned"
  /\ Runs(r)
  /\ job' = [job EXCEPT ![r] = "running"]
  /\ UNCHANGED <<agentVars, proc, mgrVars, conn, msg, dWg, late>>

\* ... which is nil when the robot registered none for this kind, or panics; no
\* recover in the goroutine, so the process dies.
HandlerPanic(r) ==
  /\ Up
  /\ job[r] = "spawned"
  /\ ~Runs(r)
  /\ proc' = "handlerPanic"
  /\ UNCHANGED <<agentVars, mgrVars, reqVars>>

\* The deferred wg.Done; the one that brings the counter to zero wakes d.Wait.
\* (Mutant: the handler returns without it.)
HandlerReturn_NoDone(r) ==
  /\ Up
  /\ job[r] = "running"
  /\ job' = [job EXCEPT ![r] = "done"]
  /\ UNCHANGED <<agentVars, proc, mgrVars, conn, msg, dWg, late>>

HandlerReturn(r) ==
  /\ Up
  /\ job[r] = "running"
  /\ job' = [job EXCEPT ![r] = "done"]
  /\ dWg' = dWg - 1
  /\ onInt' = IF onInt = "blocked" /\ dWg = 1 THEN "released" ELSE onInt
  /\ UNCHANGED <<agentVars, proc, main, seenSignal, mgrWg, srv, shut, conn, msg, late>>

-----------------------------------------------------------------------------
AgentStep ==
  /\ Up
  /\ CA!Loader \/ \E c \in Contents : CA!EditFile(c)
  /\ UNCHANGED <<proc, mgrVars, reqVars>>

MainStep == LoadFailed \/ OnInterrupt \/ ListenAndServe \/ Interrupted
              \/ AllTerminated \/ GraceTimeout

InterruptStep == StopAgent \/ AgentStopped \/ WaitAtZero \/ WaitBlocks
                   \/ WaitReturns \/ WaitPanics

ServerStep == Listen \/ ServeReturns \/ Shutdown \/ ShutdownReturns \/ ShutdownTimeout

RequestStep(r) == Connect(r) \/ ServeIgnored(r) \/ Dispatch(r) \/ Reply(r)
                    \/ HandlerCall(r) \/ HandlerPanic(r) \/ HandlerReturn(r)

\* The process has ended: nothing moves any more.
Ended == ~Up /\ UNCHANGED vars

Next ==
  \/ AgentStep
  \/ MainStep
  \/ HandleInterrupt
  \/ InterruptStep
  \/ ServerStep
  \/ \E r \in Req : RequestStep(r)
  \/ Ended

Spec == Init /\ [][Next]_vars

(* The Go scheduler runs runnable goroutines and the grace period elapses.   *)
(* Nothing is assumed of signals, of clients (a request body may never       *)
(* arrive) or of handlers (their API calls have no timeout).                 *)
Fairness ==
  /\ WF_vars(MainStep)
  /\ WF_vars(InterruptStep)
  /\ WF_vars(Listen \/ ServeReturns)
  /\ WF_vars(Shutdown)
  /\ WF_vars(Up /\ (CA!Start \/ CA!StartReturn) /\ UNCHANGED <<proc, mgrVars, reqVars>>)
  /\ WF_vars(Up /\ CA!TickReturn /\ UNCHANGED <<proc, mgrVars, reqVars>>)
  /\ SF_vars(Up /\ CA!SeeStop /\ UNCHANGED <<proc, mgrVars, reqVars>>)
  /\ \A r \in Req : WF_vars(HandlerCall(r) \/ HandlerPanic(r))

FairSpec == Spec /\ Fairness

\* A second, stronger assumption: every handler returns.
HandlersReturn == \A r \in Req : WF_vars(HandlerReturn(r))

-----------------------------------------------------------------------------
(* Properties *)

\* Type invariant of the process.
TypeOK ==
  /\ CA!TypeOK
  /\ proc \in {"up", "clean", "timeout", "noconfig", "wgReused", "handlerPanic"}
  /\ main \in {"load", "listen", "wait", "drain"}
  /\ seenSignal \in BOOLEAN
  /\ mgrWg \in Nat
  /\ onInt \in {"none", "armed", "stopping", "calling", "blocked", "released", "done"}
  /\ srv \in {"none", "starting", "serving", "closed"}
  /\ shut \in {"none", "armed", "draining", "drained", "timeout"}
  /\ conn \in [Req -> {"none", "open", "served", "closed"}]
  /\ msg \in [Req -> Messages]
  /\ job \in [Req -> {"none", "spawned", "running", "done"}]
  /\ dWg \in Nat
  /\ late \subseteq Req

Live == {r \in Req : job[r] \in {"spawned", "running"}}

\* dispatcher.wg always equals the number of handler goroutines that have not
\* finished, so d.Wait looks at the truth.
WgCountsHandlers == dWg = Cardinality(Live)

\* d.Wait is a barrier: when it is about to return, or has returned, every handler
\* dispatched before it was called has finished.
DrainBarrier == onInt \in {"released", "done"} => Live \subseteq late

\* "All workers gracefully terminated": the process ends that way only when the
\* agent's goroutine is gone, the listener is closed and every handler dispatched
\* before d.Wait was called has finished.
CleanExit ==
  proc = "clean" =>
    /\ stop = "returned"
    /\ srv = "closed"
    /\ onInt = "done"
    /\ Live \subseteq late

\* The service implements EventDelivery: draining begins when d.Wait is called and
\* is over when the process exits cleanly.
Waiting == onInt \in {"blocked", "released", "done"}
StatusOf(r) == CASE job[r] = "none" -> "new"
                 [] job[r] \in {"spawned", "running"} -> "accepted"
                 [] job[r] = "done" -> "handled"
PhaseOf == IF proc = "clean" THEN "drained"
           ELSE IF ~Up THEN "aborted"
           ELSE IF Waiting THEN "draining" ELSE "serving"
Delivery == INSTANCE EventDelivery WITH
  Event <- Req,
  status <- [r \in Req |-> StatusOf(r)],
  phase <- PhaseOf,
  owed <- IF Waiting THEN Live \ late ELSE {}
ImplementsEventDelivery == Delivery!Spec

\* A signal ends the process whatever the handlers, the clients and the file do:
\* WaitForGracefulShutdown gives up after its grace period.
SignalEndsProcess == seenSignal ~> ~Up

\* Every dispatched event is handled, unless the process ends first.
DispatchedIsHandled ==
  HandlersReturn => \A r \in Req : (job[r] = "spawned") ~> (job[r] = "done" \/ ~Up)

(* Claims of the comments that the code does not keep *)

\* dispatcher.go: wg "Tracks running handlers for graceful shutdown" and Wait is to
\* "Handle remaining requests": no handler is running when the drain ends the process,
\* by a clean exit or by a panic of the wait itself.
NoHandlerAbandoned == proc \in {"clean", "wgReused"} => Live = {}
=============================================================================
