---------------------------- MODULE AccessRobot ----------------------------
(***************************************************************************)
(* The access robot: it is given every webhook event, looks up the plugins *)
(* configured for the event's organization and repository, and forwards    *)
(* the payload to each of them from a goroutine of its own.                *)
(*                                                                         *)
(* The service around it (reception, draining, exit) is the abstract       *)
(* EventDelivery, which RobotService is shown to implement.  A forwarder   *)
(* makes one attempt and, while http.Client.Do reports an error, up to     *)
(* MaxRetries more.  All attempts use one request object, whose body is a  *)
(* buffer that the first transmission consumes.  What becomes of a retry   *)
(* then is up to the connections net/http has open: on a new one it fails  *)
(* ("ContentLength=N with Body length 0") with nothing written, on a       *)
(* reused one net/http rewinds the body (http.NewRequest sets GetBody for  *)
(* a bytes.Buffer) and sends it all again.                                 *)
(***************************************************************************)
EXTENDS Naturals, Sequences, FiniteSets, SequencesExt

CONSTANTS Event,
          Hooks,       \* what an event may be: [org, repo, kind]
          Candidates,  \* texts an operator may write: [repoPlugins, plugins]
          BadURL,      \* the endpoints http.NewRequest refuses
          MaxRetries   \* 4 in the code

IsSequence(s) == s \in Seq(ToSet(s))

\* What the types of the configuration say, and that a repository is looked up under
\* its organization's name followed by a slash and its own.
ASSUME AccessAssumption ==
  /\ MaxRetries \in Nat
  /\ \A c \in Candidates :
       /\ IsSequence(c.plugins)
       /\ \A key \in DOMAIN c.repoPlugins : IsSequence(c.repoPlugins[key])
  /\ \A h \in Hooks : h.org # h.repo

VARIABLES status, phase, owed  \* the service

VARIABLES hook,      \* the event's organization, repository and kind
          given,     \* the configuration its handler is called with
          nameAt,    \* its handler's place in the loop over the listed names
          pluginAt,  \* and in the loop over the plugins
          endpoints, \* those it has collected
          sent,      \* and how many of them it has dealt with
          fwd,       \* the forwarders it has started
          wire,      \* requests on their way to a plugin, some of them for ever
          answers,   \* answers a plugin has given and their forwarder waits for
          received   \* history: every request a plugin has received

serviceVars == <<status, phase, owed>>
inputs == <<hook, given>>
handler == <<nameAt, pluginAt, endpoints, sent>>
network == <<wire, answers, received>>
vars == <<serviceVars, inputs, handler, fwd, network>>

Service == INSTANCE EventDelivery

-----------------------------------------------------------------------------
(* The configuration *)

\* validate: every plugin has a name and an endpoint, every name listed for an
\* organization or a repository is that of a plugin.
PluginNames(c) == {c.plugins[k].name : k \in DOMAIN c.plugins}

\* (Mutant: the listed names are not looked up.)
Validate_AnyName(c) ==
  \A k \in DOMAIN c.plugins : c.plugins[k].name # "" /\ c.plugins[k].endpoint # ""

Validate(c) ==
  /\ \A k \in DOMAIN c.plugins : c.plugins[k].name # "" /\ c.plugins[k].endpoint # ""
  /\ \A key \in DOMAIN c.repoPlugins : ToSet(c.repoPlugins[key]) \subseteq PluginNames(c)

\* GetEndpoints: the names listed for the organization, then those listed for the
\* repository; a name listed in both is there twice.
ListedAt(c, key) == IF key \in DOMAIN c.repoPlugins THEN c.repoPlugins[key] ELSE <<>>

\* (Mutant: the repository's own list replaces that of its organization.)
RobotNames_RepoWins(c, h) ==
  IF h.repo \in DOMAIN c.repoPlugins THEN ListedAt(c, h.repo) ELSE ListedAt(c, h.org)

RobotNames(c, h) == ListedAt(c, h.org) \o ListedAt(c, h.repo)

\* matchEndpoint's condition, without its race (module EventSort).
Takes(p, name, kind) == p.name = name /\ kind \in ToSet(p.events)

-----------------------------------------------------------------------------
NewForwarder(endpoint) ==
  [to |-> endpoint, pc |-> "ready", attempts |-> 0]

Init ==
  /\ Service!Init
  /\ hook \in [Event -> Hooks]
  /\ given \in [Event -> {c \in Candidates : Validate(c)}]
  /\ nameAt = [e \in Event |-> 1]
  /\ pluginAt = [e \in Event |-> 1]
  /\ endpoints = [e \in Event |-> <<>>]
  /\ sent = [e \in Event |-> 0]
  /\ fwd = [e \in Event |-> <<>>]
  /\ wire = {}
  /\ answers = {}
  /\ received = {}

Forwarder(e) == DOMAIN fwd[e]
Running == Service!Running

\* A step of the service other than the end of a handler.
ServiceStep ==
  /\ \/ \E e \in Event : Service!Accept(e)
     \/ Service!BeginDrain
     \/ Service!EndDrain
     \/ Service!Abort
  /\ UNCHANGED <<inputs, handler, fwd, network>>

-----------------------------------------------------------------------------
(* A handler: handleAccessEvent *)

Names(e) == RobotNames(given[e], hook[e])
Plugins(e) == given[e].plugins
Handling(e) == Running /\ status[e] = "accepted"
Matched(e) == nameAt[e] > Len(Names(e))

\* matchEndpoint: one plugin is compared with one name.
MatchPlugin(e) ==
  /\ Handling(e)
  /\ nameAt[e] \in DOMAIN Names(e)
  /\ pluginAt[e] \in DOMAIN Plugins(e)
  /\ LET p == Plugins(e)[pluginAt[e]] IN
       endpoints' = IF Takes(p, Names(e)[nameAt[e]], hook[e].kind)
                    THEN [endpoints EXCEPT ![e] = Append(@, p.endpoint)]
                    ELSE endpoints
  /\ pluginAt' = [pluginAt EXCEPT ![e] = @ + 1]
  /\ UNCHANGED <<serviceVars, inputs, nameAt, sent, fwd, network>>

NextName(e) ==
  /\ Handling(e)
  /\ nameAt[e] \in DOMAIN Names(e)
  /\ pluginAt[e] > Len(Plugins(e))
  /\ nameAt' = [nameAt EXCEPT ![e] = @ + 1]
  /\ pluginAt' = [pluginAt EXCEPT ![e] = 1]
  /\ UNCHANGED <<serviceVars, inputs, endpoints, sent, fwd, network>>

\* dispatchToDownstreamRobot: a goroutine for each endpoint a request can be made for.
\* The requests are made in a loop before that of the go statements, which nobody sees.
Dispatch(e) ==
  /\ Handling(e)
  /\ Matched(e)
  /\ sent[e] < Len(endpoints[e])
  /\ LET u == endpoints[e][sent[e] + 1] IN
       fwd' = IF u \in BadURL THEN fwd ELSE [fwd EXCEPT ![e] = Append(@, NewForwarder(u))]
  /\ sent' = [sent EXCEPT ![e] = @ + 1]
  /\ UNCHANGED <<serviceVars, inputs, nameAt, pluginAt, endpoints, network>>

\* The handler returns without waiting for its forwarders.
HandlerReturn(e) ==
  /\ Matched(e)
  /\ sent[e] = Len(endpoints[e])
  /\ Service!Handle(e)
  /\ UNCHANGED <<inputs, handler, fwd, network>>

HandleAccessEvent(e) == MatchPlugin(e) \/ NextName(e) \/ Dispatch(e) \/ HandlerReturn(e)

-----------------------------------------------------------------------------
(* A forwarder: forwardTo and do *)

At(e, k, where) == Running /\ k \in Forwarder(e) /\ fwd[e][k].pc = where
Becomes(e, k, f) == fwd' = [fwd EXCEPT ![e] = [@ EXCEPT ![k] = f]]
Copy(e, k) == [event |-> e, fwd |-> k, attempt |-> fwd[e][k].attempts]

\* Do has returned an error: sleep and retry, or give up and log it.
\* (Mutants: one retry too many; the loop variable never advances.)
AfterError_OneMore(f) ==
  IF f.attempts <= MaxRetries
  THEN [f EXCEPT !.pc = "sleeping", !.attempts = @ + 1]
  ELSE [f EXCEPT !.pc = "gaveUp", !.attempts = @ + 1]
AfterError_Endless(f) == [f EXCEPT !.pc = "sleeping"]

AfterError(f) ==
  IF f.attempts < MaxRetries
  THEN [f EXCEPT !.pc = "sleeping", !.attempts = @ + 1]
  ELSE [f EXCEPT !.pc = "gaveUp", !.attempts = @ + 1]

\* Nothing is written: no connection, or a new one and a body that is no longer there.
AttemptUnsent(e, k) ==
  /\ At(e, k, "ready")
  /\ Becomes(e, k, AfterError(fwd[e][k]))
  /\ UNCHANGED <<serviceVars, inputs, handler, network>>

\* The request is written, its body rewound if need be; the plugin may receive it
\* whatever becomes of the connection afterwards.
Send(e, k) ==
  /\ At(e, k, "ready")
  /\ wire' = wire \cup {Copy(e, k)}
  /\ Becomes(e, k, [fwd[e][k] EXCEPT !.pc = "waiting"])
  /\ UNCHANGED <<serviceVars, inputs, handler, answers, received>>

\* The connection fails, and an answer on it is lost.
ConnectionBreaks(e, k) ==
  /\ At(e, k, "waiting")
  /\ answers' = {a \in answers : a.copy # Copy(e, k)}
  /\ Becomes(e, k, AfterError(fwd[e][k]))
  /\ UNCHANGED <<serviceVars, inputs, handler, wire, received>>

\* Any answer ends the attempts; one without a 2xx status, or whose body cannot
\* be read, is an error that is logged and not retried.
\* (Mutant: a refusal counts as forwarded and so does no answer at all.)
Answered_Unchecked(e, k) ==
  /\ At(e, k, "waiting")
  /\ Becomes(e, k, [fwd[e][k] EXCEPT !.pc = "forwarded"])
  /\ UNCHANGED <<serviceVars, inputs, handler, network>>

Answered(e, k) ==
  /\ At(e, k, "waiting")
  /\ \E a \in answers :
       /\ a.copy = Copy(e, k)
       /\ answers' = answers \ {a}
       /\ \/ a.ok /\ Becomes(e, k, [fwd[e][k] EXCEPT !.pc = "forwarded"])
          \/ Becomes(e, k, [fwd[e][k] EXCEPT !.pc = "refused"])
  /\ UNCHANGED <<serviceVars, inputs, handler, wire, received>>

Wake(e, k) ==
  /\ At(e, k, "sleeping")
  /\ Becomes(e, k, [fwd[e][k] EXCEPT !.pc = "ready"])
  /\ UNCHANGED <<serviceVars, inputs, handler, network>>

ForwardStep(e, k) == AttemptUnsent(e, k) \/ Send(e, k) \/ ConnectionBreaks(e, k)
                       \/ Answered(e, k) \/ Wake(e, k)

-----------------------------------------------------------------------------
(* The network and the plugins, which outlive the access robot *)

\* Its answer finds the forwarder waiting for it, or goes the way of its connection.
Awaited(m) == At(m.event, m.fwd, "waiting") /\ Copy(m.event, m.fwd) = m

Receive(m, ok) ==
  /\ m \in wire
  /\ wire' = wire \ {m}
  /\ received' = received \cup {m}
  /\ answers' = IF Awaited(m) THEN answers \cup {[copy |-> m, ok |-> ok]} ELSE answers
  /\ UNCHANGED <<serviceVars, inputs, handler, fwd>>

-----------------------------------------------------------------------------
\* The process has ended, and plugins have received what they will.
Ended == ~Running /\ UNCHANGED vars

Next ==
  \/ ServiceStep
  \/ \E e \in Event : HandleAccessEvent(e)
  \/ \E e \in Event : \E k \in Forwarder(e) : ForwardStep(e, k)
  \/ \E m \in wire, ok \in BOOLEAN : Receive(m, ok)
  \/ Ended

Spec == Init /\ [][Next]_vars

(* The scheduler runs the forwarders, time.Sleep ends, and the transport gives *)
(* up a connection it cannot open; each takes finitely many steps, so fairness *)
(* to all of them together is enough.  Nothing is assumed of "waiting": the    *)
(* client has no timeout, so only the plugin or the network ends it.           *)
Attempt(e, k) == AttemptUnsent(e, k) \/ Send(e, k) \/ Wake(e, k)
Fairness == WF_vars(\E e \in Event : \E k \in Forwarder(e) : Attempt(e, k))

FairSpec == Spec /\ Fairness

-----------------------------------------------------------------------------
(* Properties *)

Final == {"forwarded", "refused", "gaveUp"}
Endpoints == UNION {{c.plugins[k].endpoint : k \in DOMAIN c.plugins} : c \in Candidates}
ForwarderRecord ==
  [to : Endpoints \ BadURL, pc : {"ready", "waiting", "sleeping"} \cup Final,
   attempts : 0 .. MaxRetries + 1]
Copies == [event : Event, fwd : Nat, attempt : 0 .. MaxRetries]

Typed ==
  /\ status \in [Event -> {"new", "accepted", "handled"}]
  /\ phase \in {"serving", "draining", "drained", "aborted"}
  /\ owed \subseteq Event
  /\ hook \in [Event -> Hooks]
  /\ given \in [Event -> Candidates]
  /\ nameAt \in [Event -> Nat \ {0}]
  /\ pluginAt \in [Event -> Nat \ {0}]
  /\ endpoints \in [Event -> Seq(Endpoints)]
  /\ sent \in [Event -> Nat]
  /\ \A e \in Event : sent[e] <= Len(endpoints[e])
  /\ fwd \in [Event -> Seq(ForwarderRecord)]
  /\ wire \subseteq Copies
  /\ answers \subseteq [copy : Copies, ok : BOOLEAN]
  /\ received \subseteq Copies

\* Type invariant of the access robot: its loops stay within their lists, and a
\* forwarder fails MaxRetries + 1 times at most.
LoopsInside ==
  \A e \in Event : /\ nameAt[e] \in 1 .. Len(Names(e)) + 1
                   /\ pluginAt[e] \in 1 .. Len(Plugins(e)) + 1
TypeOK == Typed /\ LoopsInside

\* A plugin is sent an event once for every time it is listed for the event's
\* organization or repository, if it names the event, and not otherwise (for a plugin
\* that names none, see NoEventsMeansAll).
Listings(e, u) ==
  LET c == given[e]
      h == hook[e]
  IN  {x \in UNION {{key} \X (DOMAIN ListedAt(c, key)) \X (DOMAIN c.plugins) : key \in {h.org, h.repo}} :
         LET p == c.plugins[x[3]] IN
         /\ p.name = ListedAt(c, x[1])[x[2]]
         /\ p.endpoint = u
         /\ \E n \in DOMAIN p.events : p.events[n] = h.kind}
RoutedAsListed ==
  \A e \in Event : status[e] = "handled" =>
    \A u \in Endpoints \ BadURL :
      Cardinality({k \in Forwarder(e) : fwd[e][k].to = u}) = Cardinality(Listings(e, u))

\* No listed name is passed over in silence: it is a plugin's, and the plugin is
\* sent the event unless it does not take it or its endpoint is no URL.
NoNameDropped ==
  \A e \in Event : status[e] = "handled" =>
    \A n \in ToSet(RobotNames(given[e], hook[e])) :
      \E q \in DOMAIN given[e].plugins :
        LET p == given[e].plugins[q] IN
        /\ p.name = n
        /\ \/ hook[e].kind \notin ToSet(p.events)
           \/ p.endpoint \in BadURL
           \/ \E k \in Forwarder(e) : fwd[e][k].to = p.endpoint

\* Retries may repeat an event that was received: its answer was lost, or it arrived
\* after its attempt was given up.  But however attempts, losses and late arrivals fall,
\* a plugin receives an event at most once for every attempt the code may make for every
\* place the plugin is listed at, and one that is not listed never does.
Receipts(e, u) == {m \in received : m.event = e /\ fwd[e][m.fwd].to = u}
ReceivedAsListed ==
  \A e \in Event : \A u \in Endpoints \ BadURL :
    Cardinality(Receipts(e, u)) <= (MaxRetries + 1) * Cardinality(Listings(e, u))

\* An event counts as forwarded only if the plugin did receive the very attempt whose
\* answer says so, not just an earlier one that was given up.
ForwardedWasReceived ==
  \A e \in Event : \A k \in Forwarder(e) :
    fwd[e][k].pc = "forwarded" => Copy(e, k) \in received

\* Every forwarder comes to rest, whatever the network does: forwarded, refused or given
\* up, or, since the client has no timeout, waiting for ever for the answer to one last
\* request that neither comes nor fails; unless the process ends first.
ForwardersSettle ==
  <>[](~Running \/ \A e \in Event : \A k \in Forwarder(e) : fwd[e][k].pc \in Final \cup {"waiting"})

(* Claims of the comments that the code does not keep *)

\* robot.go: accessDispatcher.wg "Tracks running handlers for graceful shutdown": a
\* drained robot leaves no forwarder behind.
ForwardersAwaited ==
  phase = "drained" =>
    \A e \in Event : \A k \in Forwarder(e) : fwd[e][k].pc \in Final

\* config.go: "If no events are specified, everything is sent.": a plugin listed for the
\* event whose list of events is empty is sent the event.
NoEventsMeansAll ==
  \A e \in Event : status[e] = "handled" =>
    \A p \in ToSet(given[e].plugins) :
      /\ p.name \in ToSet(RobotNames(given[e], hook[e]))
      /\ p.events = <<>>
      /\ p.endpoint \notin BadURL
      => \E k \in Forwarder(e) : fwd[e][k].to = p.endpoint
=============================================================================
