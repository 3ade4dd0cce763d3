------------------------- MODULE AccessRobotProofs -------------------------
(***************************************************************************)
(* The access robot for every set of events, every configuration and every *)
(* number of retries.                                                      *)
(*                                                                         *)
(* Delivery: a request on the wire or at a plugin belongs to a forwarder   *)
(* that was started and is one of its MaxRetries + 1 attempts, so that     *)
(* what a plugin receives is bounded by the forwarders there are for it.   *)
(*                                                                         *)
(* Routing: Collected counts, for each endpoint, the listings the          *)
(* handler's two loops have left behind, Dispatched the forwarders of the  *)
(* endpoints its last loop has; at the end these are all there are.        *)
(***************************************************************************)
EXTENDS AccessRobot, FiniteSetTheorems, SequenceTheorems, TLAPS

\* Only a forwarder that has given up may have failed once more than it retries.
TriesLeft ==
  \A e \in Event : \A k \in Forwarder(e) :
    fwd[e][k].pc # "gaveUp" => fwd[e][k].attempts <= MaxRetries

TypeInv == Typed /\ TriesLeft

-----------------------------------------------------------------------------
(* What a step of a forwarder does *)

\* A forwarder's step replaces its own record and nothing else.
LEMMA Replaced ==
  ASSUME Typed, NEW e \in Event, NEW k \in Forwarder(e), NEW f \in ForwarderRecord,
         Becomes(e, k, f)
  PROVE  /\ fwd' \in [Event -> Seq(ForwarderRecord)]
         /\ \A x \in Event : Forwarder(x)' = Forwarder(x)
         /\ fwd'[e][k] = f
         /\ \A x \in Event : \A y \in Forwarder(x) :
              <<x, y>> # <<e, k>> => fwd'[x][y] = fwd[x][y]
<1>1. fwd' = [fwd EXCEPT ![e] = [fwd[e] EXCEPT ![k] = f]]
  BY DEF Becomes
<1>2. fwd[e] \in Seq(ForwarderRecord) /\ k \in 1 .. Len(fwd[e])
  BY DEF Typed, Forwarder
<1>3. [fwd[e] EXCEPT ![k] = f] \in Seq(ForwarderRecord)
  BY <1>2, ExceptSeq
<1> QED BY <1>1, <1>2, <1>3 DEF Typed, Forwarder

\* A failed attempt keeps its endpoint and forwards nothing.
LEMMA AfterErrorRetries ==
  ASSUME NEW f \in ForwarderRecord, f.attempts <= MaxRetries
  PROVE  /\ AfterError(f) \in ForwarderRecord
         /\ AfterError(f).to = f.to
         /\ AfterError(f).pc # "forwarded"
         /\ AfterError(f).pc # "gaveUp" => AfterError(f).attempts <= MaxRetries
<1> DEFINE n == f.attempts + 1
<1>1. n \in 0 .. MaxRetries + 1 /\ (f.attempts < MaxRetries => n <= MaxRetries)
  BY AccessAssumption DEF ForwarderRecord
<1>2. CASE f.attempts < MaxRetries
  <2>1. AfterError(f) = [f EXCEPT !.pc = "sleeping", !.attempts = n]
    BY <1>2 DEF AfterError
  <2> QED BY <1>1, <1>2, <2>1 DEF ForwarderRecord
<1>3. CASE ~(f.attempts < MaxRetries)
  <2>1. AfterError(f) = [f EXCEPT !.pc = "gaveUp", !.attempts = n]
    BY <1>3 DEF AfterError
  <2> QED BY <1>1, <2>1 DEF ForwarderRecord, Final
<1> QED BY <1>2, <1>3

\* What a forwarder's step may do: either it writes nothing and counts as forwarded only
\* on an answer to its last attempt, or it writes that attempt.
Quietly(e, k, f) ==
  /\ f.pc = "forwarded" => /\ f.attempts = fwd[e][k].attempts
                           /\ \E a \in answers : a.copy = Copy(e, k)
  /\ answers' \subseteq answers
  /\ UNCHANGED <<wire, received>>
Sending(e, k, f) ==
  /\ f.pc = "waiting"
  /\ wire' = wire \cup {Copy(e, k)}
  /\ Copy(e, k) \in Copies
  /\ UNCHANGED <<answers, received>>
Moves(e, k, f) ==
  /\ Becomes(e, k, f)
  /\ f.to = fwd[e][k].to
  /\ f.pc # "gaveUp" => f.attempts <= MaxRetries
  /\ Quietly(e, k, f) \/ Sending(e, k, f)
  /\ UNCHANGED <<serviceVars, inputs, handler>>

LEMMA ForwarderMoves ==
  ASSUME TypeInv, NEW e \in Event, NEW k \in Forwarder(e), ForwardStep(e, k)
  PROVE  \E f \in ForwarderRecord : Moves(e, k, f)
<1>1. /\ fwd[e][k] \in ForwarderRecord
      /\ fwd[e][k].pc # "gaveUp" => fwd[e][k].attempts <= MaxRetries
      /\ k \in Nat
  <2>1. fwd[e] \in Seq(ForwarderRecord) /\ k \in 1 .. Len(fwd[e])
    BY DEF TypeInv, Typed, Forwarder
  <2> QED BY <2>1, ElementOfSeq DEF TypeInv, TriesLeft
<1>2. ASSUME fwd[e][k].pc # "gaveUp", Becomes(e, k, AfterError(fwd[e][k])),
             answers' \subseteq answers, UNCHANGED <<serviceVars, inputs, handler, wire, received>>
      PROVE  Moves(e, k, AfterError(fwd[e][k])) /\ AfterError(fwd[e][k]) \in ForwarderRecord
  BY <1>1, <1>2, AfterErrorRetries DEF Moves, Quietly
<1>3. CASE AttemptUnsent(e, k)
  BY <1>2, <1>3 DEF AttemptUnsent, At, network
<1>4. CASE ConnectionBreaks(e, k)
  BY <1>2, <1>4 DEF ConnectionBreaks, At
<1>5. CASE Send(e, k)
  <2> DEFINE f == [fwd[e][k] EXCEPT !.pc = "waiting"]
  <2>1. f \in ForwarderRecord /\ f.to = fwd[e][k].to /\ f.attempts = fwd[e][k].attempts
        /\ f.pc = "waiting"
    BY <1>1 DEF ForwarderRecord
  <2>2. Copy(e, k) \in Copies
    BY <1>1, <1>5, AccessAssumption DEF Send, At, Copy, Copies, ForwarderRecord
  <2> QED BY <1>1, <1>5, <2>1, <2>2 DEF Send, At, Moves, Sending
<1>6. CASE Answered(e, k)
  <2>1. PICK a \in answers : /\ a.copy = Copy(e, k)
                             /\ answers' = answers \ {a}
                             /\ \/ Becomes(e, k, [fwd[e][k] EXCEPT !.pc = "forwarded"])
                                \/ Becomes(e, k, [fwd[e][k] EXCEPT !.pc = "refused"])
    BY <1>6 DEF Answered
  <2>2. PICK w \in Final : Becomes(e, k, [fwd[e][k] EXCEPT !.pc = w]) /\ w # "gaveUp"
    BY <2>1 DEF Final
  <2> DEFINE f == [fwd[e][k] EXCEPT !.pc = w]
  <2>3. f \in ForwarderRecord /\ f.to = fwd[e][k].to /\ f.attempts = fwd[e][k].attempts
    BY <1>1 DEF ForwarderRecord
  <2>4. Moves(e, k, f)
    BY <1>1, <1>6, <2>1, <2>2, <2>3 DEF Answered, At, Moves, Quietly
  <2> QED BY <2>3, <2>4
<1>7. CASE Wake(e, k)
  <2> DEFINE f == [fwd[e][k] EXCEPT !.pc = "ready"]
  <2>1. f \in ForwarderRecord /\ f.to = fwd[e][k].to /\ f.attempts = fwd[e][k].attempts
        /\ f.pc = "ready"
    BY <1>1 DEF ForwarderRecord
  <2> QED BY <1>1, <1>7, <2>1 DEF Wake, At, Moves, Quietly, network
<1> QED BY <1>3, <1>4, <1>5, <1>6, <1>7 DEF ForwardStep

-----------------------------------------------------------------------------
(* Types *)

LEMMA Started ==
  ASSUME NEW u \in Endpoints \ BadURL
  PROVE  NewForwarder(u) \in ForwarderRecord
BY AccessAssumption DEF NewForwarder, ForwarderRecord

LEMMA InitTypes == Init => TypeInv
<1> SUFFICES ASSUME Init PROVE TypeInv
  OBVIOUS
<1>1. \A e \in Event : endpoints[e] = <<>> /\ sent[e] = 0 /\ fwd[e] = <<>> /\ Forwarder(e) = {}
  BY DEF Init, Forwarder
<1>2. \A e \in Event : sent[e] <= Len(endpoints[e])
  BY <1>1
<1> QED BY <1>1, <1>2 DEF Init, Service!Init, TypeInv, Typed, TriesLeft

LEMMA ServiceTypes ==
  ASSUME Typed, ServiceStep
  PROVE  /\ status' \in [Event -> {"new", "accepted", "handled"}]
         /\ phase' \in {"serving", "draining", "drained", "aborted"}
         /\ owed' \subseteq Event
         /\ \A e \in Event : status'[e] = "handled" <=> status[e] = "handled"
         /\ UNCHANGED <<inputs, handler, fwd, network>>
<1> USE DEF Typed
<1>1. CASE \E e \in Event : Service!Accept(e)
  BY <1>1 DEF Service!Accept, ServiceStep
<1>2. CASE Service!BeginDrain
  BY <1>2 DEF Service!BeginDrain, ServiceStep
<1>3. CASE Service!EndDrain \/ Service!Abort
  BY <1>3 DEF Service!EndDrain, Service!Abort, ServiceStep
<1> QED BY <1>1, <1>2, <1>3 DEF ServiceStep

\* A step of the handler that starts a forwarder, and one that does not.
Starts(e, u) ==
  /\ u \in Endpoints \ BadURL
  /\ fwd' = [fwd EXCEPT ![e] = Append(@, NewForwarder(u))]

LEMMA Appended ==
  ASSUME Typed, NEW e \in Event, NEW u, Starts(e, u)
  PROVE  LET n == Len(fwd[e]) + 1 IN
         /\ fwd' \in [Event -> Seq(ForwarderRecord)]
         /\ n \in Nat /\ n \notin Forwarder(e)
         /\ Forwarder(e)' = Forwarder(e) \cup {n}
         /\ fwd'[e][n] = NewForwarder(u)
         /\ \A k \in Forwarder(e) : fwd'[e][k] = fwd[e][k]
         /\ \A x \in Event \ {e} : fwd'[x] = fwd[x] /\ Forwarder(x)' = Forwarder(x)
<1>1. fwd[e] \in Seq(ForwarderRecord) /\ NewForwarder(u) \in ForwarderRecord
  BY Started DEF Typed, Starts
<1>2. /\ Append(fwd[e], NewForwarder(u)) \in Seq(ForwarderRecord)
      /\ Len(Append(fwd[e], NewForwarder(u))) = Len(fwd[e]) + 1
      /\ \A i \in 1 .. Len(fwd[e]) : Append(fwd[e], NewForwarder(u))[i] = fwd[e][i]
      /\ Append(fwd[e], NewForwarder(u))[Len(fwd[e]) + 1] = NewForwarder(u)
  BY <1>1, AppendProperties
<1>3. /\ Forwarder(e) = 1 .. Len(fwd[e])
      /\ Len(fwd[e]) \in Nat
      /\ DOMAIN Append(fwd[e], NewForwarder(u)) = 1 .. Len(fwd[e]) + 1
  BY <1>1, <1>2, LenProperties DEF Forwarder
<1>4. fwd'[e] = Append(fwd[e], NewForwarder(u)) /\ \A x \in Event \ {e} : fwd'[x] = fwd[x]
  BY DEF Starts, Typed
<1>5. fwd' \in [Event -> Seq(ForwarderRecord)]
  BY <1>2 DEF Starts, Typed
<1> QED BY <1>2, <1>3, <1>4, <1>5 DEF Forwarder

LEMMA DispatchStarts ==
  ASSUME Typed, NEW e \in Event, Dispatch(e)
  PROVE  LET u == endpoints[e][sent[e] + 1] IN
         /\ sent[e] + 1 \in DOMAIN endpoints[e]
         /\ u \in Endpoints
         /\ \/ u \in BadURL /\ UNCHANGED fwd
            \/ u \notin BadURL /\ Starts(e, u)
<1>1. endpoints[e] \in Seq(Endpoints) /\ sent[e] \in Nat /\ sent[e] < Len(endpoints[e])
  BY DEF Typed, Dispatch
<1>2. sent[e] + 1 \in DOMAIN endpoints[e]
  BY <1>1
<1>3. endpoints[e][sent[e] + 1] \in Endpoints
  BY <1>1, <1>2
<1> QED BY <1>2, <1>3 DEF Dispatch, Starts

\* What MatchPlugin appends is an endpoint of the configuration.
LEMMA Matching ==
  ASSUME Typed, NEW e \in Event, MatchPlugin(e)
  PROVE  LET p == Plugins(e)[pluginAt[e]]
             t == Takes(p, Names(e)[nameAt[e]], hook[e].kind)
         IN
         /\ p.endpoint \in Endpoints
         /\ endpoints' \in [Event -> Seq(Endpoints)]
         /\ \A x \in Event \ {e} : endpoints'[x] = endpoints[x]
         /\ t => /\ Len(endpoints'[e]) = Len(endpoints[e]) + 1
                 /\ endpoints'[e][Len(endpoints[e]) + 1] = p.endpoint
                 /\ \A i \in 1 .. Len(endpoints[e]) : endpoints'[e][i] = endpoints[e][i]
         /\ ~t => endpoints' = endpoints
<1> DEFINE p == Plugins(e)[pluginAt[e]]
           t == Takes(p, Names(e)[nameAt[e]], hook[e].kind)
<1>1. p.endpoint \in Endpoints
  BY DEF MatchPlugin, Plugins, Typed, Endpoints
<1>2. endpoints[e] \in Seq(Endpoints) /\ endpoints \in [Event -> Seq(Endpoints)]
  BY DEF Typed
<1>3. endpoints' = IF t THEN [endpoints EXCEPT ![e] = Append(endpoints[e], p.endpoint)] ELSE endpoints
  BY DEF MatchPlugin
<1> HIDE DEF p, t
<1>4. /\ Append(endpoints[e], p.endpoint) \in Seq(Endpoints)
      /\ Len(Append(endpoints[e], p.endpoint)) = Len(endpoints[e]) + 1
      /\ \A i \in 1 .. Len(endpoints[e]) : Append(endpoints[e], p.endpoint)[i] = endpoints[e][i]
      /\ Append(endpoints[e], p.endpoint)[Len(endpoints[e]) + 1] = p.endpoint
  BY <1>1, <1>2, AppendProperties
<1>5. CASE t
  BY <1>1, <1>2, <1>3, <1>4, <1>5 DEF p, t
<1>6. CASE ~t
  BY <1>1, <1>2, <1>3, <1>6 DEF p, t
<1> QED BY <1>5, <1>6

LEMMA StepTypes == TypeInv /\ [Next]_vars => TypeInv'
<1> SUFFICES ASSUME TypeInv, [Next]_vars PROVE TypeInv'
  OBVIOUS
<1> USE DEF TypeInv
<1>1. CASE ServiceStep
  BY <1>1, ServiceTypes DEF Typed, TriesLeft, inputs, handler, network, Forwarder
<1>2. ASSUME NEW e \in Event, MatchPlugin(e) PROVE TypeInv'
  <2>1. /\ UNCHANGED <<serviceVars, inputs, nameAt, sent, fwd, network>>
        /\ pluginAt' \in [Event -> Nat \ {0}]
    BY <1>2 DEF MatchPlugin, Typed
  <2>2. endpoints' \in [Event -> Seq(Endpoints)]
    BY <1>2, Matching
  <2>3. \A x \in Event : Len(endpoints'[x]) >= Len(endpoints[x])
    <3>1. \A x \in Event : Len(endpoints[x]) \in Nat
      BY LenProperties DEF Typed
    <3>2. \A x \in Event \ {e} : endpoints'[x] = endpoints[x]
      BY <1>2, Matching
    <3>3. endpoints'[e] = endpoints[e] \/ Len(endpoints'[e]) = Len(endpoints[e]) + 1
      BY <1>2, Matching
    <3> QED BY <3>1, <3>2, <3>3
  <2>4. \A x \in Event : sent'[x] <= Len(endpoints'[x])
    BY <2>1, <2>2, <2>3, LenProperties DEF Typed
  <2> QED BY <2>1, <2>2, <2>4 DEF Typed, TriesLeft, serviceVars, inputs, network, Forwarder
<1>3. ASSUME NEW e \in Event, NextName(e) PROVE TypeInv'
  BY <1>3 DEF NextName, Typed, TriesLeft, serviceVars, inputs, network, Forwarder
<1>4. ASSUME NEW e \in Event, Dispatch(e) PROVE TypeInv'
  <2>1. UNCHANGED <<serviceVars, inputs, nameAt, pluginAt, endpoints, network>>
    BY <1>4 DEF Dispatch
  <2>2. sent' \in [Event -> Nat] /\ \A x \in Event : sent'[x] <= Len(endpoints'[x])
    BY <1>4, LenProperties DEF Dispatch, Typed
  <2>3. fwd' \in [Event -> Seq(ForwarderRecord)] /\ TriesLeft'
    <3>1. CASE UNCHANGED fwd
      BY <3>1 DEF Typed, TriesLeft, Forwarder
    <3>2. ASSUME NEW u, Starts(e, u)
          PROVE  fwd' \in [Event -> Seq(ForwarderRecord)] /\ TriesLeft'
      <4>1. NewForwarder(u).pc = "ready" /\ NewForwarder(u).attempts = 0 /\ 0 <= MaxRetries
        BY AccessAssumption DEF NewForwarder
      <4> QED BY <3>2, <4>1, Appended DEF TriesLeft
    <3> QED BY <1>4, <3>1, <3>2, DispatchStarts
  <2> QED BY <2>1, <2>2, <2>3 DEF Typed, serviceVars, inputs, network
<1>5. ASSUME NEW e \in Event, HandlerReturn(e) PROVE TypeInv'
  BY <1>5 DEF HandlerReturn, Service!Handle, Typed, TriesLeft, inputs, handler, network, Forwarder
<1>6. ASSUME NEW e \in Event, NEW k \in Forwarder(e), ForwardStep(e, k) PROVE TypeInv'
  <2>1. PICK f \in ForwarderRecord : Moves(e, k, f)
    BY <1>6, ForwarderMoves
  <2>2. fwd' \in [Event -> Seq(ForwarderRecord)] /\ TriesLeft'
    BY <2>1, Replaced DEF Moves, TriesLeft
  <2>3. wire' \subseteq Copies /\ answers' \subseteq [copy : Copies, ok : BOOLEAN] /\ received' \subseteq Copies
    BY <2>1 DEF Moves, Quietly, Sending, Typed
  <2> QED BY <2>1, <2>2, <2>3 DEF Moves, Typed, serviceVars, inputs, handler
<1>7. ASSUME NEW m \in wire, NEW ok \in BOOLEAN, Receive(m, ok) PROVE TypeInv'
  BY <1>7 DEF Receive, Typed, TriesLeft, serviceVars, inputs, handler, Forwarder
<1>8. CASE UNCHANGED vars
  BY <1>8 DEF vars, Typed, TriesLeft, serviceVars, inputs, handler, network, Forwarder
<1> QED BY <1>1, <1>2, <1>3, <1>4, <1>5, <1>6, <1>7, <1>8 DEF Next, Ended, HandleAccessEvent

-----------------------------------------------------------------------------
(* Delivery *)

Requests == wire \cup received

\* A request comes from a forwarder that was started.
FromForwarders == \A m \in Requests : m.event \in Event /\ m.fwd \in Forwarder(m.event)

\* An answer is to a request that was received.
Answering == \A a \in answers : a.copy \in received

DeliveryInv == FromForwarders /\ Answering /\ ForwardedWasReceived

LEMMA InitDelivery == Init => DeliveryInv
BY DEF Init, DeliveryInv, Forwarder, FromForwarders, Requests, Answering, ForwardedWasReceived

\* A step that changes no forwarder and nothing on the network.
LEMMA SameForwarders ==
  ASSUME DeliveryInv, UNCHANGED <<fwd, network>>
  PROVE  DeliveryInv'
<1>1. Requests' = Requests /\ answers' = answers /\ received' = received
  BY DEF Requests, network
<1> QED BY <1>1 DEF DeliveryInv, FromForwarders, Answering, ForwardedWasReceived, Forwarder, Copy

\* A new forwarder has neither sent its payload nor been answered.
LEMMA StartDelivers ==
  ASSUME Typed, DeliveryInv, NEW e \in Event, NEW u, Starts(e, u), UNCHANGED network
  PROVE  DeliveryInv'
<1> DEFINE n == Len(fwd[e]) + 1
<1>1. /\ \A x \in Event : Forwarder(x) \subseteq Forwarder(x)'
      /\ \A x \in Event : \A k \in Forwarder(x) : fwd'[x][k] = fwd[x][k]
      /\ \A x \in Event : \A k \in Forwarder(x)' : k \in Forwarder(x) \/ <<x, k>> = <<e, n>>
      /\ fwd'[e][n].pc = "ready"
  <2>1. NewForwarder(u).pc = "ready"
    BY DEF NewForwarder
  <2> QED BY <2>1, Appended
<1> HIDE DEF n
<1>2. UNCHANGED <<wire, answers, received, Requests>>
  BY DEF network, Requests
<1>3. FromForwarders' /\ Answering'
  BY <1>1, <1>2 DEF DeliveryInv, FromForwarders, Answering
<1>4. ForwardedWasReceived'
  <2> SUFFICES ASSUME NEW x \in Event, NEW k \in Forwarder(x)', fwd'[x][k].pc = "forwarded"
               PROVE  Copy(x, k)' \in received
    BY <1>2 DEF ForwardedWasReceived
  <2>1. k \in Forwarder(x) /\ fwd'[x][k] = fwd[x][k]
    BY <1>1
  <2>2. Copy(x, k)' = Copy(x, k)
    BY <2>1 DEF Copy
  <2> QED BY <2>1, <2>2 DEF DeliveryInv, ForwardedWasReceived
<1> QED BY <1>3, <1>4 DEF DeliveryInv

LEMMA ForwarderDelivers ==
  ASSUME TypeInv, DeliveryInv, NEW e \in Event, NEW k \in Forwarder(e), ForwardStep(e, k)
  PROVE  DeliveryInv'
<1>1. PICK f \in ForwarderRecord : Moves(e, k, f)
  BY ForwarderMoves
<1>2. /\ \A x \in Event : Forwarder(x)' = Forwarder(x)
      /\ fwd'[e][k] = f
      /\ \A x \in Event : \A y \in Forwarder(x) : <<x, y>> # <<e, k>> => fwd'[x][y] = fwd[x][y]
  BY <1>1, Replaced DEF TypeInv, Moves
<1>3. received' = received /\ answers' \subseteq answers /\ Requests' \subseteq Requests \cup {Copy(e, k)}
  BY <1>1 DEF Moves, Quietly, Sending, Requests
<1>4. FromForwarders'
  <2>1. Copy(e, k).event = e /\ Copy(e, k).fwd = k
    BY DEF Copy
  <2> QED BY <1>2, <1>3, <2>1 DEF DeliveryInv, FromForwarders
<1>5. Answering'
  BY <1>3 DEF DeliveryInv, Answering
<1>6. ForwardedWasReceived'
  <2> SUFFICES ASSUME NEW x \in Event, NEW y \in Forwarder(x), fwd'[x][y].pc = "forwarded"
               PROVE  Copy(x, y)' \in received
    BY <1>2, <1>3 DEF ForwardedWasReceived
  <2>1. CASE <<x, y>> # <<e, k>>
    <3>1. fwd'[x][y] = fwd[x][y]
      BY <1>2, <2>1
    <3>2. Copy(x, y)' = Copy(x, y)
      BY <3>1 DEF Copy
    <3> QED BY <3>1, <3>2 DEF DeliveryInv, ForwardedWasReceived
  <2>2. CASE x = e /\ y = k
    <3>1. f.pc = "forwarded"
      BY <1>2, <2>2
    <3>2. f.attempts = fwd[e][k].attempts /\ \E a \in answers : a.copy = Copy(e, k)
      BY <1>1, <3>1 DEF Moves, Quietly, Sending
    <3>3. Copy(x, y)' = Copy(e, k)
      BY <1>2, <2>2, <3>2 DEF Copy
    <3> QED BY <3>2, <3>3 DEF DeliveryInv, Answering
  <2> QED BY <2>1, <2>2
<1> QED BY <1>4, <1>5, <1>6 DEF DeliveryInv

LEMMA StepDelivers == TypeInv /\ DeliveryInv /\ [Next]_vars => DeliveryInv'
<1> SUFFICES ASSUME TypeInv, DeliveryInv, [Next]_vars PROVE DeliveryInv'
  OBVIOUS
<1>1. CASE ServiceStep
  BY <1>1, ServiceTypes, SameForwarders DEF TypeInv
<1>2. ASSUME NEW e \in Event, MatchPlugin(e) \/ NextName(e) \/ HandlerReturn(e)
      PROVE  DeliveryInv'
  BY <1>2, SameForwarders DEF MatchPlugin, NextName, HandlerReturn
<1>3. ASSUME NEW e \in Event, Dispatch(e) PROVE DeliveryInv'
  <2>1. UNCHANGED network
    BY <1>3 DEF Dispatch
  <2>2. UNCHANGED fwd \/ \E u : Starts(e, u)
    BY <1>3, DispatchStarts DEF TypeInv
  <2> QED BY <2>1, <2>2, StartDelivers, SameForwarders DEF TypeInv
<1>4. ASSUME NEW e \in Event, NEW k \in Forwarder(e), ForwardStep(e, k) PROVE DeliveryInv'
  BY <1>4, ForwarderDelivers
<1>5. ASSUME NEW m \in wire, NEW ok \in BOOLEAN, Receive(m, ok) PROVE DeliveryInv'
  <2>1. /\ Requests' = Requests
        /\ received \subseteq received' /\ m \in received'
        /\ answers' \subseteq answers \cup {[copy |-> m, ok |-> ok]}
        /\ UNCHANGED fwd
    BY <1>5 DEF Receive, Requests
  <2>2. FromForwarders' /\ Answering'
    BY <2>1 DEF DeliveryInv, FromForwarders, Answering, Forwarder
  <2>3. ForwardedWasReceived'
    BY <2>1 DEF DeliveryInv, ForwardedWasReceived, Forwarder, Copy
  <2> QED BY <2>2, <2>3 DEF DeliveryInv
<1>6. CASE UNCHANGED vars
  BY <1>6, SameForwarders DEF vars
<1> QED BY <1>1, <1>2, <1>3, <1>4, <1>5, <1>6 DEF Next, Ended, HandleAccessEvent

LEMMA DeliveryInvariant == Spec => []DeliveryInv
<1> QED BY InitTypes, StepTypes, InitDelivery, StepDelivers, PTL DEF Spec

\* What a forwarder takes for success is a plugin having received the event.
THEOREM ForwardedWasReceivedHolds == Spec => []ForwardedWasReceived
<1>1. DeliveryInv => ForwardedWasReceived
  BY DEF DeliveryInv
<1> QED BY <1>1, DeliveryInvariant, PTL

-----------------------------------------------------------------------------
(* Routing: the listings and the places of the handler's loops *)

OfOrg(e) == ListedAt(given[e], hook[e].org)
OfRepo(e) == ListedAt(given[e], hook[e].repo)

LEMMA NamesShape ==
  ASSUME Typed, NEW e \in Event
  PROVE  /\ Len(OfOrg(e)) \in Nat /\ DOMAIN OfOrg(e) = 1 .. Len(OfOrg(e))
         /\ Len(OfRepo(e)) \in Nat /\ DOMAIN OfRepo(e) = 1 .. Len(OfRepo(e))
         /\ Len(Plugins(e)) \in Nat /\ DOMAIN Plugins(e) = 1 .. Len(Plugins(e))
         /\ Len(Names(e)) = Len(OfOrg(e)) + Len(OfRepo(e))
         /\ DOMAIN Names(e) = 1 .. Len(Names(e))
         /\ \A i \in DOMAIN OfOrg(e) : Names(e)[i] = OfOrg(e)[i]
         /\ \A i \in DOMAIN OfRepo(e) : Names(e)[Len(OfOrg(e)) + i] = OfRepo(e)[i]
         /\ hook[e].org # hook[e].repo
<1> DEFINE S == ToSet(OfOrg(e)) \cup ToSet(OfRepo(e))
<1>1. given[e] \in Candidates /\ hook[e] \in Hooks
  BY DEF Typed
<1>2. ASSUME NEW key
      PROVE  ListedAt(given[e], key) \in Seq(ToSet(ListedAt(given[e], key)))
  <2>1. CASE key \in DOMAIN given[e].repoPlugins
    BY <1>1, <2>1, AccessAssumption DEF ListedAt, IsSequence
  <2>2. CASE key \notin DOMAIN given[e].repoPlugins
    BY <2>2 DEF ListedAt
  <2> QED BY <2>1, <2>2
<1>3. OfOrg(e) \in Seq(S)
  BY <1>2, SeqMonotonic DEF OfOrg
<1>4. OfRepo(e) \in Seq(S)
  BY <1>2, SeqMonotonic DEF OfRepo
<1>5. Names(e) = OfOrg(e) \o OfRepo(e)
  BY DEF Names, RobotNames, OfOrg, OfRepo
<1> HIDE DEF S
<1>6. /\ Names(e) \in Seq(S)
      /\ Len(Names(e)) = Len(OfOrg(e)) + Len(OfRepo(e))
      /\ \A i \in 1 .. Len(OfOrg(e)) + Len(OfRepo(e)) :
           Names(e)[i] = IF i <= Len(OfOrg(e)) THEN OfOrg(e)[i] ELSE OfRepo(e)[i - Len(OfOrg(e))]
  BY <1>3, <1>4, <1>5, ConcatProperties
<1>7. /\ Len(OfOrg(e)) \in Nat /\ DOMAIN OfOrg(e) = 1 .. Len(OfOrg(e))
      /\ Len(OfRepo(e)) \in Nat /\ DOMAIN OfRepo(e) = 1 .. Len(OfRepo(e))
      /\ DOMAIN Names(e) = 1 .. Len(Names(e))
  BY <1>3, <1>4, <1>6, LenProperties
<1>8. \A i \in DOMAIN OfOrg(e) : Names(e)[i] = OfOrg(e)[i]
  BY <1>6, <1>7
<1>9. \A i \in DOMAIN OfRepo(e) : Names(e)[Len(OfOrg(e)) + i] = OfRepo(e)[i]
  <2> SUFFICES ASSUME NEW i \in DOMAIN OfRepo(e) PROVE Names(e)[Len(OfOrg(e)) + i] = OfRepo(e)[i]
    OBVIOUS
  <2>1. /\ Len(OfOrg(e)) + i \in 1 .. Len(OfOrg(e)) + Len(OfRepo(e))
        /\ ~(Len(OfOrg(e)) + i <= Len(OfOrg(e)))
        /\ (Len(OfOrg(e)) + i) - Len(OfOrg(e)) = i
    BY <1>7
  <2> QED BY <1>6, <2>1
<1>10. Len(Plugins(e)) \in Nat /\ DOMAIN Plugins(e) = 1 .. Len(Plugins(e))
  <2>1. Plugins(e) \in Seq(ToSet(Plugins(e)))
    BY <1>1, AccessAssumption DEF Plugins, IsSequence
  <2> QED BY <2>1, LenProperties
<1> QED BY <1>1, <1>6, <1>7, <1>8, <1>9, <1>10, AccessAssumption

\* A loop's place moves on only from within its list, and the inner one starts again.
LEMMA StepInside == Typed /\ LoopsInside /\ [Next]_vars => LoopsInside'
<1> SUFFICES ASSUME Typed, LoopsInside, [Next]_vars, NEW x \in Event
             PROVE  /\ nameAt'[x] \in 1 .. Len(Names(x)') + 1
                    /\ pluginAt'[x] \in 1 .. Len(Plugins(x)') + 1
  BY DEF LoopsInside
<1>1. /\ nameAt[x] \in 1 .. Len(Names(x)) + 1 /\ pluginAt[x] \in 1 .. Len(Plugins(x)) + 1
      /\ Len(Names(x)) \in Nat /\ Len(Plugins(x)) \in Nat
      /\ DOMAIN Names(x) = 1 .. Len(Names(x)) /\ DOMAIN Plugins(x) = 1 .. Len(Plugins(x))
  BY NamesShape DEF LoopsInside
<1>2. UNCHANGED inputs
  BY DEF Next, ServiceStep, HandleAccessEvent, MatchPlugin, NextName, Dispatch, HandlerReturn,
         ForwardStep, AttemptUnsent, Send, ConnectionBreaks, Answered, Wake, Receive, Ended, vars
<1>3. Names(x)' = Names(x) /\ Plugins(x)' = Plugins(x)
  BY <1>2 DEF inputs, Names, Plugins
<1>4. CASE UNCHANGED <<nameAt, pluginAt>>
  BY <1>1, <1>3, <1>4
<1>5. ASSUME NEW e \in Event, MatchPlugin(e) PROVE pluginAt'[x] \in 1 .. Len(Plugins(x)) + 1 /\ UNCHANGED nameAt
  <2>1. pluginAt'[x] = IF x = e THEN pluginAt[e] + 1 ELSE pluginAt[x]
    BY <1>5 DEF MatchPlugin, Typed
  <2> QED BY <1>1, <1>5, <2>1 DEF MatchPlugin
<1>6. ASSUME NEW e \in Event, NextName(e)
      PROVE  nameAt'[x] \in 1 .. Len(Names(x)) + 1 /\ pluginAt'[x] \in 1 .. Len(Plugins(x)) + 1
  <2>1. /\ nameAt'[x] = IF x = e THEN nameAt[e] + 1 ELSE nameAt[x]
        /\ pluginAt'[x] = IF x = e THEN 1 ELSE pluginAt[x]
    BY <1>6 DEF NextName, Typed
  <2> QED BY <1>1, <1>6, <2>1 DEF NextName
<1>7. ASSUME ~\E e \in Event : MatchPlugin(e) \/ NextName(e) PROVE UNCHANGED <<nameAt, pluginAt>>
  BY <1>7 DEF Next, ServiceStep, HandleAccessEvent, Dispatch, HandlerReturn, ForwardStep, AttemptUnsent,
              Send, ConnectionBreaks, Answered, Wake, Receive, Ended, vars, handler
<1> QED BY <1>1, <1>3, <1>4, <1>5, <1>6, <1>7

\* However the configuration lists its plugins and however often a forwarder retries, the
\* handler's loops stay within their lists and an attempt is one of MaxRetries + 1.
THEOREM TypeCorrect == Spec => []TypeOK
<1>1. Init => LoopsInside
  <2> SUFFICES ASSUME Init, Typed, NEW e \in Event
               PROVE  nameAt[e] \in 1 .. Len(Names(e)) + 1 /\ pluginAt[e] \in 1 .. Len(Plugins(e)) + 1
    BY InitTypes DEF TypeInv, LoopsInside
  <2> QED BY NamesShape DEF Init
<1>2. TypeInv /\ LoopsInside => TypeOK
  BY DEF TypeInv, TypeOK
<1>3. TypeInv => Typed
  BY DEF TypeInv
<1> QED BY <1>1, <1>2, <1>3, InitTypes, StepTypes, StepInside, PTL DEF Spec

\* Where the loops deal with a listing, and the listing they deal with at a place.
Triples(e) ==
  UNION {{key} \X (DOMAIN ListedAt(given[e], key)) \X (DOMAIN Plugins(e)) : key \in {hook[e].org, hook[e].repo}}
Place(e, x) == IF x[1] = hook[e].org THEN x[2] ELSE Len(OfOrg(e)) + x[2]
TripleAt(e, n, q) ==
  IF n <= Len(OfOrg(e)) THEN <<hook[e].org, n, q>> ELSE <<hook[e].repo, n - Len(OfOrg(e)), q>>

\* Every place of the loops is that of one listed name and one plugin ...
LEMMA PlaceOfTriple ==
  ASSUME Typed, NEW e \in Event, NEW n \in DOMAIN Names(e), NEW q \in DOMAIN Plugins(e)
  PROVE  LET x == TripleAt(e, n, q) IN
         /\ x \in Triples(e)
         /\ Place(e, x) = n
         /\ x[3] = q
         /\ ListedAt(given[e], x[1])[x[2]] = Names(e)[n]
<1> DEFINE x == TripleAt(e, n, q)
<1>1. n \in 1 .. Len(OfOrg(e)) + Len(OfRepo(e)) /\ Len(OfOrg(e)) \in Nat /\ Len(OfRepo(e)) \in Nat
  BY NamesShape
<1>2. CASE n <= Len(OfOrg(e))
  <2>1. x = <<hook[e].org, n, q>>
    BY <1>2 DEF TripleAt
  <2>2. n \in DOMAIN OfOrg(e)
    BY <1>1, <1>2, NamesShape
  <2>3. x \in {hook[e].org} \X (DOMAIN ListedAt(given[e], hook[e].org)) \X (DOMAIN Plugins(e))
    BY <2>1, <2>2 DEF OfOrg
  <2>4. x \in Triples(e)
    BY <2>3 DEF Triples
  <2>5. Place(e, x) = n /\ x[3] = q
    BY <2>1 DEF Place
  <2>6. ListedAt(given[e], x[1])[x[2]] = Names(e)[n]
    BY <2>1, <2>2, NamesShape DEF OfOrg
  <2> QED BY <2>4, <2>5, <2>6
<1>3. CASE ~(n <= Len(OfOrg(e)))
  <2> DEFINE m == n - Len(OfOrg(e))
  <2>1. x = <<hook[e].repo, m, q>>
    BY <1>3 DEF TripleAt
  <2>2. m \in DOMAIN OfRepo(e) /\ Len(OfOrg(e)) + m = n
    BY <1>1, <1>3, NamesShape
  <2> HIDE DEF m
  <2>3. x \in {hook[e].repo} \X (DOMAIN ListedAt(given[e], hook[e].repo)) \X (DOMAIN Plugins(e))
    BY <2>1, <2>2 DEF OfRepo
  <2>4. x \in Triples(e)
    BY <2>3 DEF Triples
  <2>5. Place(e, x) = n /\ x[3] = q
    BY <2>1, <2>2, NamesShape DEF Place
  <2>6. ListedAt(given[e], x[1])[x[2]] = Names(e)[n]
    BY <2>1, <2>2, NamesShape DEF OfRepo
  <2> QED BY <2>4, <2>5, <2>6
<1> QED BY <1>2, <1>3

\* ... and no two have the same.
LEMMA TripleOfPlace ==
  ASSUME Typed, NEW e \in Event, NEW x \in Triples(e)
  PROVE  /\ Place(e, x) \in DOMAIN Names(e)
         /\ x[3] \in DOMAIN Plugins(e)
         /\ x = TripleAt(e, Place(e, x), x[3])
<1>1. PICK key \in {hook[e].org, hook[e].repo} :
        x \in {key} \X (DOMAIN ListedAt(given[e], key)) \X (DOMAIN Plugins(e))
  BY DEF Triples
<1>2. PICK i \in DOMAIN ListedAt(given[e], key), q \in DOMAIN Plugins(e) : x = <<key, i, q>>
  BY <1>1
<1>3. CASE key = hook[e].org
  <2>1. i \in 1 .. Len(OfOrg(e)) /\ Place(e, x) = i
    BY <1>2, <1>3, NamesShape DEF OfOrg, Place
  <2>2. i \in DOMAIN Names(e)
    BY <2>1, NamesShape
  <2> QED BY <1>2, <1>3, <2>1, <2>2 DEF TripleAt
<1>4. CASE key = hook[e].repo
  <2>1. i \in 1 .. Len(OfRepo(e)) /\ Place(e, x) = Len(OfOrg(e)) + i
    BY <1>2, <1>4, NamesShape DEF OfRepo, Place
  <2>2. /\ Len(OfOrg(e)) + i \in DOMAIN Names(e)
        /\ ~(Len(OfOrg(e)) + i <= Len(OfOrg(e)))
        /\ (Len(OfOrg(e)) + i) - Len(OfOrg(e)) = i
    BY <2>1, NamesShape
  <2> QED BY <1>2, <1>4, <2>1, <2>2 DEF TripleAt
<1> QED BY <1>3, <1>4

-----------------------------------------------------------------------------
(* Routing: counting *)

Passed(e, x) ==
  \/ Place(e, x) < nameAt[e]
  \/ Place(e, x) = nameAt[e] /\ x[3] < pluginAt[e]

\* The listings the loops have left behind, the endpoints collected for them, those of
\* them dealt with, and the forwarders started.
Found(e, u) == {x \in Listings(e, u) : Passed(e, x)}
Coll(e, u) == {i \in DOMAIN endpoints[e] : endpoints[e][i] = u}
Done(e, u) == {i \in 1 .. sent[e] : endpoints[e][i] = u}
Fwds(e, u) == {k \in Forwarder(e) : fwd[e][k].to = u}

Collected ==
  \A e \in Event, u \in Endpoints :
    IsFiniteSet(Found(e, u)) /\ Cardinality(Coll(e, u)) = Cardinality(Found(e, u))
Dispatched ==
  \A e \in Event, u \in Endpoints \ BadURL : Cardinality(Fwds(e, u)) = Cardinality(Done(e, u))
Complete ==
  \A e \in Event : status[e] = "handled" => Matched(e) /\ sent[e] = Len(endpoints[e])

RoutingInv == Collected /\ Dispatched /\ Complete

LEMMA ListingsAreTriples ==
  ASSUME NEW e \in Event, NEW u
  PROVE  Listings(e, u) = {x \in Triples(e) :
           /\ Takes(Plugins(e)[x[3]], ListedAt(given[e], x[1])[x[2]], hook[e].kind)
           /\ Plugins(e)[x[3]].endpoint = u}
<1>1. \A p : (\E n \in DOMAIN p.events : p.events[n] = hook[e].kind) <=> hook[e].kind \in ToSet(p.events)
  BY DEF ToSet
<1> QED BY <1>1 DEF Listings, Triples, Takes, Plugins

LEMMA Finite ==
  ASSUME Typed, NEW e \in Event, NEW u
  PROVE  IsFiniteSet(Coll(e, u)) /\ IsFiniteSet(Done(e, u)) /\ IsFiniteSet(Fwds(e, u))
<1>1. /\ DOMAIN endpoints[e] = 1 .. Len(endpoints[e]) /\ Len(endpoints[e]) \in Nat
      /\ Forwarder(e) = 1 .. Len(fwd[e]) /\ Len(fwd[e]) \in Nat
      /\ sent[e] \in Nat
  BY LenProperties DEF Typed, Forwarder
<1>2. ASSUME NEW n \in Nat, NEW S \in SUBSET (1 .. n) PROVE IsFiniteSet(S)
  <2>1. IsFiniteSet(1 .. n)
    BY FS_Interval
  <2> QED BY <2>1, FS_Subset
<1> QED BY <1>1, <1>2 DEF Coll, Done, Fwds

LEMMA InitRoutes == Init => RoutingInv
<1> SUFFICES ASSUME Init, Typed PROVE RoutingInv
  BY InitTypes DEF TypeInv
<1>1. ASSUME NEW e \in Event, NEW u
      PROVE  Found(e, u) = {} /\ Coll(e, u) = {} /\ Done(e, u) = {} /\ Fwds(e, u) = {}
  <2>1. nameAt[e] = 1 /\ pluginAt[e] = 1 /\ endpoints[e] = <<>> /\ sent[e] = 0 /\ Forwarder(e) = {}
    BY DEF Init, Forwarder
  <2>2. ASSUME NEW x \in Triples(e) PROVE ~Passed(e, x)
    <3>1. Place(e, x) \in Nat \ {0} /\ x[3] \in Nat \ {0}
      BY TripleOfPlace, NamesShape
    <3> QED BY <2>1, <3>1 DEF Passed
  <2> QED BY <2>1, <2>2, ListingsAreTriples DEF Found, Coll, Done, Fwds
<1>2. Complete
  BY DEF Init, Service!Init, Complete
<1> QED BY <1>1, <1>2, FS_EmptySet DEF RoutingInv, Collected, Dispatched

\* A plugin is compared with a name: if it takes the event, its endpoint is collected and
\* the listing is one more that the loops have left behind.
LEMMA MatchCounts ==
  ASSUME Typed, RoutingInv, NEW e \in Event, MatchPlugin(e), NEW u \in Endpoints
  PROVE  IsFiniteSet(Found(e, u)') /\ Cardinality(Coll(e, u)') = Cardinality(Found(e, u)')
<1> DEFINE n == nameAt[e]
           q == pluginAt[e]
           p == Plugins(e)[q]
           t == Takes(p, Names(e)[n], hook[e].kind)
           x == TripleAt(e, n, q)
           j == Len(endpoints[e]) + 1
<1>1. /\ n \in DOMAIN Names(e) /\ n \in Nat /\ q \in DOMAIN Plugins(e) /\ q \in Nat
      /\ UNCHANGED <<given, hook>>
      /\ nameAt'[e] = n /\ pluginAt'[e] = q + 1
  BY DEF MatchPlugin, Typed, inputs
<1>2. /\ x \in Triples(e) /\ Place(e, x) = n /\ x[3] = q
      /\ ListedAt(given[e], x[1])[x[2]] = Names(e)[n]
  BY <1>1, PlaceOfTriple
<1>3. x \in Listings(e, u) <=> t /\ p.endpoint = u
  BY <1>2, ListingsAreTriples
<1>4. ASSUME NEW y \in Triples(e)
      PROVE  Passed(e, y)' <=> Passed(e, y) \/ y = x
  <2>1. /\ Place(e, y) \in Nat /\ y[3] \in Nat
        /\ y = TripleAt(e, Place(e, y), y[3])
    BY TripleOfPlace, NamesShape
  <2>2. y = x <=> Place(e, y) = n /\ y[3] = q
    BY <1>2, <2>1
  <2>3. Place(e, y)' = Place(e, y)
    BY <1>1 DEF Place, OfOrg
  <2> HIDE DEF x
  <2> QED BY <1>1, <2>1, <2>2, <2>3 DEF Passed
<1>5. x \notin Found(e, u)
  BY <1>1, <1>2 DEF Found, Passed
<1>6. Listings(e, u)' = Listings(e, u) /\ Listings(e, u) \subseteq Triples(e)
  BY <1>1, ListingsAreTriples DEF Listings
<1>7. Found(e, u)' = IF t /\ p.endpoint = u THEN Found(e, u) \cup {x} ELSE Found(e, u)
  <2> HIDE DEF x, t, p
  <2> QED BY <1>3, <1>4, <1>6 DEF Found
<1>8. /\ DOMAIN endpoints[e] = 1 .. Len(endpoints[e]) /\ Len(endpoints[e]) \in Nat
      /\ DOMAIN endpoints'[e] = 1 .. Len(endpoints'[e])
  <2>1. endpoints[e] \in Seq(Endpoints) /\ endpoints'[e] \in Seq(Endpoints)
    BY Matching DEF Typed
  <2> QED BY <2>1, LenProperties
<1>9. j \notin Coll(e, u) /\ Coll(e, u)' = IF t /\ p.endpoint = u THEN Coll(e, u) \cup {j} ELSE Coll(e, u)
  <2>1. CASE t
    <3>1. /\ DOMAIN endpoints'[e] = DOMAIN endpoints[e] \cup {j}
          /\ j \notin DOMAIN endpoints[e]
          /\ endpoints'[e][j] = p.endpoint
          /\ \A i \in DOMAIN endpoints[e] : endpoints'[e][i] = endpoints[e][i]
      BY <1>8, <2>1, Matching
    <3> HIDE DEF t, p, j
    <3> QED BY <2>1, <3>1 DEF Coll
  <2>2. CASE ~t
    <3>1. endpoints' = endpoints /\ j \notin DOMAIN endpoints[e]
      BY <1>8, <2>2, Matching
    <3> HIDE DEF t, p, j
    <3> QED BY <2>2, <3>1 DEF Coll
  <2> QED BY <2>1, <2>2
<1>10. /\ IsFiniteSet(Found(e, u)) /\ IsFiniteSet(Coll(e, u))
       /\ Cardinality(Coll(e, u)) = Cardinality(Found(e, u))
  BY Finite DEF RoutingInv, Collected
<1> HIDE DEF t, p, j, x
<1>11. /\ IsFiniteSet(Found(e, u) \cup {x})
       /\ Cardinality(Found(e, u) \cup {x}) = Cardinality(Found(e, u)) + 1
       /\ Cardinality(Coll(e, u) \cup {j}) = Cardinality(Coll(e, u)) + 1
  BY <1>5, <1>9, <1>10, FS_AddElement
<1> QED BY <1>7, <1>9, <1>10, <1>11

\* Going on to the next name leaves no listing behind that was not, and misses none.
LEMMA NextNameCounts ==
  ASSUME Typed, NEW e \in Event, NextName(e), NEW u
  PROVE  Found(e, u)' = Found(e, u)
<1>1. /\ UNCHANGED <<given, hook>>
      /\ nameAt[e] \in Nat /\ pluginAt[e] \in Nat /\ pluginAt[e] > Len(Plugins(e))
      /\ nameAt'[e] = nameAt[e] + 1 /\ pluginAt'[e] = 1
  BY DEF NextName, Typed, inputs
<1>2. Listings(e, u)' = Listings(e, u) /\ Listings(e, u) \subseteq Triples(e)
  BY <1>1, ListingsAreTriples DEF Listings
<1>3. ASSUME NEW y \in Triples(e)
      PROVE  Passed(e, y)' <=> Passed(e, y)
  <2>1. Place(e, y) \in Nat /\ y[3] \in 1 .. Len(Plugins(e)) /\ Len(Plugins(e)) \in Nat
    BY TripleOfPlace, NamesShape
  <2>2. Place(e, y)' = Place(e, y)
    BY <1>1 DEF Place, OfOrg
  <2> QED BY <1>1, <2>1, <2>2 DEF Passed
<1> QED BY <1>2, <1>3 DEF Found

\* An endpoint is dealt with: there is a forwarder more for it, unless it is no URL.
LEMMA DispatchCounts ==
  ASSUME Typed, RoutingInv, NEW e \in Event, Dispatch(e), NEW u \in Endpoints \ BadURL
  PROVE  Cardinality(Fwds(e, u)') = Cardinality(Done(e, u)')
<1> DEFINE j == sent[e] + 1
           v == endpoints[e][j]
           n == Len(fwd[e]) + 1
<1>1. /\ sent[e] \in Nat /\ sent'[e] = j /\ endpoints' = endpoints
      /\ v \in Endpoints
      /\ \/ v \in BadURL /\ UNCHANGED fwd
         \/ v \notin BadURL /\ Starts(e, v)
  BY DispatchStarts DEF Dispatch, Typed
<1>2. j \notin Done(e, u) /\ Done(e, u)' = IF v = u THEN Done(e, u) \cup {j} ELSE Done(e, u)
  <2>1. 1 .. j = (1 .. sent[e]) \cup {j} /\ j \notin 1 .. sent[e]
    BY <1>1
  <2>2. sent'[e] = j /\ endpoints' = endpoints /\ v = endpoints[e][j]
    BY <1>1
  <2> HIDE DEF j, v
  <2> QED BY <2>1, <2>2 DEF Done
<1>3. n \notin Fwds(e, u) /\ Fwds(e, u)' = IF v = u THEN Fwds(e, u) \cup {n} ELSE Fwds(e, u)
  <2>1. CASE Starts(e, v)
    <3>1. /\ n \notin Forwarder(e)
          /\ Forwarder(e)' = Forwarder(e) \cup {n}
          /\ fwd'[e][n] = NewForwarder(v)
          /\ \A k \in Forwarder(e) : fwd'[e][k] = fwd[e][k]
      BY <2>1, Appended
    <3>2. NewForwarder(v).to = v
      BY DEF NewForwarder
    <3> HIDE DEF n, v
    <3> QED BY <3>1, <3>2 DEF Fwds
  <2>2. CASE v \in BadURL /\ UNCHANGED fwd
    <3>1. n \notin Forwarder(e)
      BY LenProperties DEF Typed, Forwarder
    <3> QED BY <2>2, <3>1 DEF Fwds, Forwarder
  <2> QED BY <1>1, <2>1, <2>2
<1>4. /\ IsFiniteSet(Fwds(e, u)) /\ IsFiniteSet(Done(e, u))
      /\ Cardinality(Fwds(e, u)) = Cardinality(Done(e, u))
  BY Finite DEF RoutingInv, Dispatched
<1> HIDE DEF j, v, n
<1>5. /\ Cardinality(Fwds(e, u) \cup {n}) = Cardinality(Fwds(e, u)) + 1
      /\ Cardinality(Done(e, u) \cup {j}) = Cardinality(Done(e, u)) + 1
  BY <1>2, <1>3, <1>4, FS_AddElement
<1> QED BY <1>2, <1>3, <1>4, <1>5

\* Nothing else counts: neither the service, nor what forwarders do, nor the network.
SameLoops(x) ==
  /\ given'[x] = given[x] /\ hook'[x] = hook[x]
  /\ nameAt'[x] = nameAt[x] /\ pluginAt'[x] = pluginAt[x]
  /\ endpoints'[x] = endpoints[x] /\ sent'[x] = sent[x]
SameTargets(x) ==
  Forwarder(x)' = Forwarder(x) /\ \A k \in Forwarder(x) : fwd'[x][k].to = fwd[x][k].to

LEMMA SameFound ==
  ASSUME NEW x \in Event, NEW u, SameLoops(x)
  PROVE  Found(x, u)' = Found(x, u) /\ Coll(x, u)' = Coll(x, u) /\ Done(x, u)' = Done(x, u)
<1>1. Listings(x, u)' = Listings(x, u) /\ \A y : Passed(x, y)' <=> Passed(x, y)
  BY DEF SameLoops, Listings, Passed, Place, OfOrg
<1> QED BY <1>1 DEF SameLoops, Found, Coll, Done

LEMMA SameFwds ==
  ASSUME NEW x \in Event, NEW u, SameTargets(x)
  PROVE  Fwds(x, u)' = Fwds(x, u)
BY DEF SameTargets, Fwds

LEMMA Uncounted ==
  ASSUME RoutingInv, \A x \in Event : SameLoops(x) /\ SameTargets(x)
  PROVE  Collected' /\ Dispatched'
<1>1. Endpoints' = Endpoints
  BY DEF Endpoints
<1>2. Collected'
  BY <1>1, SameFound DEF RoutingInv, Collected
<1>3. Dispatched'
  BY <1>1, SameFound, SameFwds DEF RoutingInv, Dispatched
<1> QED BY <1>2, <1>3

\* A handler that has returned has left all its loops, and does not enter them again.
LEMMA StaysComplete ==
  ASSUME Typed, RoutingInv, [Next]_vars
  PROVE  Complete'
<1> SUFFICES ASSUME NEW x \in Event, status'[x] = "handled"
             PROVE  Matched(x)' /\ sent'[x] = Len(endpoints'[x])
  BY DEF Complete
<1> USE DEF RoutingInv, Complete
<1>1. ASSUME status[x] = "handled", SameLoops(x)
      PROVE  Matched(x)' /\ sent'[x] = Len(endpoints'[x])
  BY <1>1 DEF Matched, Names, SameLoops
<1>2. CASE ServiceStep
  BY <1>1, <1>2, ServiceTypes DEF SameLoops, inputs, handler
<1>3. ASSUME NEW e \in Event, MatchPlugin(e) \/ NextName(e) \/ Dispatch(e)
      PROVE  Matched(x)' /\ sent'[x] = Len(endpoints'[x])
  <2>1. status'[x] = status[x] /\ status[e] = "accepted"
    BY <1>3 DEF MatchPlugin, NextName, Dispatch, Handling, serviceVars
  <2>2. x # e
    BY <2>1
  <2>3. SameLoops(x)
    BY <1>3, <2>2 DEF MatchPlugin, NextName, Dispatch, SameLoops, Typed, inputs
  <2> QED BY <1>1, <2>1, <2>3
<1>4. ASSUME NEW e \in Event, HandlerReturn(e)
      PROVE  Matched(x)' /\ sent'[x] = Len(endpoints'[x])
  <2>1. SameLoops(x)
    BY <1>4 DEF HandlerReturn, SameLoops, inputs, handler
  <2>2. CASE x = e
    BY <1>4, <2>1, <2>2 DEF HandlerReturn, Matched, Names, SameLoops
  <2>3. CASE x # e
    BY <1>1, <1>4, <2>1, <2>3 DEF HandlerReturn, Service!Handle, Typed
  <2> QED BY <2>2, <2>3
<1>5. ASSUME UNCHANGED <<serviceVars, inputs, handler>>
      PROVE  Matched(x)' /\ sent'[x] = Len(endpoints'[x])
  BY <1>1, <1>5 DEF SameLoops, serviceVars, inputs, handler
<1>6. ASSUME NEW e \in Event, NEW k \in Forwarder(e), ForwardStep(e, k)
      PROVE  UNCHANGED <<serviceVars, inputs, handler>>
  BY <1>6 DEF ForwardStep, AttemptUnsent, Send, ConnectionBreaks, Answered, Wake
<1>7. ASSUME NEW m \in wire, NEW ok \in BOOLEAN, Receive(m, ok)
      PROVE  UNCHANGED <<serviceVars, inputs, handler>>
  BY <1>7 DEF Receive
<1>8. CASE UNCHANGED vars
  BY <1>5, <1>8 DEF vars
<1> QED BY <1>2, <1>3, <1>4, <1>5, <1>6, <1>7, <1>8 DEF Next, Ended, HandleAccessEvent

LEMMA StepRoutes == TypeInv /\ RoutingInv /\ [Next]_vars => RoutingInv'
<1> SUFFICES ASSUME TypeInv, RoutingInv, [Next]_vars PROVE Collected' /\ Dispatched'
  BY StaysComplete DEF RoutingInv, TypeInv
<1>0. Typed /\ Endpoints' = Endpoints
  BY DEF TypeInv, Endpoints
<1>1. ASSUME UNCHANGED <<inputs, handler, fwd>> PROVE Collected' /\ Dispatched'
  BY <1>1, Uncounted DEF SameLoops, SameTargets, Forwarder, inputs, handler
<1>2. CASE ServiceStep
  BY <1>1, <1>2 DEF ServiceStep
<1>3. ASSUME NEW e \in Event, MatchPlugin(e) PROVE Collected' /\ Dispatched'
  <2>1. \A x \in Event : SameTargets(x)
    BY <1>3 DEF MatchPlugin, SameTargets, Forwarder
  <2>2. \A x \in Event \ {e} : SameLoops(x)
    BY <1>0, <1>3, Matching DEF MatchPlugin, SameLoops, Typed, inputs
  <2>3. Collected'
    BY <1>0, <1>3, <2>2, MatchCounts, SameFound DEF RoutingInv, Collected
  <2>4. ASSUME NEW u PROVE Done(e, u)' = Done(e, u)
    <3>1. sent' = sent /\ sent[e] \in Nat /\ sent[e] <= Len(endpoints[e]) /\ Len(endpoints[e]) \in Nat
      BY <1>0, <1>3, LenProperties DEF MatchPlugin, Typed
    <3>2. \A i \in 1 .. Len(endpoints[e]) : endpoints'[e][i] = endpoints[e][i]
      BY <1>0, <1>3, Matching
    <3> QED BY <3>1, <3>2 DEF Done
  <2>5. Dispatched'
    BY <1>0, <2>1, <2>2, <2>4, SameFound, SameFwds DEF RoutingInv, Dispatched
  <2> QED BY <2>3, <2>5
<1>4. ASSUME NEW e \in Event, NextName(e) PROVE Collected' /\ Dispatched'
  <2>1. \A x \in Event : SameTargets(x)
    BY <1>4 DEF NextName, SameTargets, Forwarder
  <2>2. \A x \in Event \ {e} : SameLoops(x)
    BY <1>0, <1>4 DEF NextName, SameLoops, Typed, inputs
  <2>3. ASSUME NEW u PROVE Coll(e, u)' = Coll(e, u) /\ Done(e, u)' = Done(e, u)
    BY <1>4 DEF NextName, Coll, Done
  <2>4. Collected'
    BY <1>0, <1>4, <2>2, <2>3, NextNameCounts, SameFound DEF RoutingInv, Collected
  <2>5. Dispatched'
    BY <1>0, <2>1, <2>2, <2>3, SameFound, SameFwds DEF RoutingInv, Dispatched
  <2> QED BY <2>4, <2>5
<1>5. ASSUME NEW e \in Event, Dispatch(e) PROVE Collected' /\ Dispatched'
  <2>1. \A x \in Event \ {e} : SameLoops(x)
    BY <1>0, <1>5 DEF Dispatch, SameLoops, Typed, inputs
  <2>2. \A x \in Event \ {e} : SameTargets(x)
    BY <1>0, <1>5, DispatchStarts, Appended DEF SameTargets, Forwarder
  <2>3. ASSUME NEW u PROVE Found(e, u)' = Found(e, u) /\ Coll(e, u)' = Coll(e, u)
    <3>1. UNCHANGED <<given, hook, nameAt, pluginAt, endpoints>>
      BY <1>5 DEF Dispatch, inputs
    <3>2. Listings(e, u)' = Listings(e, u) /\ \A y : Passed(e, y)' <=> Passed(e, y)
      BY <3>1 DEF Listings, Passed, Place, OfOrg
    <3> QED BY <3>1, <3>2 DEF Found, Coll
  <2>4. Collected'
    BY <1>0, <2>1, <2>3, SameFound DEF RoutingInv, Collected
  <2>5. Dispatched'
    BY <1>0, <1>5, <2>1, <2>2, DispatchCounts, SameFound, SameFwds DEF RoutingInv, Dispatched
  <2> QED BY <2>4, <2>5
<1>6. ASSUME NEW e \in Event, HandlerReturn(e) PROVE Collected' /\ Dispatched'
  BY <1>1, <1>6 DEF HandlerReturn
<1>7. ASSUME NEW e \in Event, NEW k \in Forwarder(e), ForwardStep(e, k) PROVE Collected' /\ Dispatched'
  <2>1. PICK f \in ForwarderRecord : Moves(e, k, f)
    BY <1>7, ForwarderMoves
  <2>2. \A x \in Event : SameTargets(x)
    BY <1>0, <2>1, Replaced DEF Moves, SameTargets
  <2>3. \A x \in Event : SameLoops(x)
    BY <2>1 DEF Moves, SameLoops, inputs, handler
  <2> QED BY <2>2, <2>3, Uncounted
<1>8. ASSUME NEW m \in wire, NEW ok \in BOOLEAN, Receive(m, ok) PROVE Collected' /\ Dispatched'
  BY <1>1, <1>8 DEF Receive
<1>9. CASE UNCHANGED vars
  BY <1>1, <1>9 DEF vars
<1> QED BY <1>2, <1>3, <1>4, <1>5, <1>6, <1>7, <1>8, <1>9 DEF Next, Ended, HandleAccessEvent

LEMMA RoutingInvariant == Spec => [](TypeInv /\ RoutingInv)
<1> QED BY InitTypes, StepTypes, InitRoutes, StepRoutes, PTL DEF Spec

\* At the end every listing is behind the loops and every endpoint dealt with.
LEMMA AllFound ==
  ASSUME Typed, RoutingInv, NEW e \in Event, status[e] = "handled", NEW u
  PROVE  Found(e, u) = Listings(e, u) /\ Done(e, u) = Coll(e, u)
<1>1. nameAt[e] > Len(Names(e)) /\ sent[e] = Len(endpoints[e])
  BY DEF RoutingInv, Complete, Matched
<1>2. \A x \in Triples(e) : Passed(e, x)
  BY <1>1, TripleOfPlace, NamesShape DEF Passed, Typed
<1>3. Found(e, u) = Listings(e, u)
  BY <1>2, ListingsAreTriples DEF Found
<1>4. DOMAIN endpoints[e] = 1 .. Len(endpoints[e])
  BY LenProperties DEF Typed
<1>5. Done(e, u) = Coll(e, u)
  BY <1>1, <1>4 DEF Done, Coll
<1> QED BY <1>3, <1>5

LEMMA InvRoutes == TypeInv /\ RoutingInv => RoutedAsListed
<1> SUFFICES ASSUME Typed, RoutingInv, NEW e \in Event, status[e] = "handled",
                    NEW u \in Endpoints \ BadURL
             PROVE  Cardinality(Fwds(e, u)) = Cardinality(Listings(e, u))
  BY DEF TypeInv, RoutedAsListed, Fwds
<1> QED BY AllFound DEF RoutingInv, Collected, Dispatched

\* For every configuration and every event, each plugin's endpoint is sent the event once
\* for each place it is listed at for the event's organization or repository, and no other is.
THEOREM RoutedAsListedHolds == Spec => []RoutedAsListed
<1> QED BY InvRoutes, RoutingInvariant, PTL

\* The configuration an event is handled with is one that validate accepted.
Validated == \A e \in Event : Validate(given[e])

LEMMA StaysValidated ==
  /\ Init => Validated
  /\ TypeInv /\ Validated /\ [Next]_vars => Validated'
<1>1. Init => Validated
  BY DEF Init, Validated
<1>2. ASSUME TypeInv, Validated, [Next]_vars PROVE Validated'
  <2>1. UNCHANGED given
    BY <1>2 DEF Next, ServiceStep, HandleAccessEvent, MatchPlugin, NextName, Dispatch, HandlerReturn,
                ForwardStep, AttemptUnsent, Send, ConnectionBreaks, Answered, Wake, Receive,
                Ended, vars, inputs
  <2> QED BY <1>2, <2>1 DEF Validated
<1> QED BY <1>1, <1>2

LEMMA NamedPlugin ==
  ASSUME Validated, NEW e \in Event, NEW key, NEW n \in ToSet(ListedAt(given[e], key))
  PROVE  \E q \in DOMAIN Plugins(e) : Plugins(e)[q].name = n
<1>1. key \in DOMAIN given[e].repoPlugins /\ n \in ToSet(given[e].repoPlugins[key])
  BY DEF ListedAt, ToSet
<1>2. n \in PluginNames(given[e])
  BY <1>1 DEF Validated, Validate
<1> QED BY <1>2 DEF PluginNames, Plugins

\* Every name listed for an event's organization or repository reaches the plugin of that
\* name: validate has seen to it that there is one, and the loops that it is not missed.
THEOREM NoNameDroppedHolds == Spec => []NoNameDropped
<1>1. TypeInv /\ RoutingInv /\ Validated => NoNameDropped
  <2> SUFFICES ASSUME TypeInv, RoutingInv, Validated, NEW e \in Event, status[e] = "handled",
                      NEW n \in ToSet(RobotNames(given[e], hook[e]))
               PROVE  \E q \in DOMAIN Plugins(e) :
                        LET p == Plugins(e)[q] IN
                        /\ p.name = n
                        /\ \/ hook[e].kind \notin ToSet(p.events)
                           \/ p.endpoint \in BadURL
                           \/ \E k \in Forwarder(e) : fwd[e][k].to = p.endpoint
    BY DEF NoNameDropped, Plugins
  <2>0. Typed
    BY DEF TypeInv
  <2>1. PICK i \in DOMAIN Names(e) : n = Names(e)[i]
    BY DEF ToSet, Names
  <2>2. PICK q \in DOMAIN Plugins(e) : Plugins(e)[q].name = n
    <3>1. CASE i <= Len(OfOrg(e))
      <4>1. n \in ToSet(OfOrg(e))
        BY <2>0, <2>1, <3>1, NamesShape DEF ToSet
      <4> QED BY <4>1, NamedPlugin DEF OfOrg
    <3>2. CASE ~(i <= Len(OfOrg(e)))
      <4>1. i - Len(OfOrg(e)) \in DOMAIN OfRepo(e) /\ Len(OfOrg(e)) + (i - Len(OfOrg(e))) = i
        BY <2>0, <3>2, NamesShape
      <4>2. n = OfRepo(e)[i - Len(OfOrg(e))]
        BY <2>0, <2>1, <4>1, NamesShape
      <4>3. n \in ToSet(OfRepo(e))
        BY <4>1, <4>2 DEF ToSet
      <4> QED BY <4>3, NamedPlugin DEF OfRepo
    <3> QED BY <3>1, <3>2
  <2> DEFINE p == Plugins(e)[q]
  <2>3. SUFFICES ASSUME hook[e].kind \in ToSet(p.events), p.endpoint \notin BadURL
                 PROVE  \E k \in Forwarder(e) : fwd[e][k].to = p.endpoint
    BY <2>2
  <2>4. p.endpoint \in Endpoints \ BadURL
    BY <2>0, <2>3 DEF Plugins, Typed, Endpoints
  <2>5. TripleAt(e, i, q) \in Listings(e, p.endpoint)
    BY <2>0, <2>1, <2>2, <2>3, PlaceOfTriple, ListingsAreTriples DEF Takes
  <2>6. /\ IsFiniteSet(Listings(e, p.endpoint))
        /\ Cardinality(Fwds(e, p.endpoint)) = Cardinality(Listings(e, p.endpoint))
    BY <2>0, <2>4, AllFound DEF RoutingInv, Collected, Dispatched
  <2>7. Cardinality(Listings(e, p.endpoint)) # 0
    BY <2>5, <2>6, FS_EmptySet
  <2>8. IsFiniteSet(Fwds(e, p.endpoint)) /\ Fwds(e, p.endpoint) # {}
    BY <2>0, <2>6, <2>7, Finite, FS_EmptySet
  <2> QED BY <2>8 DEF Fwds
<1> QED BY <1>1, RoutingInvariant, StaysValidated, PTL DEF Spec

-----------------------------------------------------------------------------
(* End to end: from the configuration to the plugins *)

\* A listing is one of a name and a plugin, and there are finitely many of those.
LEMMA ListingsFinite ==
  ASSUME Typed, NEW e \in Event, NEW u
  PROVE  IsFiniteSet(Listings(e, u))
<1> DEFINE P == (DOMAIN Names(e)) \X (DOMAIN Plugins(e))
           at == [x \in Listings(e, u) |-> <<Place(e, x), x[3]>>]
<1>1. IsFiniteSet(P)
  <2>1. IsFiniteSet(DOMAIN Names(e)) /\ IsFiniteSet(DOMAIN Plugins(e))
    BY NamesShape, FS_Interval
  <2> QED BY <2>1, FS_Product
<1>2. ASSUME NEW x \in Listings(e, u)
      PROVE  /\ <<Place(e, x), x[3]>> \in P
             /\ x = TripleAt(e, Place(e, x), x[3])
  BY <1>2, ListingsAreTriples, TripleOfPlace
<1>3. at \in Injection(Listings(e, u), P)
  <2>1. at \in [Listings(e, u) -> P]
    BY <1>2
  <2>2. ASSUME NEW x \in Listings(e, u), NEW y \in Listings(e, u), at[x] = at[y] PROVE x = y
    <3>1. Place(e, x) = Place(e, y) /\ x[3] = y[3]
      BY <2>2
    <3> QED BY <1>2, <3>1
  <2> QED BY <2>1, <2>2 DEF Injection, IsInjective
<1> QED BY <1>1, <1>3, FS_Injection

\* A plugin receives at most one request for each attempt of each forwarder.
LEMMA ReceiptsOfForwarders ==
  ASSUME Typed, DeliveryInv, NEW e \in Event, NEW u
  PROVE  /\ IsFiniteSet(Receipts(e, u))
         /\ Cardinality(Receipts(e, u)) <= Cardinality(Fwds(e, u)) * (MaxRetries + 1)
<1> DEFINE P == Fwds(e, u) \X (0 .. MaxRetries)
           from == [m \in Receipts(e, u) |-> <<m.fwd, m.attempt>>]
<1>1. ASSUME NEW m \in Receipts(e, u)
      PROVE  m \in Copies /\ m.event = e /\ <<m.fwd, m.attempt>> \in P
  <2>1. m \in Requests /\ m \in Copies /\ m.event = e /\ fwd[e][m.fwd].to = u
    BY <1>1 DEF Receipts, Requests, Typed
  <2>2. m.fwd \in Fwds(e, u) /\ m.attempt \in 0 .. MaxRetries
    BY <2>1 DEF DeliveryInv, FromForwarders, Fwds, Copies
  <2> QED BY <2>1, <2>2
<1>2. from \in Injection(Receipts(e, u), P)
  <2>1. from \in [Receipts(e, u) -> P]
    BY <1>1
  <2>2. ASSUME NEW m \in Receipts(e, u), NEW n \in Receipts(e, u), from[m] = from[n] PROVE m = n
    <3>1. m \in Copies /\ n \in Copies /\ m.event = n.event
      BY <1>1
    <3>2. m.fwd = n.fwd /\ m.attempt = n.attempt
      BY <2>2
    <3> QED BY <3>1, <3>2 DEF Copies
  <2> QED BY <2>1, <2>2 DEF Injection, IsInjective
<1>3. /\ IsFiniteSet(0 .. MaxRetries) /\ Cardinality(0 .. MaxRetries) = MaxRetries + 1
      /\ IsFiniteSet(Fwds(e, u))
  <2>1. MaxRetries \in Nat /\ 0 <= MaxRetries /\ MaxRetries - 0 + 1 = MaxRetries + 1
    BY AccessAssumption
  <2> QED BY <2>1, FS_Interval, Finite
<1>4. IsFiniteSet(P) /\ Cardinality(P) = Cardinality(Fwds(e, u)) * (MaxRetries + 1)
  BY <1>3, FS_Product
<1> HIDE DEF P, from
<1> QED BY <1>2, <1>4, FS_Injection

\* The promise of the access robot as a whole: however its handlers, forwarders, retries and
\* the network fall together, a plugin receives an event at most MaxRetries + 1 times for
\* each place its configuration lists it at, and never if there is none.
THEOREM ReceivedAsListedHolds == Spec => []ReceivedAsListed
<1>1. TypeInv /\ DeliveryInv /\ RoutingInv => ReceivedAsListed
  <2> SUFFICES ASSUME Typed, DeliveryInv, RoutingInv, NEW e \in Event, NEW u \in Endpoints \ BadURL
               PROVE  Cardinality(Receipts(e, u)) <= (MaxRetries + 1) * Cardinality(Listings(e, u))
    BY DEF TypeInv, ReceivedAsListed
  <2> DEFINE r == Cardinality(Receipts(e, u))
             f == Cardinality(Fwds(e, u))
             d == Cardinality(Done(e, u))
             c == Cardinality(Coll(e, u))
             l == Cardinality(Listings(e, u))
  <2>1. IsFiniteSet(Receipts(e, u)) /\ r <= f * (MaxRetries + 1)
    BY ReceiptsOfForwarders
  <2>2. f = d
    BY DEF RoutingInv, Dispatched
  <2>3. d <= c
    <3>1. Done(e, u) \subseteq Coll(e, u)
      BY LenProperties DEF Typed, Done, Coll
    <3> QED BY <3>1, Finite, FS_Subset
  <2>4. c <= l
    <3>1. c = Cardinality(Found(e, u))
      BY DEF RoutingInv, Collected
    <3>2. Found(e, u) \subseteq Listings(e, u)
      BY DEF Found
    <3> QED BY <3>1, <3>2, ListingsFinite, FS_Subset
  <2>5. r \in Nat /\ f \in Nat /\ d \in Nat /\ c \in Nat /\ l \in Nat /\ MaxRetries + 1 \in Nat
    BY <2>1, Finite, ListingsFinite, FS_CardinalityType, AccessAssumption
  <2> HIDE DEF r, f, d, c, l
  <2>6. f <= l
    BY <2>2, <2>3, <2>4, <2>5
  <2>7. \A i, j, n \in Nat : i <= j => i * n <= n * j
    OBVIOUS
  <2>8. f * (MaxRetries + 1) <= (MaxRetries + 1) * l
    BY <2>5, <2>6, <2>7
  <2>9. f * (MaxRetries + 1) \in Nat /\ (MaxRetries + 1) * l \in Nat
    BY <2>5
  <2>10. r <= (MaxRetries + 1) * l
    BY <2>1, <2>5, <2>8, <2>9
  <2> QED BY <2>10 DEF r, l
<1> QED BY <1>1, DeliveryInvariant, RoutingInvariant, PTL
=============================================================================
