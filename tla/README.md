# TLA+ specifications of the atomgit-bot robots

This directory holds formal models of the robots in this repository, the configurations
that model-check them with TLC, and theorems about them that the TLA+ proof system checks.
It is meant to be read beside the Go code: `PROJECT.json` ("map") gives for every
definition the lines it stands for.

    tlc -config MCConfigAgent.cfg MCConfigAgent     # model-check one configuration
    tlapm ConfigAgentProofs.tla                     # check one module's proofs

Contents: [the system](#1-the-system), [modules](#2-the-modules-and-the-code),
[runs](#3-what-each-run-checks), [fairness](#4-fairness), [proofs](#5-what-is-proved),
[findings](#6-where-the-code-and-its-comments-disagree),
[limits](#7-abstractions-and-limits), [what is left](#8-what-is-not-modelled).

## 1. The system

Every robot is one process built around `community-robot-lib/robot-atomgit-framework`. The
**access robot** receives the webhooks of the platform and forwards each to the robots
("plugins") configured for its repository; the others (CLA, label, review, welcome) receive
those forwards and answer with calls to the platform's API.

    platform --webhook--> access robot --HTTP--> CLA | label | review | welcome robot
        ^                                                   |
        +---------------- labels, comments, merge ----------+

### Components

| component | state it keeps | operations | correct if |
|---|---|---|---|
| configuration agent (`config/config_agent.go`, `utils/timer.go`) | parsed configuration and its md5 sum; the timer's two channels | load, Start, Stop, GetConfig | only a validated configuration is served, with its own digest; a valid edit is served in the end; silence after Stop; Stop returns |
| service and dispatcher (`robot-atomgit-framework`) | a WaitGroup of running handlers | Run, ServeHTTP, parseRequest, Dispatch, handle*Event, Wait | an accepted event is handled once; draining waits for what was accepted before it |
| interrupts manager (`interrupts/interrupts.go`) | `seenSignal`, a WaitGroup of workers | OnInterrupt, ListenAndServe, WaitForGracefulShutdown | a signal ends the process, cleanly only after its workers |
| access robot (`robot-atomgit-access`) | a WaitGroup of forwarders; shares the configuration's slices with every handler | handleAccessEvent, GetEndpoints, matchEndpoint, forwardTo, do | each plugin is sent an event as often as it is listed, and receives it no more often than that and the retries allow; forwarders come to rest |
| repository filter (`config/repo_filter.go`) | none (one loop) | CanApply, Validate, Find | the best item wins; an exclusion holds |
| CLA robot (`robot-atomgit-cla`) | none; works on the pull request's labels and comments | handle, getPRCommitsAbout, deleteSignGuide | one cla label, the right one; one guide at most; thanks only if all signed |
| label robot (`robot-atomgit-label`) | none; works on the repository's and the item's labels | handleLabelsByComment, filterAddLabels, filterRemoveLabels, clearLabelCaseByPRCodeUpdate, handleSquashLabel | new labels only by collaborators; a comment's asks are met or answered; the squash label tells the number of commits |
| review robot (`robot-atomgit-openeuler-review`) | none; labels, comments, operation log, merge | handleFlow, LGTM/approve, clearLabel, genMergeMethod, tryMerge/canMerge | a merge only with legal, current labels |
| welcome robot (`robot-atomgit-openeuler-welcome`) | none | handle, genComment, createLabelIfNeed | one greeting with the right signature group |
| secret agent (`secret`) | secrets by path, one timer, modification time and count of skips per file | Start, Add, Stop, load | a replaced secret is served in the end, after a bounded number of loads |
| message queue (`mq`, `kafka`) | connection, producers, subscriptions | Connect, Publish, Subscribe, ConsumeClaim | a message is acknowledged only once handled |
| REST client (`go-atomgit/atomgit/atomgit.go`) | `rateLimits` by category, `secondaryRateLimitReset` | BareDo, checkRateLimitBeforeDo, checkSecondaryRateLimitBeforeDo, sleepUntilResetWithBuffer | who may still send under a limit the client was told of; one retry at most |
| calls (`atomgitclient`, `utils/httpclient.go`) | a token | one call per method, retries of `do` | bounded retries |

Not the program's own core: the rest of `src/go-atomgit` (a fork of a third-party REST
binding: one stateless method per REST operation, and generated accessors), the gitee, github and gitlab frameworks and clients (earlier siblings no robot here uses),
templates, logging, flag parsing, and the signature cache (a stateless proxy).

### Where it is hard

* **Goroutines.** One for each handler, for each forwarder, for the timer, the server,
  the shutdown of the server and the drain. They share WaitGroups, the published
  configuration, and, through it, the slices inside the configuration.
* **Shutdown.** Requests keep arriving while the process drains; the workers are counted
  by hand; a grace period ends the wait.
* **Network.** Forwards are delayed, cut off, answered after the sender gave up; retries
  use one request object, whose body net/http may rewind. API calls fail one at a time and most failures are only logged.
* **Stale data.** A handler decides from the labels in its event's payload, from commits
  fetched earlier, from answers it keeps, from the configuration of the moment it started;
  a client from the limits of the answer that arrived last; the secret agent from a
  modification time that says less than the file.

`PROJECT.json` lists these hazards line by line, with the properties aimed at each.

## 2. The modules and the code

    ConfigAgent ----INSTANCE---> RobotService ----refines---> EventDelivery
                                                                   ^
    EventSort (matchEndpoint's race)      AccessRobot --INSTANCE---+
    RepoFilter      ClaRobot      LabelRobot      SecretAgent      RateLimit

The second row is what runs inside a handler (RepoFilter, ClaRobot, LabelRobot), behind a
handler's calls (RateLimit), or beside the service (SecretAgent). They meet the service only
where a handler starts and ends, so each is checked by itself.

**ConfigAgent** - `ConfigAgent` and `timer`. `confFile` is the file, edited by anybody at any
moment; `conf` and `md5Sum` are the pair `load` publishes under its lock. `load` is two
steps, since the file may change between the read and the rest; `agent` is the place of
the goroutine that loads (Start's caller, then the timer's), `stop` the place of `Stop`.
A text is a model value that can be read or not and is valid or not; the md5 sum and the
parser are taken to be injective.

**RobotService** - `framework.Run`, the dispatcher, the interrupts manager and the HTTP
server as one process. Each goroutine has a variable for its place: `main`, `onInt` (the
work of `OnInterrupt`: stop the agent, then `dispatcher.Wait`), `srv`, `shut`, `conn[r]`
(ServeHTTP of a request), `job[r]` (its handler goroutine). `mgrWg` and `dWg` are the two
WaitGroups; `Wait` is in the steps the Go runtime takes (look at the counter, sleep, be
released by the last Done, look again and panic if the group was reused). `late` is a
history variable: requests dispatched after `Wait` looked. The ConfigAgent is
instantiated in it with its own variables, so its steps interleave with everything else.
What `parseRequest` and `Dispatch` tell apart in a request is a record (`Message`).

**EventDelivery** - the abstract promise: accepted events are handled once; a drain
handles what had been accepted when it began; an aborted service promises nothing.

**AccessRobot** - the robot on top of EventDelivery's variables. A handler takes the steps of
`handleAccessEvent`: `MatchPlugin` and `NextName` are the two loops of `matchEndpoint` over the
names `GetEndpoints` gathers (`nameAt`, `pluginAt`, `endpoints`), `Dispatch` is one turn of the loop
that starts a forwarder for an endpoint (`sent`), `HandlerReturn` is EventDelivery's `Handle`. The
forwarders `fwd[e]`, each with its place and its failed attempts, run while their
handler is still starting others, and after it has returned. `wire`, `answers` and `received` are
the network and the plugins. Attempts share a request whose body the first transmission consumes; a
retry on a new connection then fails with nothing written (`AttemptUnsent`), while on a reused one net/http
rewinds the body (`http.NewRequest` sets `GetBody` for a `bytes.Buffer`) and sends it all again, so
`Send` is possible in every attempt. A copy may stay on the `wire` for ever, or arrive after its attempt was
given up. `Init` gives an event a configuration that `Validate` accepts.

**EventSort** - the race inside `matchEndpoint`: the insertion sort that `sort.Strings` is
for short slices, a swap in its three accesses, and the binary search, by any number of
handlers on one slice.

**RepoFilter** - `CanApply` and the loop of `Find`, one step for an iteration.

**ClaRobot** - handlers of one pull request's events (`pc[h]`), one step for every API
call, with the platform's state (`commits`, `labels`, `guides`, `thanks`), the CLA service
(`signed`), and the contributor who pushes and signs in between. `seen[h]` are the labels
in the payload: those of the moment of sending. `quiet` is a history variable for
the handlers that nothing has disturbed.

**LabelRobot** - handlers of one pull request's events (`pc[h]`), one step for every API call.
`repo` and `pr` are the platform's labels of the repository and of the pull request;
`payload[h]` are the labels the event carried, which is all the robot ever knows of the pull
request's; `todo[h]` and `unknown[h]` are the lists `filterRemoveLabels` and
`checkLabelsToAdd` compute, worked off one label at a time. `Fold` is `strings.ToLower`;
`Origin` and `Spellings` are `labelSet`, which compares without case and keeps one spelling of
each name. People edit the labels at any moment (`Edit`), a call may fail (`Fails`). `told`,
`lost` and `touched` are history variables: the names the reply complains of, those a failed
call was about, those somebody else changed since the event.

**SecretAgent** - one file of the agent: `value`, `mtime` and `access` are the file, replaced at
any moment by one of any modification time; `lastModTime`, `skips` and `served` are the agent's.
`Look` is the stat in `load` (with its early returns), `Read` the read that follows, so a
replacement falls between them. `quiet` counts the loads since the last change.

**RateLimit** - `BareDo` of concurrent calls on one client: `rate` is `rateLimits[category]`,
`secondary` is `secondaryRateLimitReset`; `pc[c]` goes through the primary check, the secondary
check, the request, the answer under way (`sent`, `answered`), the bookkeeping (`read`) and the
sleep. Calls in `Bypassing` are those of `RateLimitService.Get`: they skip both checks, are not
counted by the platform, and record the limits their answer lists once more (`resources`). `told` (how
long the last limit lasts that the client was told of), `early` (the calls that had looked at the limits
before) and `misled` (the answer of one of those, or of a bypassing call, has been recorded since)
are history variables. `Serve` is the platform with its window (`remaining`, `reset`), `UseUp` other programs
with the same token, `ServeBadly` a secondary limit or a gateway that sends no rate headers.
An instant is the number of ticks until it, so the clock has no bound.

Modules named `MC...` give the constants finite values; `...Proofs` hold the theorems.
Definitions marked "Mutant" are wrong variants of the definition below them: no behaviour uses
them, they show that each property notices the mistake it is there for.

## 3. What each run checks

| run | instance | checks | shows |
|---|---|---|---|
| MCConfigAgent | two valid texts, a refused one, a missing file, edits at will | TypeOK, PublishedIsValid, NoPublishAfterStop, Converges, StopTerminates | all the agent's promises, with edits between the read and the rest of a load. Two valid texts make an edit and its reversal possible |
| MCRobotService | two requests, each of three outcomes (handled, refused, panicking handler), a good and a refused file | TypeOK, WgCountsHandlers, DrainBarrier, CleanExit, ImplementsEventDelivery, SignalEndsProcess, DispatchedIsHandled | what the drain and a clean exit do guarantee; the refinement of EventDelivery; a signal ends the process even if handlers hang; if handlers return, dispatched events are handled. One request before and one after the drain's look at the counter is the interesting case, so two suffice |
| MCRobotServiceAbandoned | two requests that are handled | NoHandlerAbandoned: **violated** | see section 6 |
| MCEventSort | every list of three names out of three, one or two handlers | TypeOK, ForwardsWhenInOrder, ForwardsWhenAlone, ForwardsOnlyListed, AloneLosesNothing, EveryHandlerDecides | sorting and searching a list together stays in bounds, ends, and never forwards what the file does not list; right answers, and no name lost, for a handler alone; right answers for a list in order however many share it. Three names need two swaps of one element, which is where sorts overlap |
| MCEventSortRace | the same | ForwardsListedEvents: **violated** | see section 6 |
| MCAccessRobot | one event of three kinds, five configurations (organization and repository, a name listed twice, no events, a bad URL beside a good one, an unknown name), MaxRetries = 2 for the 4 of the code | TypeOK, RoutedAsListed, NoNameDropped, ReceivedAsListed, ForwardedWasReceived, ForwardersSettle | routing and retries over a network that delays and breaks, with forwarders at work while the handler starts others. Events do not interact except through EventSort's slice, so one is enough; it has up to two forwarders. With two retries an attempt can be overtaken by a later one, and that by a third; more only repeat this |
| MCAccessRobotAwaited | two configurations, one retry | ForwardersAwaited: **violated** | see section 6 |
| MCAccessRobotNoEvents | one plugin without a list of events | NoEventsMeansAll: **violated** | see section 6 |
| MCLibrary | every list of at most three filters over an organization and a repository; two secrets, three modification times, two skips for the 600 of the code | FindTypeOK, FindAnswers, ExclusionHolds; TypeOK, StalenessBounded, FollowsTheFile | Find against its definition; how long an outdated secret is handed out. RepoFilter and SecretAgent share nothing, so a behaviour of this run is one of either. Three filters allow an item of either rank before and after a better one; older, equal and newer need three times; two skips reach the limit, pass it and start again |
| MCClaRobot | two events, four histories of at most two commits (authors, committers, a web-page committer, an invalid email), one failing call | TypeOK, UndisturbedVerdict, ThanksMeansSigned | what labels, guides and thanks mean when handlers overlap, and that one left alone gets everything right |
| MCLabelRobot | two events among ten (comments that add, remove, do both, contradict themselves, use two spellings; by collaborators or not, with and without leave to create labels; pull requests to squash or not), one failing call, one label changed by hand | TypeOK, AsksAreMet, OnlyCollaboratorsIntroduce, SquashFollowsCommits | what comments and events achieve on stale labels. Interference needs two handlers or a handler and a person; the handlers are interchangeable but for their events, which every initial state chooses (symmetry; no liveness property) |
| MCRateLimit | a call that sleeps, one that does not and one that asks for the limits; two requests in a window of two ticks, a secondary limit longer than the window (three), one bad answer | TypeOK, SparesTheServer, RetriedOnce | who may still send under a limit the client was told of, and that a call is retried once. A window of two requests can be used up by the other call or by another program; with three calls one tells, one is overtaken and one comes after |

Deadlock is checked except in MCClaRobot, where all the events may have been handled and
every email signed: nothing is left to happen.

Bounds that the code does not have: `Req`, `Event`, `Handler` and `Call` (how many there are),
`MaxFaults` (calls that fail), `MaxEdits` (labels changed by hand), `MaxRetries`, `MaxSkips`, `Limit`, `Window`
and `RetryAfter` (values of the code or the platform, made small), the lengths of lists. The
theorems of section 5 have none.

## 4. Fairness

* *The Go scheduler* runs every goroutine that can run: weak fairness of the steps of
  one goroutine (`WF` of MainStep, InterruptStep, HandlerCall, the handlers' Step, ...).
* *A select chooses at random* among the ready cases, and a tick may be ready whenever the
  closed stop channel is, so passing over the stop channel for ever has probability
  zero: strong fairness of `SeeStop`, and of nothing else.
* *Timers fire*: the ticker and the grace period; in SecretAgent weak fairness of `Look` and
  `Read`.
* ClaRobot, LabelRobot and RateLimit have no liveness property. `getPRCommitsAbout` has no bound on its
  retries, so that its handler ends would only restate that the platform recovers; a label
  handler has no loop but those over finite lists; and a call on the client is sent twice at most
  (`RetriedOnce`), so it ends when the server answers it.
* Nothing is assumed of signals, of clients, or of handlers: their HTTP calls have no
  timeout. `DispatchedIsHandled` makes the assumption that handlers return, explicitly
  (`HandlersReturn`); `SignalEndsProcess` does without it.
* AccessRobot assumes only that the scheduler runs the forwarders, that `time.Sleep` ends, and that the
  transport gives up a connection it cannot open (weak fairness of `Attempt`). Nothing is assumed of
  `ConnectionBreaks` and `Answered`: the client sets no timeout, so a plugin that never answers holds its
  forwarder for ever, and `ForwardersSettle` says no more than that this is the only way not to end.

## 5. What is proved

All theorems hold for every value of the constants that satisfies the named assumption of
the module (which TLC evaluates in the runs); none of them assumes fairness. TLC checked each
inductive invariant, or the property it carries, before it was proved.

* **ConfigAgentProofs** - `TypeCorrect`, `PublishedAlwaysValid`, `NoPublishAfterStopHolds`,
  for any set of texts. Strengthening: `buf` is a text, a published digest belongs to a
  valid text, and a returned Stop means that the goroutine has ended.
* **RobotServiceProofs** - `ServiceTypeCorrect`, `WgCountsHandlersHolds`,
  `DrainBarrierHolds`, `CleanExitHolds`, for any finite set of requests. The invariant
  relates each WaitGroup to the places of the goroutines it counts: `dWg` to the
  cardinality of the live handlers, `mgrWg` to `onInt` and `srv`. Without it "the counter
  does not go below zero" is not inductive, nor is "released means nothing earlier lives".
  `ServiceImplementsEventDelivery`: every step of the service is a step of EventDelivery under the
  mapping (`StatusOf`, `PhaseOf`, `owed`) or changes nothing of it. The proof cites the invariant at the
  step that matters, AllTerminated: the drain owes nothing.
* **EventSortProofs**, for any number of handlers and lists up to the twelve elements for which
  the algorithm is the one modelled. `TypeCorrect`: no index that a comparison, a swap or the search is
  about to use leaves the slice, however handlers write under each other (`IndicesInside`, which `Bounds`
  makes inductive). `ForwardsOnlyListedHolds`: what a swap holds between its read and its writes is listed
  too (`OnlyListed`), whatever it then overwrites. `ForwardsWhenInOrderHolds`: nobody swaps in a sorted
  slice, so `events = configured` (`Reading`); the rest is the binary search's invariant
  `Bracketed` (smaller below `lo`, not smaller from `hi`). `ForwardsWhenAloneHolds` and
  `AloneLosesNothingHolds`: the insertion sort is correct when nobody interferes. `Insertion` says of
  the slice *as it will be when a half-written swap is complete* that it has the configured names
  (a swap is a bijection between the places of a name) and is in order up to `i` but for the
  element being inserted.
* **AccessRobotProofs**, for any events, configurations and number of retries (`AccessAssumption`: the
  lists of a configuration are sequences, and a repository's key, `org/repo`, is not its
  organization's). `TypeCorrect` includes that the handler's two loops stay within their lists
  (`LoopsInside`), and needs `TriesLeft`: only a forwarder that has given up has failed more often than it
  retries.
  `ForwardedWasReceivedHolds`: the invariant ties every copy on the wire, received or answered to an
  attempt its forwarder has made; an answer exists only for a received copy, and is taken only by the
  attempt it answers.
  `RoutedAsListedHolds`, `NoNameDroppedHolds`: what a configuration lists is a set of triples (key,
  place in the key's list, plugin). `PlaceOfTriple` and `TripleOfPlace` show that the two loops pass
  each triple once. `Collected` counts the listings they have left behind: as many as endpoints
  collected, for every endpoint; `Dispatched` the forwarders: as many as endpoints dealt with. When the
  handler has returned (`Complete`) these are all there are. Since the loops are steps of the model,
  the counting is an invariant and needs no induction over the lists.
  `ReceivedAsListedHolds` joins the two halves: no plugin receives an event more often than
  `MaxRetries + 1` times for each of its listings. Receipts map one to one into pairs of a forwarder and
  an attempt; the forwarders are as many as endpoints dealt with, these
  are among the collected, which are as many as listings passed, and those are among all.
* **LibraryProofs**, of two small components of `community-robot-lib` that share nothing (the filter's
  loop has names of its own, `FindInit`, `FindNext`, `FindSpec`, so that one module can extend both).
  Repository filter: `FindTypeCorrect`, `FindAnswersHolds`, `ExclusionHoldsAlways`, for lists of any
  length. The loop invariant: no item before `i` names the repository, and `index` is the last of
  them that covers it. Secret agent: `SecretTypeCorrect`, `StalenessBoundedHolds`,
  `SecretFrozenAfterStop`, for any number of skips and any modification times. `StalenessBounded`
  alone is not inductive: it says nothing before the limit is reached. `Overdue` does: while a
  readable file is not what is handed out, every load since its last change was one that passed it
  over and counted that, so their number is at most `skips`.
* **ClaRobotProofs** - `TypeCorrect`, `ThanksMeansSignedHolds`, `UndisturbedVerdictHolds`, for any number
  of events, commits and failures. Signatures are never withdrawn, so an answer that is kept stays
  true; `Verdict` says that the commits checked so far are signed unless the handler
  holds one that is not, and carries that to the comment. For a handler nothing disturbs the
  converse holds too (`Accuses`: what it holds against the commits is true), and `Leaves` says call
  by call what labels and guides it has left so far.
* **LabelRobotProofs** - `TypeCorrect`, `Introducing`, `AsksMet`, `SquashFollows`, for any labels and
  folding, any number of handlers, faults and edits. `HandlerInv` accounts for every name a
  comment asks for, at every place of its handler: it is on the pull request (or off it),
  still to do, unknown to the repository, or excused (told, lost or touched by somebody else). A comment
  that adds and removes one label is refused as a whole (`Refused`): its reply names the disputed labels.
  What makes it inductive is that whatever another handler or a person changes becomes
  `touched` in the same step (`Frame`). `Introduced` says the same of new labels and collaborators.
* **RateLimitProofs** - `TypeCorrect`, `RetryBound`, `ServerSpared`, for any calls, limits and windows.
  `Counted` relates the requests a call has made to its place and to whether its sleep is used up.
  `Knowing`: as long as the client is not misled, the last limit it was told of is in `rateLimits` or in
  the secondary limit (`LimitRemembered`), and a call that was not early knows of it what its place lets
  it know (`Informed`): each check passed rules one of the two out. It is inductive because telling the
  client of a limit makes every other call that has looked `early` in the same step, and recording an
  answer of such a call makes the client misled.

Model-checked only: what holds under fairness (StopTerminates, Converges, SignalEndsProcess,
DispatchedIsHandled, EveryHandlerDecides, ForwardersSettle, FollowsTheFile), which the prover does not
do. Every invariant and every safety property of the runs is a theorem. One theorem goes beyond
the runs' properties (`SecretFrozenAfterStop`).

## 6. Where the code and its comments disagree

Each is a run in which TLC finds the claim violated.

* **NoHandlerAbandoned** (`dispatcher.go:42`, "Handle remaining requests"). The drain waits on the
  counter while the server still accepts; a request dispatched after that is running when
  the process says that all workers terminated, and one dispatched between the release of Wait and
  its resumption makes the WaitGroup panic. What does hold is `DrainBarrier`.
* **ForwardsListedEvents** (`robot-atomgit-access/config.go:93`). Handlers sort the slice they share, without
  a lock; one that searches between the two writes of another's swap misses an event
  the file lists. A list written in order in the file is safe, and whatever races nothing is
  forwarded that the file does not list (both proved). The damage can be for good: of two handlers on
  [2,1,0], one writes the first half of its swap ([2,2,0]), the other swaps the last two places ([2,0,2])
  and reads its next pair, the first ends ([1,0,2]), the second writes ([0,2,2]), and from then on no
  handler forwards event 1 until the file is changed and loaded again. `AloneLosesNothing` and
  `ForwardsWhenAlone` are for one handler and say nothing of this.
* **NoEventsMeansAll** (`robot-atomgit-access/config.go:36`, "If no events are specified, everything is
  sent."). The search of an empty list finds nothing, and the plugin is sent nothing.
* **ForwardersAwaited** (`robot-atomgit-access/robot.go:36`, "Tracks running handlers for graceful
  shutdown"). Nothing waits for `accessDispatcher.wg`: a drained robot exits under its forwarders.

Seen while modelling and in the model, without a run of their own:
`interrupts.go:154` expects callers to wait for WaitForGracefulShutdown "to ensure all servers have had time
to shut down"; its WaitGroup counts the goroutine of `ListenAndServe`, which net/http ends as soon as
`Shutdown` is called, while `Shutdown` itself runs in a goroutine nobody waits for, so a clean exit may cut
off a request that `Shutdown` was still waiting for.
In the REST client, `atomgit.go:840` says "If we've hit rate limit, don't make further requests before
Reset time."; the limit is looked at under the lock and the request sent without it, so a call that had
looked is sent although another's answer has told the client to wait. `atomgit.go:175` calls `rateLimits` the
limits "as determined by the most recent API calls."; they are those of the answer that arrived last, and
zero if it had no rate headers, so an older answer hides an exhausted limit. `SparesTheServer` says
exactly which calls may therefore be sent (`early`), and promises nothing of the others once such
an answer has been recorded (`misled`).
`Find` returns the
last of several items for an organization but the first of several for a repository.
In the label robot a comment that asks to add and to remove one label is refused as a whole, and its
reply names that label only: what else it asks for is dropped in silence (`note_event.go:20`);
`config.go:61` says the labels to clear go "when codes changed", while every
pull request event clears them (the guard is commented out, `note_event.go:133`); the squash label
is lost if it is itself one of the labels to clear, which `SquashFollowsCommits` therefore excludes.
A plugin may receive an event once for each attempt of each forwarder. A client is given its
token once (`NewClient`), so a replaced secret reaches the webhook signature check and the log
censor, but not the calls.

## 7. Abstractions and limits

* ConfigAgent: the lock makes publication atomic, so it is one step; `GetConfig` is a read of it.
* RobotService: a signal that arrives before `signal.Notify` kills the process at once and is
  left out. One connection carries one request. Handlers run to their end as one interval; what they do is in the robots' modules.
  One generic handler stands for the seven `handle*Event` functions, which are alike line by line. A
  payload that `ParseWebHook` refuses and a kind nobody handles both end `Dispatch` without a handler and are one
  outcome (`unknown`). The agent's steps are `ConfigAgent`'s own actions, conjoined; `CleanExit` and `SignalEndsProcess` are what the service
  adds about them.
* AccessRobot: the requests of all endpoints are made in a loop before the one that starts the
  forwarders; here both are one loop, since nobody sees a request before its forwarder starts. The
  sort inside `matchEndpoint` is EventSort's. An event is given any valid configuration, so no property relies
  on two events seeing the same one. `time.Sleep` has no duration.
  Redirects and the transport's own retries of idempotent requests are not modelled (a POST is retried by it
  only with nothing written). What a retry does to the body is left to `AttemptUnsent` and `Send`.
* EventSort: a string is one value (a torn read of pointer and length is not modelled);
  lists of more than twelve names use another algorithm.
* ClaRobot: one pull request and one configuration, whose two labels and title of the guide do not change;
  MCClaRobot checks by committer (`CheckByCommitter = TRUE`), the proof covers both. A failed deletion or label
  call is taken to have had no effect.
* LabelRobot: one pull request and one configuration; a failed call is taken to have had no effect; a
  read of labels is whole (pages of one answer are not interleaved). The commands of a comment are
  sets, since `newLabelSet` forgets order and repetition but for which spelling it keeps.
* SecretAgent: one file. Files share a map under a lock, one entry each.
* RateLimit: one category of requests (categories share only the secondary limit); the reset buffer
  of `sleepUntilResetWithBuffer` is one tick; contexts are not cancelled. No cache marks its answers
  (`X-From-Cache`, `atomgit.go:880`), so every answer is recorded.

## 8. What is not modelled

The plan was ConfigAgent, RobotService with EventDelivery, AccessRobot, EventSort, RepoFilter, ClaRobot,
then LabelRobot, SecretAgent and RateLimit, each with its proofs; all of that is done. The rest:

* **Review robot.** `handleFlow` (`robot-atomgit-openeuler-review/robot.go:85`) indexes its list of steps
  with the length instead of the loop variable and panics before the first of them, on every event. None of
  LGTM, approve, clearLabel or the merge is ever reached; RobotService models such a handler
  (`Panicking`). A module of the steps would describe behaviours the program does not have; it becomes
  worth writing when the index is corrected.
* **Welcome robot.** Calls made one after the other for one event, with no decision that another actor can
  invalidate.
* **Message queue** (`mq`, `kafka`). A library no robot subscribes to or publishes with; what it promises
  depends on the consumer group of the Kafka client, which is not in the repository.
* **atomgitclient, utils/httpclient.go.** One stateless call per method; the retry loop of `httpclient.go` is the
  one AccessRobot models.
* **go-atomgit** but for the rate limits: generated accessors, REST bindings, pagination and decoding, all
  conversions of data without shared state. With the **gitee, github and gitlab** frameworks and clients,
  which no robot here uses, it is by far the larger part of the repository's lines; that is why the lines
  the modules stand for are a small share of them.
* **Logging, options, JSON checks, templates, scripts, the signature cache**: sequential and stateless.
