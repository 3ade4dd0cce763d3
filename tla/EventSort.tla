----------------------------- MODULE EventSort -----------------------------
(***************************************************************************)
(* matchEndpoint of the access robot, for one plugin.  The plugin's Events *)
(* slice belongs to the configuration object every handler goroutine       *)
(* shares; each handler sorts it in place (sort.Strings) and then looks    *)
(* its event up in it (sort.SearchStrings), with no lock.                  *)
(*                                                                         *)
(* Names are naturals, ordered as the strings are.  For the at most twelve *)
(* elements modelled here sort.Strings is insertion sort.  A comparison    *)
(* and a probe of the search are one step each; the swap of two elements   *)
(* reads both and then writes them one after the other, three steps, which *)
(* is what the race leaves observable of whole strings.                    *)
(***************************************************************************)
EXTENDS Naturals, Sequences, FiniteSets

CONSTANTS Handler,   \* the handler goroutines there may be
          Names,     \* event names
          N,         \* length of the Events slice
          Configs    \* the slices a configuration may hold

ASSUME EventSortAssumption ==
  /\ Names \subseteq Nat
  /\ N \in 0 .. 12
  /\ Configs \subseteq [1 .. N -> Names]

VARIABLES events,      \* the shared slice
          configured,  \* what the configuration file said; never changes
          pc,          \* where a handler stands
          want,        \* the event it looks for
          i, j,        \* the indices of its insertion sort
          held,        \* the two elements its swap has read
          lo, hi,      \* the bounds of its search
          found        \* whether it forwards the event to the plugin

sortVars == <<i, j, held>>
searchVars == <<lo, hi, found>>
vars == <<events, configured, pc, want, sortVars, searchVars>>

Init ==
  /\ configured \in Configs
  /\ events = configured
  /\ pc \in [Handler -> {"absent", "sort"}]
  /\ want \in [Handler -> Names]
  /\ i = [h \in Handler |-> 2]
  /\ j = [h \in Handler |-> 2]
  /\ held = [h \in Handler |-> <<0, 0>>]
  /\ lo = [h \in Handler |-> 1]
  /\ hi = [h \in Handler |-> N + 1]
  /\ found = [h \in Handler |-> FALSE]

-----------------------------------------------------------------------------
(* sort.Strings: for i, for j := i; j > first && less(j, j-1); j-- swap *)

OutOfOrder(h) == j[h] > 1 /\ events[j[h]] < events[j[h] - 1]

\* Element i is in its place: the inner loop ends and the next one starts.
\* (Mutant: the index never advances.)
NextElement_Restarts(h) ==
  /\ pc[h] = "sort"
  /\ i[h] <= N
  /\ ~OutOfOrder(h)
  /\ j' = [j EXCEPT ![h] = 2]
  /\ UNCHANGED <<events, configured, pc, want, i, held, searchVars>>

NextElement(h) ==
  /\ pc[h] = "sort"
  /\ i[h] <= N
  /\ ~OutOfOrder(h)
  /\ i' = [i EXCEPT ![h] = @ + 1]
  /\ j' = [j EXCEPT ![h] = i[h] + 1]
  /\ UNCHANGED <<events, configured, pc, want, held, searchVars>>

Less(h) ==
  /\ pc[h] = "sort"
  /\ i[h] <= N
  /\ OutOfOrder(h)
  /\ pc' = [pc EXCEPT ![h] = "swap"]
  /\ UNCHANGED <<events, configured, want, sortVars, searchVars>>

\* (Mutant: the temporaries are written before they are read.)
SwapRead_Nothing(h) ==
  /\ pc[h] = "swap"
  /\ pc' = [pc EXCEPT ![h] = "write1"]
  /\ UNCHANGED <<events, configured, want, sortVars, searchVars>>

SwapRead(h) ==
  /\ pc[h] = "swap"
  /\ held' = [held EXCEPT ![h] = <<events[j[h] - 1], events[j[h]]>>]
  /\ pc' = [pc EXCEPT ![h] = "write1"]
  /\ UNCHANGED <<events, configured, want, i, j, searchVars>>

SwapWrite1(h) ==
  /\ pc[h] = "write1"
  /\ events' = [events EXCEPT ![j[h]] = held[h][1]]
  /\ pc' = [pc EXCEPT ![h] = "write2"]
  /\ UNCHANGED <<configured, want, sortVars, searchVars>>

\* (Mutant: a swap without a temporary, the second element read after the write.)
SwapWrite2_NoTemporary(h) ==
  /\ pc[h] = "write2"
  /\ events' = [events EXCEPT ![j[h] - 1] = events[j[h]]]
  /\ j' = [j EXCEPT ![h] = @ - 1]
  /\ pc' = [pc EXCEPT ![h] = "sort"]
  /\ UNCHANGED <<configured, want, i, held, searchVars>>

SwapWrite2(h) ==
  /\ pc[h] = "write2"
  /\ events' = [events EXCEPT ![j[h] - 1] = held[h][2]]
  /\ j' = [j EXCEPT ![h] = @ - 1]
  /\ pc' = [pc EXCEPT ![h] = "sort"]
  /\ UNCHANGED <<configured, want, i, held, searchVars>>

Sorted(h) ==
  /\ pc[h] = "sort"
  /\ i[h] > N
  /\ pc' = [pc EXCEPT ![h] = "search"]
  /\ UNCHANGED <<events, configured, want, sortVars, searchVars>>

-----------------------------------------------------------------------------
(* sort.SearchStrings and the comparison that follows it *)

\* (Mutant: the bound moves past the middle on a match too.)
Probe_PastMatch(h) ==
  LET mid == (lo[h] + hi[h]) \div 2 IN
  /\ pc[h] = "search"
  /\ lo[h] < hi[h]
  /\ \/ /\ events[mid] <= want[h]
        /\ lo' = [lo EXCEPT ![h] = mid + 1]
        /\ UNCHANGED hi
     \/ /\ events[mid] > want[h]
        /\ hi' = [hi EXCEPT ![h] = mid]
        /\ UNCHANGED lo
  /\ UNCHANGED <<events, configured, pc, want, sortVars, found>>

Probe(h) ==
  LET mid == (lo[h] + hi[h]) \div 2 IN
  /\ pc[h] = "search"
  /\ lo[h] < hi[h]
  /\ \/ /\ events[mid] < want[h]
        /\ lo' = [lo EXCEPT ![h] = mid + 1]
        /\ UNCHANGED hi
     \/ /\ events[mid] >= want[h]
        /\ hi' = [hi EXCEPT ![h] = mid]
        /\ UNCHANGED lo
  /\ UNCHANGED <<events, configured, pc, want, sortVars, found>>

Decide(h) ==
  /\ pc[h] = "search"
  /\ lo[h] >= hi[h]
  /\ found' = [found EXCEPT ![h] = lo[h] <= N /\ events[lo[h]] = want[h]]
  /\ pc' = [pc EXCEPT ![h] = "done"]
  /\ UNCHANGED <<events, configured, want, sortVars, lo, hi>>

Step(h) == NextElement(h) \/ Less(h) \/ SwapRead(h) \/ SwapWrite1(h) \/ SwapWrite2(h)
             \/ Sorted(h) \/ Probe(h) \/ Decide(h)

AllDone == (\A h \in Handler : pc[h] \in {"absent", "done"}) /\ UNCHANGED vars

Next == (\E h \in Handler : Step(h)) \/ AllDone

Spec == Init /\ [][Next]_vars
FairSpec == Spec /\ \A h \in Handler : WF_vars(Step(h))

-----------------------------------------------------------------------------
(* Properties *)

\* Type invariant of matchEndpoint's loop.  An index the sort is about to use, for a
\* comparison (j and, from 2 on, j - 1) or a swap (both), is one of the slice.
Typed ==
  /\ events \in [1 .. N -> Names]
  /\ configured \in [1 .. N -> Names]
  /\ pc \in [Handler -> {"absent", "sort", "swap", "write1", "write2", "search", "done"}]
  /\ want \in [Handler -> Names]
  /\ i \in [Handler -> Nat] /\ j \in [Handler -> Nat]
  /\ lo \in [Handler -> 1 .. N + 1] /\ hi \in [Handler -> 1 .. N + 1]
  /\ found \in [Handler -> BOOLEAN]
Swapping == {"swap", "write1", "write2"}
IndicesInside(h) ==
  /\ pc[h] = "sort" /\ i[h] <= N => j[h] \in 1 .. N
  /\ pc[h] \in Swapping => j[h] \in 2 .. N
  /\ lo[h] <= hi[h]
TypeOK == Typed /\ \A h \in Handler : IndicesInside(h)

Listed(e) == \E k \in 1 .. N : configured[k] = e

\* "Events are the events that this plugin can handle and should be forward to
\* it": a handler forwards its event exactly when the configuration lists it.
ForwardsListedEvents ==
  \A h \in Handler : pc[h] = "done" => (found[h] <=> Listed(want[h]))

\* A list the file already has in order is forwarded faithfully, however many
\* handlers sort and search it at once.
InOrder(a) == \A k, m \in 1 .. N : k < m => a[k] <= a[m]
ForwardsWhenInOrder == InOrder(configured) => ForwardsListedEvents

\* So is any list a single handler works on: its sort leaves it searchable.
Alone == \A g, h \in Handler : pc[g] # "absent" /\ pc[h] # "absent" => g = h
ForwardsWhenAlone == Alone => ForwardsListedEvents

\* However handlers write under each other, their swaps leave only names of the file's
\* list in the slice, so no handler forwards an event that the file does not list.
ForwardsOnlyListed ==
  /\ \A k \in 1 .. N : Listed(events[k])
  /\ \A h \in Handler : found[h] => Listed(want[h])

Occurrences(a, e) == Cardinality({k \in 1 .. N : a[k] = e})

\* A handler that works on the slice alone loses no name to its swaps: except between
\* the two writes of one, the slice holds the configured names, each as often as the file
\* lists it.  Handlers that overlap may lose one for good.
SameNames(a) == \A e \in Names : Occurrences(a, e) = Occurrences(configured, e)
AloneLosesNothing == Alone /\ (\A h \in Handler : pc[h] # "write2") => SameNames(events)

\* Every handler gets out of the sort and the search, however the others write
\* under it.
EveryHandlerDecides == \A h \in Handler : (pc[h] = "sort") ~> (pc[h] = "done")
=============================================================================
