-------------------------- MODULE EventSortProofs --------------------------
(***************************************************************************)
(* matchEndpoint for any number of handlers and any list of the lengths    *)
(* for which sort.Strings is an insertion sort.  However many handlers     *)
(* write under each other, the indices stay in bounds (TypeInv).  If the   *)
(* configuration lists the events in order the shared slice is only ever   *)
(* read, and all handlers decide rightly (Reading).  A handler alone sorts *)
(* the slice without losing a name (Insertion) and decides rightly too.    *)
(* Whatever races, no name gets in that the file does not list             *)
(* (OnlyListed).                                                           *)
(***************************************************************************)
EXTENDS EventSort, FiniteSetTheorems, TLAPS

-----------------------------------------------------------------------------
(* Type correctness *)

Bounds(h) ==
  /\ i[h] >= 2 /\ j[h] >= 1 /\ j[h] <= i[h]
  /\ i[h] > N => j[h] = i[h]
  /\ pc[h] \in Swapping => i[h] <= N /\ j[h] > 1
  /\ pc[h] \in {"write1", "write2"} => held[h] \in Names \X Names
  /\ lo[h] <= hi[h]

TypeInv ==
  /\ Typed
  /\ held \in [Handler -> Nat \X Nat]
  /\ \A h \in Handler : Bounds(h)

\* The middle of a non-empty range lies inside it.
LEMMA Middle ==
  ASSUME NEW a \in Nat, NEW b \in Nat, a < b
  PROVE  LET m == (a + b) \div 2 IN m \in Nat /\ a <= m /\ m < b
OBVIOUS

LEMMA InitTyped == Init => TypeInv
<1>. SUFFICES ASSUME Init PROVE TypeInv
  OBVIOUS
<1>1. Typed
  BY EventSortAssumption DEF Init, Typed
<1>2. held \in [Handler -> Nat \X Nat]
  BY DEF Init
<1>3. ASSUME NEW h \in Handler PROVE Bounds(h)
  <2>1. /\ pc[h] \in {"absent", "sort"}
        /\ i[h] = 2 /\ j[h] = 2 /\ lo[h] = 1 /\ hi[h] = N + 1 /\ N \in Nat
    BY EventSortAssumption DEF Init
  <2>. QED
    BY <2>1 DEF Bounds, Swapping
<1>. QED
  BY <1>1, <1>2, <1>3 DEF TypeInv

\* A handler's step leaves the variables of the others alone.
LEMMA Others ==
  ASSUME TypeInv, NEW h \in Handler, Step(h), NEW g \in Handler, g # h
  PROVE  /\ pc'[g] = pc[g] /\ i'[g] = i[g] /\ j'[g] = j[g] /\ held'[g] = held[g]
         /\ lo'[g] = lo[g] /\ hi'[g] = hi[g] /\ found'[g] = found[g]
<1>. USE DEF TypeInv, Typed, sortVars, searchVars
<1>1. CASE NextElement(h) \/ Less(h) \/ SwapRead(h) \/ SwapWrite1(h)
  BY <1>1 DEF NextElement, Less, SwapRead, SwapWrite1
<1>2. CASE SwapWrite2(h) \/ Sorted(h) \/ Decide(h)
  BY <1>2 DEF SwapWrite2, Sorted, Decide
<1>3. CASE Probe(h)
  <2>. DEFINE mid == (lo[h] + hi[h]) \div 2
  <2>1. \/ lo' = [lo EXCEPT ![h] = mid + 1] /\ hi' = hi
        \/ hi' = [hi EXCEPT ![h] = mid] /\ lo' = lo
    BY <1>3 DEF Probe
  <2>. HIDE DEF mid
  <2>. QED
    BY <1>3, <2>1 DEF Probe
<1>. QED
  BY <1>1, <1>2, <1>3 DEF Step

\* What changes and what holds of h after each of its steps.
LEMMA StepTyped ==
  ASSUME TypeInv, NEW h \in Handler, Step(h)
  PROVE  TypeInv'
<1>. USE EventSortAssumption
<1>0. /\ i[h] \in Nat /\ j[h] \in Nat /\ lo[h] \in 1 .. N + 1 /\ hi[h] \in 1 .. N + 1
      /\ N \in Nat /\ Bounds(h)
  BY DEF TypeInv, Typed
<1>1. ASSUME Typed', held' \in [Handler -> Nat \X Nat], Bounds(h)'
      PROVE  TypeInv'
  <2>1. ASSUME NEW g \in Handler, g # h PROVE Bounds(g)'
    BY <2>1, Others DEF TypeInv, Bounds
  <2>. QED
    BY <1>1, <2>1 DEF TypeInv
<1>2. CASE NextElement(h)
  <2>1. Typed'
    BY <1>0, <1>2 DEF NextElement, TypeInv, Typed, searchVars
  <2>2. i'[h] = i[h] + 1 /\ j'[h] = i[h] + 1 /\ UNCHANGED <<pc, lo, hi, held>>
    BY <1>2 DEF NextElement, TypeInv, Typed, searchVars
  <2>3. Bounds(h)'
    BY <1>0, <1>2, <2>2 DEF NextElement, Bounds, Swapping
  <2>. QED
    BY <1>1, <2>1, <2>2, <2>3 DEF TypeInv
<1>3. CASE Less(h)
  <2>1. Typed'
    BY <1>3 DEF Less, TypeInv, Typed, sortVars, searchVars
  <2>2. pc'[h] = "swap" /\ UNCHANGED <<i, j, lo, hi, held>>
    BY <1>3 DEF Less, TypeInv, Typed, sortVars, searchVars
  <2>3. Bounds(h)'
    BY <1>0, <1>3, <2>2 DEF Less, OutOfOrder, Bounds, Swapping
  <2>. QED
    BY <1>1, <2>1, <2>2, <2>3 DEF TypeInv
<1>4. CASE SwapRead(h)
  <2>1. Typed'
    BY <1>4 DEF SwapRead, TypeInv, Typed, searchVars
  <2>2. j[h] \in 1 .. N /\ j[h] - 1 \in 1 .. N
    BY <1>0, <1>4 DEF SwapRead, Bounds, Swapping
  <2>3. events[j[h]] \in Names /\ events[j[h] - 1] \in Names
    BY <2>2 DEF TypeInv, Typed
  <2>4. /\ pc'[h] = "write1" /\ held'[h] = <<events[j[h] - 1], events[j[h]]>>
        /\ UNCHANGED <<i, j, lo, hi>>
    BY <1>4 DEF SwapRead, TypeInv, Typed, searchVars
  <2>5. held'[h] \in Names \X Names
    BY <2>3, <2>4
  <2>6. held' \in [Handler -> Nat \X Nat]
    <3>1. PICK x \in Nat \X Nat : held' = [held EXCEPT ![h] = x]
      BY <1>4, <2>3 DEF SwapRead
    <3>. QED
      BY <3>1 DEF TypeInv
  <2>7. Bounds(h)'
    BY <1>0, <1>4, <2>4, <2>5 DEF SwapRead, Bounds, Swapping
  <2>. QED
    BY <1>1, <2>1, <2>6, <2>7
<1>5. CASE SwapWrite1(h)
  <2>1. held[h] \in Names \X Names
    BY <1>0, <1>5 DEF SwapWrite1, Bounds
  <2>2. events' \in [1 .. N -> Names]
    BY <1>5, <2>1 DEF SwapWrite1, TypeInv, Typed
  <2>3. Typed'
    BY <1>5, <2>2 DEF SwapWrite1, TypeInv, Typed, sortVars, searchVars
  <2>4. pc'[h] = "write2" /\ UNCHANGED <<i, j, lo, hi, held>>
    BY <1>5 DEF SwapWrite1, TypeInv, Typed, sortVars, searchVars
  <2>5. Bounds(h)'
    BY <1>0, <1>5, <2>4 DEF SwapWrite1, Bounds, Swapping
  <2>. QED
    BY <1>1, <2>3, <2>4, <2>5 DEF TypeInv
<1>6. CASE SwapWrite2(h)
  <2>1. held[h] \in Names \X Names
    BY <1>0, <1>6 DEF SwapWrite2, Bounds
  <2>2. events' \in [1 .. N -> Names]
    BY <1>6, <2>1 DEF SwapWrite2, TypeInv, Typed
  <2>3. j[h] > 1 /\ i[h] <= N
    BY <1>0, <1>6 DEF SwapWrite2, Bounds, Swapping
  <2>4. j' \in [Handler -> Nat]
    BY <1>0, <1>6, <2>3 DEF SwapWrite2, TypeInv, Typed
  <2>5. Typed'
    BY <1>6, <2>2, <2>4 DEF SwapWrite2, TypeInv, Typed, searchVars
  <2>6. pc'[h] = "sort" /\ j'[h] = j[h] - 1 /\ UNCHANGED <<i, lo, hi, held>>
    BY <1>6 DEF SwapWrite2, TypeInv, Typed, searchVars
  <2>7. Bounds(h)'
    BY <1>0, <2>3, <2>6 DEF Bounds, Swapping
  <2>. QED
    BY <1>1, <2>5, <2>6, <2>7 DEF TypeInv
<1>7. CASE Sorted(h)
  <2>1. Typed'
    BY <1>7 DEF Sorted, TypeInv, Typed, sortVars, searchVars
  <2>2. pc'[h] = "search" /\ UNCHANGED <<i, j, lo, hi, held>>
    BY <1>7 DEF Sorted, TypeInv, Typed, sortVars, searchVars
  <2>3. Bounds(h)'
    BY <1>0, <2>2 DEF Bounds, Swapping
  <2>. QED
    BY <1>1, <2>1, <2>2, <2>3 DEF TypeInv
<1>8. CASE Probe(h)
  <2>. DEFINE mid == (lo[h] + hi[h]) \div 2
  <2>1. mid \in 1 .. N /\ lo[h] <= mid /\ mid < hi[h]
    BY <1>0, <1>8, Middle DEF Probe
  <2>2. /\ \/ lo' = [lo EXCEPT ![h] = mid + 1] /\ hi' = hi
           \/ hi' = [hi EXCEPT ![h] = mid] /\ lo' = lo
        /\ UNCHANGED <<events, configured, pc, want, i, j, held, found>>
    BY <1>8 DEF Probe, sortVars
  <2>3. mid \in 1 .. N + 1 /\ mid + 1 \in 1 .. N + 1 /\ mid + 1 <= hi[h]
    BY <1>0, <2>1
  <2>. HIDE DEF mid
  <2>4. Typed'
    BY <2>2, <2>3 DEF TypeInv, Typed
  <2>5. Bounds(h)'
    <3>1. lo'[h] <= hi'[h]
      BY <2>1, <2>2, <2>3 DEF TypeInv, Typed
    <3>. QED
      BY <1>0, <2>2, <3>1 DEF Bounds
  <2>. QED
    BY <1>1, <2>2, <2>4, <2>5 DEF TypeInv
<1>9. CASE Decide(h)
  <2>1. Typed'
    <3>1. PICK b \in BOOLEAN : found' = [found EXCEPT ![h] = b]
      BY <1>9 DEF Decide
    <3>. QED
      BY <1>9, <3>1 DEF Decide, TypeInv, Typed, sortVars
  <2>2. pc'[h] = "done" /\ UNCHANGED <<i, j, lo, hi, held>>
    BY <1>9 DEF Decide, TypeInv, Typed, sortVars
  <2>3. Bounds(h)'
    BY <1>0, <2>2 DEF Bounds, Swapping
  <2>. QED
    BY <1>1, <2>1, <2>2, <2>3 DEF TypeInv
<1>. QED
  BY <1>2, <1>3, <1>4, <1>5, <1>6, <1>7, <1>8, <1>9 DEF Step

LEMMA NextTyped == TypeInv /\ [Next]_vars => TypeInv'
<1>. SUFFICES ASSUME TypeInv, [Next]_vars PROVE TypeInv'
  OBVIOUS
<1>1. CASE \E h \in Handler : Step(h)
  BY <1>1, StepTyped
<1>2. CASE AllDone \/ UNCHANGED vars
  BY <1>2 DEF AllDone, vars, sortVars, searchVars, TypeInv, Typed, Bounds
<1>. QED
  BY <1>1, <1>2 DEF Next

\* However the handlers write under each other, no index leaves the slice and the
\* slice holds nothing but names.
THEOREM TypeCorrect == Spec => []TypeOK
<1>1. TypeInv => TypeOK
  <2>. SUFFICES ASSUME TypeInv, NEW h \in Handler PROVE IndicesInside(h)
    BY DEF TypeInv, TypeOK
  <2>1. i[h] \in Nat /\ j[h] \in Nat /\ N \in Nat /\ Bounds(h)
    BY EventSortAssumption DEF TypeInv, Typed
  <2>. QED
    BY <2>1 DEF Bounds, IndicesInside, Swapping
<1>. QED
  BY <1>1, InitTyped, NextTyped, PTL DEF Spec

-----------------------------------------------------------------------------
(* The search of a slice in order *)

\* What lies below lo is smaller than the event, what lies from hi on is not.
Bracketed(h) ==
  /\ \A k \in 1 .. N : k < lo[h] => events[k] < want[h]
  /\ \A k \in 1 .. N : k >= hi[h] => events[k] >= want[h]

LEMMA Numbers ==
  ASSUME TypeInv, NEW h \in Handler
  PROVE  /\ \A k \in 1 .. N : events[k] \in Nat
         /\ want[h] \in Nat /\ N \in Nat
         /\ lo[h] \in 1 .. N + 1 /\ hi[h] \in 1 .. N + 1 /\ lo[h] <= hi[h]
         /\ i[h] \in Nat /\ j[h] \in Nat
<1>1. N \in Nat /\ want[h] \in Nat /\ \A k \in 1 .. N : events[k] \in Nat
  <2>1. want[h] \in Names /\ \A k \in 1 .. N : events[k] \in Names
    BY DEF TypeInv, Typed
  <2>2. N \in Nat /\ Names \subseteq Nat
    BY EventSortAssumption
  <2>. QED
    BY <2>1, <2>2
<1>2. lo[h] \in 1 .. N + 1 /\ hi[h] \in 1 .. N + 1 /\ i[h] \in Nat /\ j[h] \in Nat
  BY DEF TypeInv, Typed
<1>3. lo[h] <= hi[h]
  BY DEF TypeInv, Bounds
<1>. QED
  BY <1>1, <1>2, <1>3

LEMMA ProbeBrackets ==
  ASSUME TypeInv, InOrder(events), NEW h \in Handler, Bracketed(h), Probe(h)
  PROVE  Bracketed(h)'
<1>. DEFINE mid == (lo[h] + hi[h]) \div 2
<1>0. /\ \A k \in 1 .. N : events[k] \in Nat
      /\ want[h] \in Nat /\ N \in Nat
      /\ lo[h] \in 1 .. N + 1 /\ hi[h] \in 1 .. N + 1
  BY Numbers
<1>1. mid \in 1 .. N /\ lo[h] <= mid /\ mid < hi[h]
  BY <1>0, Middle DEF Probe
<1>2. CASE events[mid] < want[h] /\ lo' = [lo EXCEPT ![h] = mid + 1] /\ UNCHANGED hi
  <2>1. \A k \in 1 .. N : k < mid + 1 => events[k] < want[h]
    BY <1>0, <1>1, <1>2 DEF InOrder
  <2>. HIDE DEF mid
  <2>2. lo'[h] = mid + 1 /\ hi'[h] = hi[h] /\ UNCHANGED <<events, want>>
    BY <1>2 DEF Probe, TypeInv, Typed
  <2>. QED
    BY <2>1, <2>2 DEF Bracketed
<1>3. CASE events[mid] >= want[h] /\ hi' = [hi EXCEPT ![h] = mid] /\ UNCHANGED lo
  <2>1. \A k \in 1 .. N : k >= mid => events[k] >= want[h]
    BY <1>0, <1>1, <1>3 DEF InOrder
  <2>. HIDE DEF mid
  <2>2. hi'[h] = mid /\ lo'[h] = lo[h] /\ UNCHANGED <<events, want>>
    BY <1>3 DEF Probe, TypeInv, Typed
  <2>. QED
    BY <2>1, <2>2 DEF Bracketed
<1>. QED
  BY <1>2, <1>3 DEF Probe

\* At the end the event is found exactly if the slice has it.
LEMMA DecideAnswers ==
  ASSUME TypeInv, InOrder(events), NEW h \in Handler, Bracketed(h), Decide(h)
  PROVE  found'[h] <=> \E k \in 1 .. N : events[k] = want[h]
<1>0. /\ \A k \in 1 .. N : events[k] \in Nat
      /\ want[h] \in Nat /\ N \in Nat
      /\ lo[h] \in 1 .. N + 1 /\ hi[h] \in 1 .. N + 1 /\ lo[h] = hi[h]
  BY Numbers DEF Decide
<1>1. found'[h] <=> lo[h] <= N /\ events[lo[h]] = want[h]
  BY DEF Decide, TypeInv, Typed
<1>2. ASSUME NEW k \in 1 .. N, events[k] = want[h]
      PROVE  lo[h] <= N /\ events[lo[h]] = want[h]
  <2>1. k >= lo[h] /\ lo[h] \in 1 .. N
    BY <1>0, <1>2 DEF Bracketed
  <2>2. events[lo[h]] >= want[h] /\ events[lo[h]] <= events[k]
    BY <1>0, <2>1 DEF Bracketed, InOrder
  <2>. QED
    BY <1>0, <1>2, <2>1, <2>2
<1>. QED
  BY <1>0, <1>1, <1>2

-----------------------------------------------------------------------------
(* A list in order *)

\* Nobody swaps, so the inner loop of every sort ends at once.
Reading ==
  /\ events = configured
  /\ InOrder(configured)
  /\ \A h \in Handler : pc[h] \notin Swapping /\ j[h] = i[h] /\ Bracketed(h)
  /\ ForwardsListedEvents

LEMMA InitReading == Init /\ InOrder(configured) => Reading
<1>. SUFFICES ASSUME Init, InOrder(configured) PROVE Reading
  OBVIOUS
<1>1. ASSUME NEW h \in Handler PROVE Bracketed(h)
  <2>1. lo[h] = 1 /\ hi[h] = N + 1 /\ N \in Nat
    BY EventSortAssumption DEF Init
  <2>. QED
    BY <2>1 DEF Bracketed
<1>. QED
  BY <1>1 DEF Init, Reading, Swapping, ForwardsListedEvents

LEMMA StepReading ==
  ASSUME TypeInv, Reading, NEW h \in Handler, Step(h)
  PROVE  Reading'
<1>0. /\ \A k \in 1 .. N : events[k] \in Nat
      /\ N \in Nat /\ i[h] \in Nat /\ j[h] = i[h] /\ i[h] >= 2
  BY Numbers DEF TypeInv, Bounds, Reading
<1>1. ASSUME UNCHANGED <<events, configured, want>>, Bracketed(h)',
             pc'[h] \notin Swapping, j'[h] = i'[h],
             pc'[h] = "done" => (found'[h] <=> Listed(want[h]))
      PROVE  Reading'
  <2>1. ASSUME NEW g \in Handler, g # h
        PROVE  /\ pc'[g] \notin Swapping /\ j'[g] = i'[g] /\ Bracketed(g)'
               /\ pc'[g] = "done" => (found'[g] <=> Listed(want[g]))
    BY <1>1, <2>1, Others DEF Reading, Bracketed, ForwardsListedEvents
  <2>2. \A e : Listed(e)' <=> Listed(e)
    BY <1>1 DEF Listed
  <2>. QED
    BY <1>1, <2>1, <2>2 DEF Reading, ForwardsListedEvents, InOrder
<1>2. CASE NextElement(h)
  <2>1. /\ UNCHANGED <<events, configured, pc, want, lo, hi, found>>
        /\ pc[h] = "sort" /\ j'[h] = i'[h]
    BY <1>2 DEF NextElement, searchVars, TypeInv, Typed
  <2>. QED
    BY <1>1, <2>1 DEF Reading, Bracketed
<1>3. CASE Less(h)
  <2>1. j[h] \in 1 .. N /\ j[h] - 1 \in 1 .. N /\ j[h] - 1 < j[h]
    BY <1>0, <1>3 DEF Less
  <2>2. events[j[h] - 1] <= events[j[h]]
    BY <2>1 DEF Reading, InOrder
  <2>. QED
    BY <1>0, <1>3, <2>1, <2>2 DEF Less, OutOfOrder
<1>4. CASE SwapRead(h) \/ SwapWrite1(h) \/ SwapWrite2(h)
  BY <1>4 DEF SwapRead, SwapWrite1, SwapWrite2, Reading, Swapping
<1>5. CASE Sorted(h)
  <2>1. UNCHANGED <<events, configured, want, i, j, lo, hi, found>> /\ pc'[h] = "search"
    BY <1>5 DEF Sorted, sortVars, searchVars, TypeInv, Typed
  <2>. QED
    BY <1>0, <1>1, <2>1 DEF Reading, Bracketed, Swapping
<1>6. CASE Probe(h)
  <2>1. UNCHANGED <<events, configured, pc, want, i, j, found>> /\ pc[h] = "search"
    BY <1>6 DEF Probe, sortVars
  <2>2. Bracketed(h)'
    BY <1>6, ProbeBrackets DEF Reading
  <2>. QED
    BY <1>0, <1>1, <2>1, <2>2 DEF Swapping
<1>7. CASE Decide(h)
  <2>1. UNCHANGED <<events, configured, want, i, j, lo, hi>> /\ pc'[h] = "done"
    BY <1>7 DEF Decide, sortVars, TypeInv, Typed
  <2>2. found'[h] <=> Listed(want[h])
    BY <1>7, DecideAnswers DEF Reading, Listed
  <2>. QED
    BY <1>0, <1>1, <2>1, <2>2 DEF Reading, Bracketed, Swapping
<1>. QED
  BY <1>2, <1>3, <1>4, <1>5, <1>6, <1>7 DEF Step

LEMMA ConfiguredIsFixed == [Next]_vars => UNCHANGED configured
BY DEF Next, Step, vars, NextElement, Less, SwapRead, SwapWrite1, SwapWrite2, Sorted, Probe, Decide,
       AllDone

\* A list the file has in order is forwarded faithfully, however many handlers share
\* it and however long it is.
THEOREM ForwardsWhenInOrderHolds == Spec => []ForwardsWhenInOrder
<1>. DEFINE Inv == TypeInv /\ (InOrder(configured) => Reading)
<1>1. Init => Inv
  BY InitTyped, InitReading
<1>2. Inv /\ [Next]_vars => Inv'
  <2>. SUFFICES ASSUME TypeInv, InOrder(configured) => Reading, [Next]_vars, InOrder(configured)'
                PROVE  Reading'
    BY NextTyped
  <2>1. Reading
    BY ConfiguredIsFixed DEF InOrder
  <2>2. CASE AllDone \/ UNCHANGED vars
    BY <2>1, <2>2 DEF AllDone, vars, sortVars, searchVars, Reading, Bracketed, InOrder,
                      ForwardsListedEvents, Listed
  <2>. QED
    BY <2>1, <2>2, StepReading DEF Next
<1>3. Inv => ForwardsWhenInOrder
  BY DEF Reading, ForwardsWhenInOrder
<1>. QED
  BY <1>1, <1>2, <1>3, PTL DEF Spec

-----------------------------------------------------------------------------
(* A handler alone *)

\* The slice as it will be when a swap that is half written is complete, and where the
\* element that is being inserted then is.
Content(h) == IF pc[h] = "write2" THEN [events EXCEPT ![j[h] - 1] = held[h][2]] ELSE events
Place(h) == IF pc[h] = "write2" THEN j[h] - 1 ELSE j[h]

\* The first n elements are in order, but for the one at p, which those before it may
\* exceed.
Partial(a, n, p) == \A k, m \in 1 .. N : k < m /\ m <= n /\ m # p => a[k] <= a[m]

Insertion(h) ==
  /\ SameNames(Content(h))
  /\ pc[h] \in {"sort"} \cup Swapping =>
       Partial(Content(h), i[h], Place(h)) /\ lo[h] = 1 /\ hi[h] = N + 1
  /\ pc[h] \in {"swap", "write1"} => events[j[h]] < events[j[h] - 1]
  /\ pc[h] = "write1" => held[h] = <<events[j[h] - 1], events[j[h]]>>
  /\ pc[h] = "search" => InOrder(events) /\ Bracketed(h)
  /\ pc[h] = "done" => (found[h] <=> Listed(want[h]))

Sorting ==
  /\ \A h \in Handler : pc[h] # "absent" => Insertion(h)
  /\ (\A h \in Handler : pc[h] = "absent") => events = configured

\* b is a with the elements at p and q swapped.
Swapped(a, b, p, q) ==
  /\ p \in 1 .. N /\ q \in 1 .. N
  /\ b[p] = a[q] /\ b[q] = a[p]
  /\ \A k \in 1 .. N : k # p /\ k # q => b[k] = a[k]

LEMMA SwapKeepsNames ==
  ASSUME NEW a, NEW b, NEW p, NEW q, Swapped(a, b, p, q), NEW e
  PROVE  Occurrences(b, e) = Occurrences(a, e)
<1>. USE DEF Swapped
<1>. DEFINE S == {k \in 1 .. N : a[k] = e}
            T == {k \in 1 .. N : b[k] = e}
            t == [k \in S |-> IF k = p THEN q ELSE IF k = q THEN p ELSE k]
<1>1. IsFiniteSet(S)
  <2>1. IsFiniteSet(1 .. N)
    BY EventSortAssumption, FS_Interval
  <2>. QED
    BY <2>1, FS_Subset
<1>2. t \in Bijection(S, T)
  <2>1. t \in [S -> T]
    OBVIOUS
  <2>2. \A x, y \in S : t[x] = t[y] => x = y
    OBVIOUS
  <2>3. \A y \in T : \E x \in S : t[x] = y
    <3>. SUFFICES ASSUME NEW y \in T PROVE \E x \in S : t[x] = y
      OBVIOUS
    <3>1. CASE y = p
      BY <3>1
    <3>2. CASE y = q
      BY <3>2
    <3>3. CASE y # p /\ y # q
      BY <3>3
    <3>. QED
      BY <3>1, <3>2, <3>3
  <2>. HIDE DEF S, T, t
  <2>. QED
    BY <2>1, <2>2, <2>3 DEF Bijection, Injection, Surjection, IsInjective
<1>3. Cardinality(T) = Cardinality(S)
  <2>. HIDE DEF S, T, t
  <2>. QED
    BY <1>1, <1>2, FS_Bijection DEF ExistsBijection
<1>. QED
  BY <1>3 DEF Occurrences

LEMMA SwapKeepsOrder ==
  ASSUME NEW a \in [1 .. N -> Names], NEW n \in Nat, NEW p \in 2 .. N, p <= n, N \in Nat,
         Partial(a, n, p), a[p] < a[p - 1],
         NEW b, b = [a EXCEPT ![p] = a[p - 1], ![p - 1] = a[p]]
  PROVE  Partial(b, n, p - 1)
<1>. SUFFICES ASSUME NEW k \in 1 .. N, NEW m \in 1 .. N, k < m, m <= n, m # p - 1
              PROVE  b[k] <= b[m]
  BY DEF Partial
<1>0. \A x \in 1 .. N : a[x] \in Nat
  BY EventSortAssumption
<1>1. /\ b[p] = a[p - 1] /\ b[p - 1] = a[p] /\ p - 1 \in 1 .. N
      /\ \A x \in 1 .. N : x # p /\ x # p - 1 => b[x] = a[x]
  OBVIOUS
<1>2. CASE m = p
  <2>1. CASE k = p - 1
    BY <1>0, <1>1, <1>2, <2>1
  <2>2. CASE k # p - 1
    <3>1. k < p - 1 /\ p - 1 <= n /\ p - 1 # p
      BY <1>2, <2>2
    <3>2. a[k] <= a[p - 1]
      BY <1>1, <3>1 DEF Partial
    <3>. QED
      BY <1>1, <1>2, <3>1, <3>2
  <2>. QED
    BY <2>1, <2>2
<1>3. CASE m # p
  <2>1. b[m] = a[m]
    BY <1>1, <1>3
  <2>2. CASE k = p
    BY <1>1, <1>3, <2>1, <2>2 DEF Partial
  <2>3. CASE k = p - 1
    <3>1. p < m
      BY <1>3, <2>3
    <3>. QED
      BY <1>1, <1>3, <2>1, <2>3, <3>1 DEF Partial
  <2>4. CASE k # p /\ k # p - 1
    BY <1>1, <1>3, <2>1, <2>4 DEF Partial
  <2>. QED
    BY <2>2, <2>3, <2>4
<1>. QED
  BY <1>2, <1>3

\* An element that is not out of order is in its place.
LEMMA Inserted ==
  ASSUME NEW a \in [1 .. N -> Names], N \in Nat, NEW n \in Nat, NEW p \in Nat, p >= 1, p <= n,
         n <= N, Partial(a, n, p), ~(p > 1 /\ a[p] < a[p - 1])
  PROVE  Partial(a, n + 1, n + 1)
<1>. SUFFICES ASSUME NEW k \in 1 .. N, NEW m \in 1 .. N, k < m, m <= n
              PROVE  a[k] <= a[m]
  BY DEF Partial
<1>0. \A x \in 1 .. N : a[x] \in Nat
  BY EventSortAssumption
<1>1. CASE m # p
  BY <1>1 DEF Partial
<1>2. CASE m = p
  <2>1. p - 1 \in 1 .. N /\ p - 1 < p /\ p > 1 /\ a[p - 1] <= a[p]
    BY <1>0, <1>2
  <2>2. CASE k = p - 1
    BY <1>2, <2>1, <2>2
  <2>3. CASE k # p - 1
    <3>1. k < p - 1 /\ p - 1 <= n /\ p - 1 # p
      BY <1>2, <2>1, <2>3
    <3>2. a[k] <= a[p - 1]
      BY <2>1, <3>1 DEF Partial
    <3>. QED
      BY <1>0, <1>2, <2>1, <3>2
  <2>. QED
    BY <2>2, <2>3
<1>. QED
  BY <1>1, <1>2

LEMMA InitSorting == Init => Sorting
<1>. SUFFICES ASSUME Init PROVE Sorting
  OBVIOUS
<1>1. ASSUME NEW h \in Handler PROVE Insertion(h)
  <2>1. /\ pc[h] \in {"absent", "sort"} /\ i[h] = 2 /\ j[h] = 2
        /\ lo[h] = 1 /\ hi[h] = N + 1 /\ events = configured
    BY DEF Init
  <2>2. Content(h) = configured /\ Place(h) = 2
    BY <2>1 DEF Content, Place
  <2>3. Partial(configured, 2, 2)
    BY EventSortAssumption DEF Partial
  <2>. QED
    BY <2>1, <2>2, <2>3 DEF Insertion, SameNames, Swapping
<1>. QED
  BY <1>1 DEF Init, Sorting

\* A name is in the slice exactly if it is in a slice with the same names.
LEMMA SameNamesListed ==
  ASSUME NEW a \in [1 .. N -> Names], configured \in [1 .. N -> Names], SameNames(a), NEW e \in Names
  PROVE  (\E k \in 1 .. N : a[k] = e) <=> Listed(e)
<1>1. ASSUME NEW b PROVE IsFiniteSet({k \in 1 .. N : b[k] = e})
  BY EventSortAssumption, FS_Interval, FS_Subset
<1>2. ASSUME NEW b PROVE Occurrences(b, e) = 0 <=> {k \in 1 .. N : b[k] = e} = {}
  BY <1>1, FS_EmptySet DEF Occurrences
<1>3. Occurrences(a, e) = Occurrences(configured, e)
  BY DEF SameNames
<1>4. {k \in 1 .. N : a[k] = e} = {} <=> {k \in 1 .. N : configured[k] = e} = {}
  BY <1>2, <1>3
<1>. QED
  BY <1>4 DEF Listed

LEMMA StepInsertion ==
  ASSUME TypeInv, NEW h \in Handler, pc[h] # "absent", Insertion(h), Step(h)
  PROVE  Insertion(h)'
<1>0. /\ \A k \in 1 .. N : events[k] \in Nat
      /\ N \in Nat /\ i[h] \in Nat /\ j[h] \in Nat /\ Bounds(h)
      /\ events \in [1 .. N -> Names] /\ configured \in [1 .. N -> Names] /\ want[h] \in Names
  BY Numbers DEF TypeInv, Typed
<1>1. UNCHANGED <<configured, want>>
  BY DEF Step, NextElement, Less, SwapRead, SwapWrite1, SwapWrite2, Sorted, Probe, Decide
<1>2. CASE NextElement(h)
  <2>1. /\ UNCHANGED <<events, pc, held, lo, hi, found>> /\ pc[h] = "sort"
        /\ i'[h] = i[h] + 1 /\ j'[h] = i[h] + 1 /\ i[h] <= N /\ ~OutOfOrder(h)
    BY <1>2 DEF NextElement, searchVars, TypeInv, Typed
  <2>2. Content(h) = events /\ Place(h) = j[h] /\ Content(h)' = events /\ Place(h)' = i[h] + 1
    BY <2>1 DEF Content, Place
  <2>3. Partial(events, i[h], j[h]) /\ lo[h] = 1 /\ hi[h] = N + 1 /\ SameNames(events)
    BY <2>1, <2>2 DEF Insertion
  <2>4. j[h] >= 1 /\ j[h] <= i[h]
    BY <1>0 DEF Bounds
  <2>5. Partial(events, i[h] + 1, i[h] + 1)
    BY <1>0, <2>1, <2>3, <2>4, Inserted DEF OutOfOrder
  <2>6. SameNames(Content(h))'
    BY <1>1, <2>2, <2>3 DEF SameNames
  <2>7. Partial(Content(h), i[h], Place(h))'
    BY <2>1, <2>2, <2>5 DEF Partial
  <2>. QED
    BY <2>1, <2>3, <2>6, <2>7 DEF Insertion
<1>3. CASE Less(h)
  <2>1. /\ UNCHANGED <<events, i, j, held, lo, hi, found>> /\ pc[h] = "sort" /\ pc'[h] = "swap"
        /\ events[j[h]] < events[j[h] - 1]
    BY <1>3 DEF Less, OutOfOrder, sortVars, searchVars, TypeInv, Typed
  <2>2. Content(h)' = Content(h) /\ Place(h)' = Place(h)
    BY <2>1 DEF Content, Place
  <2>3. SameNames(Content(h))'
    BY <1>1, <2>2 DEF Insertion, SameNames
  <2>4. Partial(Content(h), i[h], Place(h))'
    BY <2>1, <2>2 DEF Insertion, Partial
  <2>. QED
    BY <2>1, <2>3, <2>4 DEF Insertion
<1>4. CASE SwapRead(h)
  <2>1. /\ UNCHANGED <<events, i, j, lo, hi, found>> /\ pc[h] = "swap" /\ pc'[h] = "write1"
        /\ held'[h] = <<events[j[h] - 1], events[j[h]]>>
    BY <1>4 DEF SwapRead, searchVars, TypeInv, Typed
  <2>2. Content(h)' = Content(h) /\ Place(h)' = Place(h)
    BY <2>1 DEF Content, Place
  <2>3. SameNames(Content(h))'
    BY <1>1, <2>2 DEF Insertion, SameNames
  <2>4. Partial(Content(h), i[h], Place(h))'
    BY <2>1, <2>2 DEF Insertion, Partial, Swapping
  <2>. QED
    BY <2>1, <2>3, <2>4 DEF Insertion, Swapping
<1>5. CASE SwapWrite1(h)
  <2>1. /\ UNCHANGED <<i, j, held, lo, hi, found>> /\ pc[h] = "write1" /\ pc'[h] = "write2"
        /\ events' = [events EXCEPT ![j[h]] = held[h][1]]
    BY <1>5 DEF SwapWrite1, sortVars, searchVars, TypeInv, Typed
  <2>2. held[h] = <<events[j[h] - 1], events[j[h]]>> /\ events[j[h]] < events[j[h] - 1]
    BY <2>1 DEF Insertion
  <2>3. j[h] \in 2 .. N /\ j[h] \in 1 .. N /\ j[h] - 1 \in 1 .. N /\ j[h] <= i[h]
    BY <1>0, <2>1 DEF Bounds, Swapping
  <2>4. /\ Place(h)' = j[h] - 1
        /\ Content(h)' = [events EXCEPT ![j[h]] = events[j[h] - 1], ![j[h] - 1] = events[j[h]]]
    BY <2>1, <2>2 DEF Content, Place
  <2>5. Content(h) = events /\ Place(h) = j[h]
    BY <2>1 DEF Content, Place
  <2>6. SameNames(events) /\ Partial(events, i[h], j[h]) /\ lo[h] = 1 /\ hi[h] = N + 1
    BY <2>1, <2>5 DEF Insertion, Swapping
  <2>7. \A e : Occurrences(Content(h)', e) = Occurrences(events, e)
    <3>1. Swapped(events, Content(h)', j[h], j[h] - 1)
      BY <1>0, <2>3, <2>4 DEF Swapped
    <3>. QED
      BY <3>1, SwapKeepsNames
  <2>8. SameNames(Content(h))'
    BY <1>1, <2>6, <2>7 DEF SameNames, Occurrences
  <2>9. Partial(Content(h)', i[h], j[h] - 1)
    BY <1>0, <2>2, <2>3, <2>4, <2>6, SwapKeepsOrder
  <2>10. Partial(Content(h), i[h], Place(h))'
    BY <2>1, <2>4, <2>9 DEF Partial
  <2>. QED
    BY <2>1, <2>6, <2>8, <2>10 DEF Insertion
<1>6. CASE SwapWrite2(h)
  <2>1. /\ UNCHANGED <<i, held, lo, hi, found>> /\ pc[h] = "write2" /\ pc'[h] = "sort"
        /\ events' = [events EXCEPT ![j[h] - 1] = held[h][2]] /\ j'[h] = j[h] - 1
    BY <1>6 DEF SwapWrite2, searchVars, TypeInv, Typed
  <2>2. Content(h)' = Content(h) /\ Place(h)' = Place(h)
    BY <2>1 DEF Content, Place
  <2>3. SameNames(Content(h))'
    BY <1>1, <2>2 DEF Insertion, SameNames
  <2>4. Partial(Content(h), i[h], Place(h))'
    BY <2>1, <2>2 DEF Insertion, Partial, Swapping
  <2>. QED
    BY <2>1, <2>3, <2>4 DEF Insertion, Swapping
<1>7. CASE Sorted(h)
  <2>1. /\ UNCHANGED <<events, i, j, held, lo, hi, found>> /\ pc[h] = "sort" /\ pc'[h] = "search"
        /\ i[h] > N /\ j[h] = i[h]
    BY <1>0, <1>7 DEF Sorted, sortVars, searchVars, TypeInv, Typed, Bounds
  <2>2. Content(h) = events /\ Content(h)' = events /\ Place(h) = j[h]
    BY <2>1 DEF Content, Place
  <2>3. SameNames(events) /\ Partial(events, i[h], i[h]) /\ lo[h] = 1 /\ hi[h] = N + 1
    BY <2>1, <2>2 DEF Insertion
  <2>4. InOrder(events)
    BY <1>0, <2>1, <2>3 DEF InOrder, Partial
  <2>5. Bracketed(h)
    BY <1>0, <2>3 DEF Bracketed
  <2>6. SameNames(Content(h))'
    BY <1>1, <2>2, <2>3 DEF SameNames
  <2>7. InOrder(events)' /\ Bracketed(h)'
    BY <1>1, <2>1, <2>4, <2>5 DEF InOrder, Bracketed
  <2>. QED
    BY <2>1, <2>6, <2>7 DEF Insertion, Swapping
<1>8. CASE Probe(h)
  <2>1. UNCHANGED <<events, pc, i, j, held, found>> /\ pc[h] = "search"
    BY <1>8 DEF Probe, sortVars
  <2>2. Bracketed(h)' /\ InOrder(events)'
    BY <1>8, <2>1, ProbeBrackets DEF Insertion, InOrder
  <2>3. SameNames(Content(h))'
    BY <1>1, <2>1 DEF Insertion, SameNames, Content
  <2>. QED
    BY <2>1, <2>2, <2>3 DEF Insertion, Swapping
<1>9. CASE Decide(h)
  <2>1. UNCHANGED <<events, i, j, held, lo, hi>> /\ pc[h] = "search" /\ pc'[h] = "done"
    BY <1>9 DEF Decide, sortVars, TypeInv, Typed
  <2>2. Content(h) = events /\ Content(h)' = events
    BY <2>1 DEF Content
  <2>3. SameNames(events) /\ InOrder(events) /\ Bracketed(h)
    BY <2>1, <2>2 DEF Insertion
  <2>4. found'[h] <=> Listed(want[h])
    BY <1>0, <1>9, <2>3, DecideAnswers, SameNamesListed
  <2>5. SameNames(Content(h))'
    BY <1>1, <2>2, <2>3 DEF SameNames
  <2>6. (found[h] <=> Listed(want[h]))'
    BY <1>1, <2>4 DEF Listed
  <2>. QED
    BY <2>1, <2>5, <2>6 DEF Insertion, Swapping
<1>. QED
  BY <1>2, <1>3, <1>4, <1>5, <1>6, <1>7, <1>8, <1>9 DEF Step

AloneInv == TypeInv /\ (Alone => Sorting)

\* Who takes part does not change.
LEMMA AbsentStays == TypeInv /\ [Next]_vars => \A g \in Handler : pc'[g] = "absent" <=> pc[g] = "absent"
<1>. SUFFICES ASSUME TypeInv, [Next]_vars, NEW g \in Handler
              PROVE  pc'[g] = "absent" <=> pc[g] = "absent"
  OBVIOUS
<1>1. ASSUME NEW h \in Handler, Step(h) PROVE pc'[g] = "absent" <=> pc[g] = "absent"
  <2>1. CASE g = h
    BY <1>1, <2>1 DEF Step, NextElement, Less, SwapRead, SwapWrite1, SwapWrite2, Sorted, Probe, Decide,
                      TypeInv, Typed
  <2>. QED
    BY <1>1, <2>1, Others
<1>2. CASE AllDone \/ UNCHANGED vars
  BY <1>2 DEF AllDone, vars
<1>. QED
  BY <1>1, <1>2 DEF Next

LEMMA AloneInvariant == Spec => []AloneInv
<1>1. Init => AloneInv
  BY InitTyped, InitSorting DEF AloneInv
<1>2. AloneInv /\ [Next]_vars => AloneInv'
  <2>. SUFFICES ASSUME AloneInv, [Next]_vars, Alone' PROVE Sorting'
    BY NextTyped DEF AloneInv
  <2>1. Alone /\ Sorting /\ TypeInv
    BY AbsentStays DEF AloneInv, Alone
  <2>2. ASSUME NEW h \in Handler, Step(h) PROVE Sorting'
    <3>1. pc[h] # "absent"
      BY <2>2 DEF Step, NextElement, Less, SwapRead, SwapWrite1, SwapWrite2, Sorted, Probe, Decide
    <3>2. Insertion(h)'
      BY <2>1, <2>2, <3>1, StepInsertion DEF Sorting
    <3>3. pc'[h] # "absent" /\ \A g \in Handler : pc'[g] # "absent" => g = h
      BY <2>1, <3>1, AbsentStays DEF Alone
    <3>. QED
      BY <3>2, <3>3 DEF Sorting
  <2>3. CASE AllDone \/ UNCHANGED vars
    BY <2>1, <2>3 DEF AllDone, vars, sortVars, searchVars, Sorting, Insertion, Content, Place, SameNames,
                      Occurrences, Partial, InOrder, Bracketed, Listed
  <2>. QED
    BY <2>2, <2>3 DEF Next
<1>. QED
  BY <1>1, <1>2, PTL DEF Spec

\* A handler alone forwards its event exactly if the file lists it, in whatever order.
THEOREM ForwardsWhenAloneHolds == Spec => []ForwardsWhenAlone
<1>1. AloneInv => ForwardsWhenAlone
  BY DEF AloneInv, Sorting, Insertion, ForwardsWhenAlone, ForwardsListedEvents
<1>. QED
  BY <1>1, AloneInvariant, PTL

\* A handler alone loses no name of the file's list to its swaps.
THEOREM AloneLosesNothingHolds == Spec => []AloneLosesNothing
<1>1. AloneInv => AloneLosesNothing
  <2>. SUFFICES ASSUME AloneInv, Alone, \A h \in Handler : pc[h] # "write2", NEW e \in Names
                PROVE  Occurrences(events, e) = Occurrences(configured, e)
    BY DEF AloneLosesNothing, SameNames
  <2>1. CASE \A h \in Handler : pc[h] = "absent"
    BY <2>1 DEF AloneInv, Sorting
  <2>2. ASSUME NEW h \in Handler, pc[h] # "absent"
        PROVE  Occurrences(events, e) = Occurrences(configured, e)
    BY <2>2 DEF AloneInv, Sorting, Insertion, SameNames, Content
  <2>. QED
    BY <2>1, <2>2
<1>. QED
  BY <1>1, AloneInvariant, PTL

-----------------------------------------------------------------------------
(* Whatever races *)

\* What a swap has read is listed too.
OnlyListed ==
  /\ ForwardsOnlyListed
  /\ \A h \in Handler :
       pc[h] \in {"write1", "write2"} => Listed(held[h][1]) /\ Listed(held[h][2])

LEMMA InitOnlyListed == Init => OnlyListed
<1>. SUFFICES ASSUME Init PROVE OnlyListed
  OBVIOUS
<1>1. events = configured /\ \A h \in Handler : pc[h] \in {"absent", "sort"} /\ ~found[h]
  BY DEF Init
<1>2. \A k \in 1 .. N : Listed(configured[k])
  BY DEF Listed
<1>. QED
  BY <1>1, <1>2 DEF OnlyListed, ForwardsOnlyListed

LEMMA StepOnlyListed ==
  ASSUME TypeInv, OnlyListed, NEW h \in Handler, Step(h)
  PROVE  OnlyListed'
<1>. USE DEF TypeInv, Typed, sortVars, searchVars
<1>1. configured' = configured /\ want' = want
  BY DEF Step, NextElement, Less, SwapRead, SwapWrite1, SwapWrite2, Sorted, Probe, Decide
<1>2. \A e : Listed(e)' <=> Listed(e)
  BY <1>1 DEF Listed
<1>3. Bounds(h) /\ i[h] \in Nat /\ j[h] \in Nat /\ N \in Nat
  BY EventSortAssumption
<1>4. CASE NextElement(h) \/ Less(h) \/ Sorted(h)
  <2>1. events' = events /\ found' = found /\ held' = held
    BY <1>4 DEF NextElement, Less, Sorted
  <2>2. \A g \in Handler : pc'[g] \in {"write1", "write2"} => pc'[g] = pc[g]
    BY <1>4 DEF NextElement, Less, Sorted
  <2>. QED
    BY <1>1, <1>2, <2>1, <2>2 DEF OnlyListed, ForwardsOnlyListed
<1>5. CASE Probe(h)
  <2>1. events' = events /\ found' = found /\ held' = held /\ pc' = pc
    BY <1>5 DEF Probe
  <2>. QED
    BY <1>1, <1>2, <2>1 DEF OnlyListed, ForwardsOnlyListed
<1>6. CASE SwapRead(h)
  <2>1. events' = events /\ found' = found
    BY <1>6 DEF SwapRead
  <2>2. j[h] \in 1 .. N /\ j[h] - 1 \in 1 .. N
    BY <1>3, <1>6 DEF SwapRead, Bounds, Swapping
  <2>3. held'[h] = <<events[j[h] - 1], events[j[h]]>>
    BY <1>6 DEF SwapRead
  <2>4. Listed(held'[h][1]) /\ Listed(held'[h][2])
    BY <2>2, <2>3 DEF OnlyListed, ForwardsOnlyListed
  <2>5. \A g \in Handler \ {h} : held'[g] = held[g] /\ pc'[g] = pc[g]
    BY Others
  <2>. QED
    BY <1>1, <1>2, <2>1, <2>4, <2>5 DEF OnlyListed, ForwardsOnlyListed
<1>7. CASE SwapWrite1(h) \/ SwapWrite2(h)
  <2>1. found' = found /\ held' = held /\ pc[h] \in {"write1", "write2"}
    BY <1>7 DEF SwapWrite1, SwapWrite2
  <2>2. Listed(held[h][1]) /\ Listed(held[h][2])
    BY <2>1 DEF OnlyListed
  <2>3. \A k \in 1 .. N : events'[k] \in {events[k], held[h][1], held[h][2]}
    BY <1>7 DEF SwapWrite1, SwapWrite2
  <2>4. \A k \in 1 .. N : Listed(events'[k])
    BY <2>2, <2>3 DEF OnlyListed, ForwardsOnlyListed
  <2>5. \A g \in Handler \ {h} : pc'[g] = pc[g]
    BY Others
  <2>. QED
    BY <1>1, <1>2, <2>1, <2>2, <2>4, <2>5 DEF OnlyListed, ForwardsOnlyListed
<1>8. CASE Decide(h)
  <2>1. events' = events /\ held' = held
    BY <1>8 DEF Decide
  <2>2. found'[h] => lo[h] <= N /\ events[lo[h]] = want[h]
    BY <1>8 DEF Decide
  <2>3. found'[h] => Listed(want[h])
    BY <1>3, <2>2 DEF OnlyListed, ForwardsOnlyListed
  <2>4. \A g \in Handler \ {h} : pc'[g] = pc[g] /\ found'[g] = found[g]
    BY Others
  <2>5. pc'[h] = "done"
    BY <1>8 DEF Decide
  <2>. QED
    BY <1>1, <1>2, <2>1, <2>3, <2>4, <2>5 DEF OnlyListed, ForwardsOnlyListed
<1>. QED
  BY <1>4, <1>5, <1>6, <1>7, <1>8 DEF Step

\* Any number of handlers on any list: what the race may cost is an event that is not
\* forwarded, never one forwarded to a plugin that does not list it.
THEOREM ForwardsOnlyListedHolds == Spec => []ForwardsOnlyListed
<1>1. TypeInv /\ OnlyListed /\ [Next]_vars => OnlyListed'
  <2>1. CASE AllDone \/ UNCHANGED vars
    BY <2>1 DEF AllDone, vars, sortVars, searchVars, OnlyListed, ForwardsOnlyListed, Listed
  <2>. QED
    BY <2>1, StepOnlyListed DEF Next
<1>2. OnlyListed => ForwardsOnlyListed
  BY DEF OnlyListed
<1>. QED
  BY <1>1, <1>2, InitTyped, NextTyped, InitOnlyListed, PTL DEF Spec
=============================================================================
