------------------------- MODULE ConfigAgentProofs -------------------------
(* Theorems about the configuration agent, for every set of file texts. *)
EXTENDS ConfigAgent, TLAPS

\* The agent's state is well typed.
THEOREM TypeCorrect == Spec => []TypeOK
<1>1. Init => TypeOK
  BY DEF Init, TypeOK, Nil
<1>2. TypeOK /\ [Next]_vars => TypeOK'
  <2>. SUFFICES ASSUME TypeOK, [Next]_vars
                PROVE  TypeOK'
    OBVIOUS
  <2>. USE DEF TypeOK, Nil
  <2>1. ASSUME NEW c \in Contents, EditFile(c)
        PROVE  TypeOK'
    BY <2>1 DEF EditFile
  <2>2. CASE Start \/ Tick
    BY <2>2 DEF Start, Tick, ReadFile
  <2>3. ASSUME NEW from, NEW onNil \in {"select"}, NEW onErr \in {"select", "failed"},
               FinishLoad(from, onNil, onErr)
        PROVE  TypeOK'
    BY <2>3 DEF FinishLoad, Publishes
  <2>4. CASE StartReturn \/ TickReturn
    BY <2>3, <2>4 DEF StartReturn, TickReturn
  <2>5. CASE SeeStop \/ StopCall \/ StopReturn
    BY <2>5 DEF SeeStop, StopCall, StopReturn
  <2>6. CASE UNCHANGED vars
    BY <2>6 DEF vars
  <2>. QED
    BY <2>1, <2>2, <2>4, <2>5, <2>6 DEF Next, Loader
<1>. QED
  BY <1>1, <1>2, PTL DEF Spec

\* The inductive form of PublishedIsValid: configuration and digest are either
\* both absent or belong together, and they are present once Start returned nil.
Paired ==
  \/ conf = Nil /\ md5Sum = Nil
  \/ \E c \in Valid : conf = Parsed(c) /\ md5Sum = Digest(c)
PublishedInv ==
  /\ Paired
  /\ agent \in {"select", "loading", "stopped"} => conf # Nil

\* A finished load keeps configuration and digest paired, and leaves a
\* configuration behind whenever it returns nil.
LEMMA FinishLoadPublishes ==
  ASSUME NEW from, NEW onNil, NEW onErr, Paired, FinishLoad(from, onNil, onErr)
  PROVE  /\ Paired'
         /\ \/ agent' = onErr /\ UNCHANGED conf
            \/ agent' = onNil /\ conf' # Nil
<1>1. CASE Rejects(buf)
  BY <1>1 DEF FinishLoad, Paired, Rejects, Skips, Publishes, Digest, Parsed, Nil
<1>2. CASE Skips(buf)
  BY <1>2 DEF FinishLoad, Paired, Rejects, Skips, Publishes, Digest, Parsed, Nil
<1>3. CASE Publishes(buf)
  BY <1>3 DEF FinishLoad, Paired, Rejects, Skips, Publishes, Digest, Parsed, Nil
<1>. QED
  BY <1>1, <1>2, <1>3 DEF FinishLoad

\* Whatever a handler is given passed Validate and matches its digest.
THEOREM PublishedAlwaysValid == Spec => []PublishedIsValid
<1>1. Init => PublishedInv
  BY DEF Init, PublishedInv, Paired, Nil
<1>2. PublishedInv /\ [Next]_vars => PublishedInv'
  <2>. SUFFICES ASSUME PublishedInv, [Next]_vars
                PROVE  PublishedInv'
    OBVIOUS
  <2>1. CASE StartReturn \/ TickReturn
    BY <2>1, FinishLoadPublishes
       DEF StartReturn, TickReturn, PublishedInv, FinishLoad
  <2>2. CASE (\E c \in Contents : EditFile(c)) \/ Start \/ Tick \/ SeeStop
               \/ StopCall \/ StopReturn \/ UNCHANGED vars
    BY <2>2 DEF EditFile, Start, Tick, ReadFile, SeeStop, StopCall, StopReturn,
                vars, PublishedInv, Paired
  <2>. QED
    BY <2>1, <2>2 DEF Next, Loader
<1>3. PublishedInv => PublishedIsValid
  BY DEF PublishedInv, Paired, PublishedIsValid
<1>. QED
  BY <1>1, <1>2, <1>3, PTL DEF Spec

\* Once Stop has returned the timer goroutine is gone ...
StoppedInv == stop = "returned" => agent = "stopped"

\* ... so nothing publishes any more.
THEOREM NoPublishAfterStopHolds == Spec => NoPublishAfterStop
<1>1. Init => StoppedInv
  BY DEF Init, StoppedInv
<1>2. StoppedInv /\ [Next]_vars => StoppedInv'
  BY DEF StoppedInv, Next, Loader, EditFile, Start, StartReturn, Tick, TickReturn,
         ReadFile, FinishLoad, SeeStop, StopCall, StopReturn, vars
<1>3. StoppedInv /\ [Next]_vars
        => [stop = "returned" => UNCHANGED <<conf, md5Sum>>]_vars
  BY DEF StoppedInv, Next, Loader, EditFile, Start, StartReturn, Tick, TickReturn,
         ReadFile, FinishLoad, SeeStop, StopCall, StopReturn, vars
<1>. QED
  BY <1>1, <1>2, <1>3, PTL DEF Spec, NoPublishAfterStop
=============================================================================
