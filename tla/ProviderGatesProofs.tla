------------------------- MODULE ProviderGatesProofs -------------------------
(***************************************************************************)
(* Proofs about ProviderGates for any number of calls and runs, any limits *)
(* and any executor size.                                                  *)
(***************************************************************************)
EXTENDS ProviderGates, FiniteSetTheorems, TLAPS

\* The calls among S that belong to run r.
Of(S, r) == {c \in S : RunOf[c] = r}

\* The shape of the state; the upper bounds of TypeOK follow from conservation.
Shape ==
  /\ pc \in [Calls -> Points]
  /\ run \in [Runs -> {"open", "closing", "closed", "torn"}]
  /\ gate \in [Runs -> Nat]
  /\ process \in Nat

\* Calls that claim a permit of the process, and of their run, lost ones included.
Flown == Flying \cup Dropped
Held == Holding \cup Dropped

\* Every permit is free, held or lost to a dropped call.
Conserved ==
  /\ process + Cardinality(Flown) = ProcessLimit
  /\ \A r \in Runs : gate[r] + Cardinality(Of(Held, r)) = RunLimit

\* The inductive invariant: conservation, a closed run has no call under way, and calls
\* are dropped only where a closing run can be cancelled.
GatesInv ==
  /\ Shape
  /\ Conserved
  /\ \A c \in Calls : run[RunOf[c]] = "closed" => pc[c] \in {"new", "done"}
  /\ ~Interrupts => Dropped = {}

-----------------------------------------------------------------------------
\* Every set of calls is finite and has a natural number of elements.
LEMMA Counted ==
  ASSUME NEW S \in SUBSET Calls
  PROVE  IsFiniteSet(S) /\ Cardinality(S) \in Nat
  BY CallsAssumption, FS_Subset, FS_CardinalityType

\* A call that joins a set of calls makes it larger by one.
LEMMA OneMore ==
  ASSUME NEW S \in SUBSET Calls, NEW c \in Calls \ S
  PROVE  Cardinality(S \cup {c}) = Cardinality(S) + 1
  BY Counted, FS_AddElement

\* A call that leaves a set of calls makes it smaller by one.
LEMMA OneLess ==
  ASSUME NEW S \in SUBSET Calls, NEW c \in S
  PROVE  Cardinality(S \ {c}) = Cardinality(S) - 1
  BY Counted, FS_RemoveElement

\* A step that changes no call's claims and no gate conserves the permits.
LEMMA NoTransfer ==
  ASSUME Conserved, Flown' = Flown, Held' = Held, gate' = gate, process' = process
  PROVE  Conserved'
  BY DEF Conserved, Of

\* A call that takes a permit of the process conserves the process gate.
LEMMA ProcessTaken ==
  ASSUME Shape, Conserved, NEW c \in Calls \ Flown, process > 0, process' = process - 1,
         Flown' = Flown \cup {c}, Held' = Held, gate' = gate
  PROVE  Conserved'
<1>1. Flown \in SUBSET Calls
  BY DEF Flown, Flying, Dropped
<1>2. Cardinality(Flown') = Cardinality(Flown) + 1
  BY <1>1, OneMore
<1>3. process' + Cardinality(Flown') = ProcessLimit
  BY <1>1, <1>2, Counted, LimitsAssumption DEF Conserved, Shape
<1> QED BY <1>3 DEF Conserved, Of

\* A call that returns its permit of the process conserves the process gate.
LEMMA ProcessReturned ==
  ASSUME Shape, Conserved, NEW c \in Flown, process' = process + 1,
         Flown' = Flown \ {c}, Held' = Held, gate' = gate
  PROVE  Conserved'
<1>1. Flown \in SUBSET Calls
  BY DEF Flown, Flying, Dropped
<1>2. Cardinality(Flown') = Cardinality(Flown) - 1
  BY <1>1, OneLess
<1>3. process' + Cardinality(Flown') = ProcessLimit
  BY <1>1, <1>2, Counted, LimitsAssumption DEF Conserved, Shape
<1> QED BY <1>3 DEF Conserved, Of

\* A call that takes a permit of its run conserves the gates of all runs.
LEMMA RunTaken ==
  ASSUME Shape, Conserved, NEW c \in Calls \ Held, gate[RunOf[c]] > 0,
         gate' = [gate EXCEPT ![RunOf[c]] = @ - 1], Held' = Held \cup {c},
         Flown' = Flown, process' = process
  PROVE  Conserved'
<1>1. Held \in SUBSET Calls /\ RunOf[c] \in Runs
  BY CallsAssumption DEF Held, Flown, Holding, Flying, Dropped
<1>2. ASSUME NEW r \in Runs
      PROVE  gate'[r] + Cardinality(Of(Held', r)) = RunLimit
  <2>1. CASE r # RunOf[c]
    <3>1. Of(Held', r) = Of(Held, r)
      BY <2>1 DEF Of
    <3> QED BY <2>1, <3>1 DEF Conserved, Shape
  <2>2. CASE r = RunOf[c]
    <3>1. Of(Held', r) = Of(Held, r) \cup {c} /\ c \notin Of(Held, r)
      BY <2>2 DEF Of
    <3>2. Of(Held, r) \in SUBSET Calls
      BY <1>1 DEF Of
    <3>3. Cardinality(Of(Held', r)) = Cardinality(Of(Held, r)) + 1
      BY <3>1, <3>2, OneMore
    <3> QED BY <1>1, <2>2, <3>2, <3>3, Counted, LimitsAssumption DEF Conserved, Shape
  <2> QED BY <2>1, <2>2
<1> QED BY <1>2 DEF Conserved

\* A call that returns its permit of its run conserves the gates of all runs.
LEMMA RunReturned ==
  ASSUME Shape, Conserved, NEW c \in Held,
         gate' = [gate EXCEPT ![RunOf[c]] = @ + 1], Held' = Held \ {c},
         Flown' = Flown, process' = process
  PROVE  Conserved'
<1>1. Held \in SUBSET Calls /\ c \in Calls /\ RunOf[c] \in Runs
  BY CallsAssumption DEF Held, Flown, Holding, Flying, Dropped
<1>2. ASSUME NEW r \in Runs
      PROVE  gate'[r] + Cardinality(Of(Held', r)) = RunLimit
  <2>1. CASE r # RunOf[c]
    <3>1. Of(Held', r) = Of(Held, r)
      BY <2>1 DEF Of
    <3> QED BY <2>1, <3>1 DEF Conserved, Shape
  <2>2. CASE r = RunOf[c]
    <3>1. Of(Held', r) = Of(Held, r) \ {c} /\ c \in Of(Held, r)
      BY <2>2 DEF Of
    <3>2. Of(Held, r) \in SUBSET Calls
      BY <1>1 DEF Of
    <3>3. Cardinality(Of(Held', r)) = Cardinality(Of(Held, r)) - 1
      BY <3>1, <3>2, OneLess
    <3> QED BY <1>1, <2>2, <3>2, <3>3, Counted, LimitsAssumption DEF Conserved, Shape
  <2> QED BY <2>1, <2>2
<1> QED BY <1>2 DEF Conserved

-----------------------------------------------------------------------------
\* Initially all permits are free and nothing is closed.
LEMMA GatesInit == Init => GatesInv
<1> SUFFICES ASSUME Init PROVE GatesInv
  OBVIOUS
<1>1. Flown = {} /\ \A r \in Runs : Of(Held, r) = {}
  BY DEF Init, Flown, Held, Flying, Holding, Dropped, Of
<1>2. Cardinality({}) = 0
  BY FS_EmptySet
<1>3. Conserved
  BY <1>1, <1>2, LimitsAssumption DEF Init, Conserved
<1>4. Shape
  BY LimitsAssumption DEF Init, Shape, Points
<1> QED BY <1>3, <1>4 DEF Init, GatesInv, Dropped

\* A step that moves one call, of a run that is not closed or to its end, keeps the
\* shape and the quiet of closed runs.
LEMMA MoveKeeps ==
  ASSUME GatesInv, NEW c \in Calls, NEW p \in Points \ {"dropped"}, Goto(c, p), run' = run,
         pc[c] \notin {"new", "done"} \/ run[RunOf[c]] = "open",
         gate' \in [Runs -> Nat], process' \in Nat
  PROVE  /\ Shape'
         /\ \A d \in Calls : run'[RunOf[d]] = "closed" => pc'[d] \in {"new", "done"}
         /\ ~Interrupts => Dropped' = {}
  BY CallsAssumption DEF GatesInv, Shape, Goto, Dropped

\* Every step of the gates preserves the invariant.
LEMMA GatesStep == GatesInv /\ [Next]_vars => GatesInv'
<1> SUFFICES ASSUME GatesInv, [Next]_vars PROVE GatesInv'
  OBVIOUS
<1> USE CallsAssumption
<1>1. ASSUME NEW c \in Calls, Request(c) PROVE GatesInv'
  <2>1. Conserved'
    <3>1. Flown' = Flown /\ Held' = Held
      BY <1>1 DEF Request, Goto, Flown, Held, Flying, Holding, Dropped, GatesInv, Shape
    <3> QED BY <1>1, <3>1, NoTransfer DEF Request, GatesInv
  <2> QED BY <1>1, <2>1, MoveKeeps DEF Request, GatesInv, Shape, Points
<1>2. ASSUME NEW c \in Calls, TryRun(c) PROVE GatesInv'
  <2>1. Conserved'
    <3>1. Flown' = Flown /\ Held' = Held \cup {c} /\ c \notin Held
      BY <1>2 DEF TryRun, Goto, Flown, Held, Flying, Holding, Dropped, GatesInv, Shape
    <3> QED BY <1>2, <3>1, RunTaken DEF TryRun, GatesInv
  <2>2. gate' \in [Runs -> Nat]
    BY <1>2 DEF TryRun, GatesInv, Shape
  <2> QED BY <1>2, <2>1, <2>2, MoveKeeps DEF TryRun, GatesInv, Shape, Points
<1>3. ASSUME NEW c \in Calls, TryProcess(c) PROVE GatesInv'
  <2>1. CASE process > 0
    <3>1. Flown' = Flown \cup {c} /\ Held' = Held /\ c \notin Flown
      BY <1>3, <2>1 DEF TryProcess, Goto, Flown, Held, Flying, Holding, Dropped, GatesInv, Shape
    <3>2. Conserved'
      BY <1>3, <2>1, <3>1, ProcessTaken DEF TryProcess, GatesInv
    <3>3. process' \in Nat
      BY <1>3, <2>1 DEF TryProcess, GatesInv, Shape
    <3> QED BY <1>3, <2>1, <3>2, <3>3, MoveKeeps DEF TryProcess, GatesInv, Shape, Points
  <2>2. CASE ~(process > 0)
    <3>1. Flown' = Flown /\ Held' = Held
      BY <1>3, <2>2 DEF TryProcess, Goto, Flown, Held, Flying, Holding, Dropped, GatesInv, Shape
    <3>2. Conserved'
      BY <1>3, <2>2, <3>1, NoTransfer DEF TryProcess, GatesInv
    <3> QED BY <1>3, <2>2, <3>2, MoveKeeps DEF TryProcess, GatesInv, Shape, Points
  <2> QED BY <2>1, <2>2
<1>4. ASSUME NEW c \in Calls, BackOff(c) PROVE GatesInv'
  <2>1. Conserved'
    <3>1. Flown' = Flown /\ Held' = Held \ {c} /\ c \in Held
      BY <1>4 DEF BackOff, Goto, Flown, Held, Flying, Holding, Dropped, GatesInv, Shape
    <3> QED BY <1>4, <3>1, RunReturned DEF BackOff, GatesInv
  <2>2. gate' \in [Runs -> Nat]
    BY <1>4 DEF BackOff, GatesInv, Shape
  <2> QED BY <1>4, <2>1, <2>2, MoveKeeps DEF BackOff, GatesInv, Shape, Points
<1>5. ASSUME NEW c \in Calls, GiveUp(c) \/ EndActive(c) \/ StartWork(c) \/ EndWork(c) PROVE GatesInv'
  <2>1. Conserved'
    <3>1. Flown' = Flown /\ Held' = Held
      BY <1>5 DEF GiveUp, EndActive, StartWork, EndWork, Goto, Flown, Held, Flying, Holding, Dropped, GatesInv, Shape
    <3> QED BY <1>5, <3>1, NoTransfer DEF GiveUp, EndActive, StartWork, EndWork, GatesInv
  <2> QED BY <1>5, <2>1, MoveKeeps DEF GiveUp, EndActive, StartWork, EndWork, GatesInv, Shape, Points
<1>6. ASSUME NEW c \in Calls, Release(c) PROVE GatesInv'
  <2>1. Conserved'
    <3>1. Flown' = Flown \ {c} /\ Held' = Held /\ c \in Flown
      BY <1>6 DEF Release, Goto, Flown, Held, Flying, Holding, Dropped, GatesInv, Shape
    <3> QED BY <1>6, <3>1, ProcessReturned DEF Release, GatesInv
  <2>2. process' \in Nat
    BY <1>6 DEF Release, GatesInv, Shape
  <2> QED BY <1>6, <2>1, <2>2, MoveKeeps DEF Release, GatesInv, Shape, Points
<1>7. ASSUME NEW c \in Calls, ReleaseRun(c) PROVE GatesInv'
  <2>1. Conserved'
    <3>1. Flown' = Flown /\ Held' = Held \ {c} /\ c \in Held
      BY <1>7 DEF ReleaseRun, Goto, Flown, Held, Flying, Holding, Dropped, GatesInv, Shape
    <3> QED BY <1>7, <3>1, RunReturned DEF ReleaseRun, GatesInv
  <2>2. gate' \in [Runs -> Nat]
    BY <1>7 DEF ReleaseRun, GatesInv, Shape
  <2> QED BY <1>7, <2>1, <2>2, MoveKeeps DEF ReleaseRun, GatesInv, Shape, Points
<1>8. ASSUME NEW r \in Runs, BeginClose(r) \/ Close(r) PROVE GatesInv'
  <2>1. Conserved'
    BY <1>8, NoTransfer DEF BeginClose, Close, Flown, Held, Flying, Holding, Dropped, GatesInv
  <2>2. Shape'
    BY <1>8 DEF BeginClose, Close, GatesInv, Shape
  <2>3. ASSUME NEW c \in Calls, run'[RunOf[c]] = "closed" PROVE pc'[c] \in {"new", "done"}
    BY <1>8, <2>3 DEF BeginClose, Close, GatesInv, Shape
  <2> QED BY <1>8, <2>1, <2>2, <2>3 DEF BeginClose, Close, Dropped, GatesInv
<1>9. ASSUME NEW r \in Runs, TearDown(r) PROVE GatesInv'
  <2>1. Flown' = Flown /\ Held' = Held
    BY <1>9 DEF TearDown, Flown, Held, Flying, Holding, Dropped, GatesInv, Shape
  <2>2. Conserved'
    BY <1>9, <2>1, NoTransfer DEF TearDown, GatesInv
  <2>3. Shape'
    BY <1>9 DEF TearDown, GatesInv, Shape, Points
  <2>4. ASSUME NEW c \in Calls, run'[RunOf[c]] = "closed" PROVE pc'[c] \in {"new", "done"}
    BY <1>9, <2>4 DEF TearDown, GatesInv, Shape
  <2> QED BY <1>9, <2>2, <2>3, <2>4 DEF TearDown, GatesInv
<1>10. CASE UNCHANGED vars
  <2>1. Conserved'
    BY <1>10, NoTransfer DEF vars, Flown, Held, Flying, Holding, Dropped, GatesInv
  <2> QED BY <1>10, <2>1 DEF vars, GatesInv, Shape, Dropped
<1> QED
  BY <1>1, <1>2, <1>3, <1>4, <1>5, <1>6, <1>7, <1>8, <1>9, <1>10
     DEF Next, Step, Coroutine

\* The invariant holds throughout.
LEMMA Gates == Spec => []GatesInv
  BY GatesInit, GatesStep, PTL DEF Spec

-----------------------------------------------------------------------------
\* Exactly the calls dropped from an executor's queue lose their permits: failures,
\* refusals, disconnects and every other cancellation lose none.
THEOREM DroppedCallsLose == Spec => []OnlyDroppedCallsLose
<1>1. GatesInv => OnlyDroppedCallsLose
  BY DEF GatesInv, Conserved, OnlyDroppedCallsLose, Of, Flown, Held
<1> QED BY <1>1, Gates, PTL

\* While closing runs are not cancelled, every permit is free or belongs to a call that
\* will return it.
THEOREM PermitsAreConserved ==
  ASSUME ~Interrupts
  PROVE  Spec => []PermitsConserved
<1>1. GatesInv => PermitsConserved
  <2> SUFFICES ASSUME GatesInv PROVE PermitsConserved
    OBVIOUS
  <2>1. Flown = Flying /\ Held = Holding
    BY DEF GatesInv, Flown, Held
  <2> QED BY <2>1 DEF GatesInv, Conserved, PermitsConserved, Of
<1> QED BY <1>1, Gates, PTL

\* The semaphores stay within their bounds: none is ever released once too often.
THEOREM TypeCorrect == Spec => []TypeOK
<1>1. GatesInv => TypeOK
  <2> SUFFICES ASSUME GatesInv PROVE TypeOK
    OBVIOUS
  <2>1. Flown \in SUBSET Calls /\ \A r \in Runs : Of(Held, r) \in SUBSET Calls
    BY DEF Flown, Held, Flying, Holding, Dropped, Of
  <2>2. process \in 0..ProcessLimit
    BY <2>1, Counted, LimitsAssumption DEF GatesInv, Shape, Conserved
  <2>3. \A r \in Runs : gate[r] \in 0..RunLimit
    BY <2>1, Counted, LimitsAssumption DEF GatesInv, Shape, Conserved
  <2> QED BY <2>2, <2>3 DEF GatesInv, Shape, TypeOK
<1> QED BY <1>1, Gates, PTL

\* Calls in flight respect the limits of the process and of their run.
THEOREM FlightsAreBounded == Spec => []FlightsBounded
<1>1. GatesInv => FlightsBounded
  <2> SUFFICES ASSUME GatesInv PROVE FlightsBounded
    OBVIOUS
  <2>1. Flown \in SUBSET Calls /\ Flying \in SUBSET Flown
    BY DEF Flown, Flying, Dropped
  <2>2. Cardinality(Flying) <= Cardinality(Flown)
    BY <2>1, Counted, FS_Subset
  <2>3. Cardinality(Flying) <= ProcessLimit
    BY <2>1, <2>2, Counted, LimitsAssumption DEF GatesInv, Shape, Conserved
  <2>4. ASSUME NEW r \in Runs PROVE Cardinality(Of(Flying, r)) <= RunLimit
    <3>1. Of(Held, r) \in SUBSET Calls /\ Of(Flying, r) \in SUBSET Of(Held, r)
      BY DEF Of, Held, Holding, Flying, Dropped
    <3>2. Cardinality(Of(Flying, r)) <= Cardinality(Of(Held, r))
      BY <3>1, Counted, FS_Subset
    <3> QED BY <3>1, <3>2, Counted, LimitsAssumption DEF GatesInv, Shape, Conserved
  <2> QED BY <2>3, <2>4 DEF FlightsBounded, Of
<1> QED BY <1>1, Gates, PTL

\* Nothing runs in a run whose HTTP clients are closed.
THEOREM ClosedIsQuiet == Spec => []ClosedRunsAreQuiet
<1>1. GatesInv => ClosedRunsAreQuiet
  BY DEF GatesInv, ClosedRunsAreQuiet
<1> QED BY <1>1, Gates, PTL
=============================================================================
