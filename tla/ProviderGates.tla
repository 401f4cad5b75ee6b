---------------------------- MODULE ProviderGates ----------------------------
(***************************************************************************)
(* The permits of provider calls (backend/app/routing/runtime.py): every   *)
(* call of one provider kind holds a permit of its run and one of the      *)
(* process.  A run is an event loop in a thread of its own, with an        *)
(* executor for blocking calls; loops and executor threads interleave at   *)
(* each semaphore operation, while a loop does not leave a coroutine that  *)
(* is between two awaits.  Kinds have separate gates: one is modelled.     *)
(***************************************************************************)
EXTENDS Naturals, FiniteSets

CONSTANTS
  Calls,         \* calls of one provider kind, an attempt of a retry each
  Runs,
  RunOf,         \* the run a call belongs to
  Threaded,      \* calls made with threaded(); the others use limited()
  RunLimit,      \* LIMITS[kind][0]
  ProcessLimit,  \* LIMITS[kind][1]
  Threads,       \* size of a loop's executor
  Interrupts     \* TRUE: a run's task may be cancelled while run_context closes

ASSUME CallsAssumption == IsFiniteSet(Calls) /\ RunOf \in [Calls -> Runs] /\ Threaded \subseteq Calls
ASSUME LimitsAssumption == RunLimit \in Nat \ {0} /\ ProcessLimit \in Nat \ {0} /\ Threads \in Nat \ {0}
ASSUME InterruptsAssumption == Interrupts \in BOOLEAN

VARIABLES
  pc,        \* where a call is
  run,       \* a run's context: open, closing (cancelled is set), closed or torn
  gate,      \* free permits of each run
  process    \* free permits of the process

vars == <<pc, run, gate, process>>

\* dropped: queued in the executor and cancelled there, so its function never runs.
Points == {"new", "waiting", "gated", "refused", "active", "queued", "working",
           "release", "releaseRun", "done", "dropped"}

Init ==
  /\ pc = [c \in Calls |-> "new"]
  /\ run = [r \in Runs |-> "open"]
  /\ gate = [r \in Runs |-> RunLimit]
  /\ process = ProcessLimit

\* The loop of a run is at an await: none of its coroutines is between two semaphore operations.
InLoop(c) == pc[c] \in {"gated", "refused"} \/ (c \notin Threaded /\ pc[c] \in {"release", "releaseRun"})
AtAwait(r) == \A c \in Calls : RunOf[c] = r => ~InLoop(c)

Goto(c, p) == pc' = [pc EXCEPT ![c] = p]

\* Calls that hold a permit of the process, and calls that hold one of their run.
Flying == {c \in Calls : pc[c] \in {"active", "queued", "working", "release"}}
Holding == {c \in Calls : pc[c] \in {"gated", "refused", "releaseRun"}} \cup Flying

-----------------------------------------------------------------------------
\* limited() or threaded() is called.
Request(c) ==
  /\ AtAwait(RunOf[c]) /\ run[RunOf[c]] = "open"
  /\ pc[c] = "new"
  /\ Goto(c, "waiting")
  /\ UNCHANGED <<run, gate, process>>

\* _acquire after a sleep: not cancelled, and the run's gate has a permit.
TryRun(c) ==
  /\ AtAwait(RunOf[c]) /\ run[RunOf[c]] = "open"
  /\ pc[c] = "waiting" /\ gate[RunOf[c]] > 0
  /\ gate' = [gate EXCEPT ![RunOf[c]] = @ - 1]
  /\ Goto(c, "gated")
  /\ UNCHANGED <<run, process>>

\* Seeded bug: a call that the process refuses sleeps with its run permit.
TryProcessKeeps(c) ==
  /\ pc[c] = "gated"
  /\ IF process > 0
     THEN /\ process' = process - 1
          /\ Goto(c, IF c \in Threaded THEN "queued" ELSE "active")
     ELSE Goto(c, "waiting") /\ UNCHANGED process
  /\ UNCHANGED <<run, gate>>

\* The process gate, without blocking.  With both permits the call starts at once.
TryProcess(c) ==
  /\ pc[c] = "gated"
  /\ IF process > 0
     THEN /\ process' = process - 1
          /\ Goto(c, IF c \in Threaded THEN "queued" ELSE "active")
     ELSE Goto(c, "refused") /\ UNCHANGED process
  /\ UNCHANGED <<run, gate>>

\* The process is at its limit: the run permit goes back before the next sleep.
BackOff(c) ==
  /\ pc[c] = "refused"
  /\ gate' = [gate EXCEPT ![RunOf[c]] = @ + 1]
  /\ Goto(c, "waiting")
  /\ UNCHANGED <<run, process>>

\* Seeded bug: a sleeper only notices its own task's cancellation.
GiveUpOpen(c) ==
  /\ AtAwait(RunOf[c])
  /\ pc[c] = "waiting" /\ run[RunOf[c]] = "open"
  /\ Goto(c, "done")
  /\ UNCHANGED <<run, gate, process>>

\* A waiting call is cancelled in its sleep, by a failed sibling or a closing run.
GiveUp(c) ==
  /\ AtAwait(RunOf[c])
  /\ pc[c] = "waiting"
  /\ Goto(c, "done")
  /\ UNCHANGED <<run, gate, process>>

\* A coroutine call returns, fails or is cancelled; a blocking call cancelled here goes on.
EndActive(c) ==
  /\ AtAwait(RunOf[c])
  /\ pc[c] = "active"
  /\ Goto(c, "release")
  /\ UNCHANGED <<run, gate, process>>

Working(r) == {c \in Calls : RunOf[c] = r /\ pc[c] \in {"working"} \cup
                               (IF c \in Threaded THEN {"release", "releaseRun"} ELSE {})}

\* An executor thread takes the blocking call.
StartWork(c) ==
  /\ pc[c] = "queued"
  /\ Cardinality(Working(RunOf[c])) < Threads
  /\ Goto(c, "working")
  /\ UNCHANGED <<run, gate, process>>

\* The blocking call returns or raises, whether or not anyone still awaits it.
EndWork(c) ==
  /\ pc[c] = "working"
  /\ Goto(c, "release")
  /\ UNCHANGED <<run, gate, process>>

\* _release: the process permit first...
Release(c) ==
  /\ pc[c] = "release"
  /\ process' = process + 1
  /\ Goto(c, "releaseRun")
  /\ UNCHANGED <<run, gate>>

\* ...then the run's.
ReleaseRun(c) ==
  /\ pc[c] = "releaseRun"
  /\ gate' = [gate EXCEPT ![RunOf[c]] = @ + 1]
  /\ Goto(c, "done")
  /\ UNCHANGED <<run, process>>

\* The run's function returns, fails or is cancelled: run_context sets cancelled.
BeginClose(r) ==
  /\ AtAwait(r) /\ run[r] = "open"
  /\ run' = [run EXCEPT ![r] = "closing"]
  /\ UNCHANGED <<pc, gate, process>>

\* Seeded bug: the context waits for its coroutines but not for its threads.
CloseEarly(r) ==
  /\ run[r] = "closing"
  /\ \A c \in Calls \ Threaded : RunOf[c] = r => pc[c] \in {"new", "done"}
  /\ run' = [run EXCEPT ![r] = "closed"]
  /\ UNCHANGED <<pc, gate, process>>

\* Every task and every thread task of the run has ended: the HTTP clients are closed.
Close(r) ==
  /\ run[r] = "closing"
  /\ \A c \in Calls : RunOf[c] = r => pc[c] \in {"new", "done"}
  /\ run' = [run EXCEPT ![r] = "closed"]
  /\ UNCHANGED <<pc, gate, process>>

\* A cancellation in run_context's gather: it cancels the thread tasks, so calls still
\* queued never run; the clients stay open.
TearDown(r) ==
  /\ Interrupts
  /\ AtAwait(r) /\ run[r] = "closing"
  /\ run' = [run EXCEPT ![r] = "torn"]
  /\ pc' = [c \in Calls |-> IF RunOf[c] = r /\ pc[c] = "queued" THEN "dropped" ELSE pc[c]]
  /\ UNCHANGED <<gate, process>>

-----------------------------------------------------------------------------
Coroutine(c) ==
  \/ TryRun(c) \/ TryProcess(c) \/ BackOff(c) \/ EndActive(c)
  \/ (run[RunOf[c]] # "open" /\ GiveUp(c))

Step(c) == Coroutine(c) \/ StartWork(c) \/ EndWork(c) \/ Release(c) \/ ReleaseRun(c)

Next ==
  \/ \E c \in Calls : Request(c) \/ GiveUp(c) \/ Step(c)
  \/ \E r \in Runs : BeginClose(r) \/ Close(r) \/ TearDown(r)

Spec == Init /\ [][Next]_vars

\* Loops and threads get on, providers answer or time out, and a closing context closes.
Fairness ==
  /\ \A c \in Calls : WF_vars(Step(c))
  /\ \A r \in Runs : WF_vars(Close(r))

FairSpec == Spec /\ Fairness

-----------------------------------------------------------------------------
(* Properties *)

TypeOK ==
  /\ pc \in [Calls -> Points]
  /\ run \in [Runs -> {"open", "closing", "closed", "torn"}]
  /\ gate \in [Runs -> 0..RunLimit]
  /\ process \in 0..ProcessLimit

Dropped == {c \in Calls : pc[c] = "dropped"}

\* Every permit that is not free belongs to a call that will give it back: disconnects,
\* failures and refused attempts lose none.  A lost one would slow every later run.
PermitsConserved ==
  /\ process + Cardinality(Flying) = ProcessLimit
  /\ \A r \in Runs : gate[r] + Cardinality({c \in Holding : RunOf[c] = r}) = RunLimit

\* When closing runs are cancelled, permits are lost only to the calls dropped by that:
\* the damage is one permit of each gate per dropped call and never more.
OnlyDroppedCallsLose ==
  /\ process + Cardinality(Flying \cup Dropped) = ProcessLimit
  /\ \A r \in Runs :
       gate[r] + Cardinality({c \in Holding \cup Dropped : RunOf[c] = r}) = RunLimit

\* Calls in flight respect both limits, abandoned blocking calls included.
FlightsBounded ==
  /\ Cardinality(Flying) <= ProcessLimit
  /\ \A r \in Runs : Cardinality({c \in Flying : RunOf[c] = r}) <= RunLimit

\* No call uses a run's HTTP clients once they are closed.
ClosedRunsAreQuiet ==
  \A c \in Calls : run[RunOf[c]] = "closed" => pc[c] \notin {"active", "queued", "working"}

\* Whoever asks gets an answer, unless permits were lost: calls that are refused a permit
\* and give the other one back do not starve each other for ever.  And a cancelled run
\* closes: sleepers notice it and nothing waits for a permit of its own.
CallsAndRunsEnd ==
  /\ \A c \in Calls : pc[c] = "waiting" ~> pc[c] = "done" \/ Dropped # {}
  /\ \A r \in Runs : run[r] = "closing" ~> run[r] \in {"closed", "torn"}
=============================================================================
