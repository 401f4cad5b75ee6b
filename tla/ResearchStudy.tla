----------------------------- MODULE ResearchStudy -----------------------------
(***************************************************************************)
(* Batch studies: the SQLite store shared by the API and the detached      *)
(* worker processes (backend/app/research/store.py), the start, pause and  *)
(* poll handlers (backend/app/routers/studio_research.py) and the worker   *)
(* (backend/app/research/worker.py).                                       *)
(*                                                                         *)
(* One action per SQLite transaction, process step or awaited provider     *)
(* step.  A process identifier is the worker that has it; identifiers are  *)
(* not reused.  An exited child counts as gone at once: every request      *)
(* polls its children before it looks at a study.                          *)
(***************************************************************************)
EXTENDS Naturals, FiniteSets

CONSTANTS
  Studies,
  Cases,       \* case numbers of a study, in the order lanes take them
  Pipeline,    \* the cases that run the paid pipeline; the others are solver trials
  Workers,     \* worker processes; their number bounds the starts
  Starters,    \* concurrent start requests of the API
  HaltLimit,   \* consecutive storage or authorization failures that pause (3)
  Faults,      \* subset of FaultKinds
  Null

\* crash: a worker is killed.  restart: the API is killed and comes back.
\* storage: a statement or the run storage fails.  stale: a poll's write comes late.
\* source: the application source changes under a study.
FaultKinds == {"crash", "restart", "storage", "stale", "source"}

ASSUME CasesAssumption == Cases \subseteq Nat /\ IsFiniteSet(Cases) /\ Pipeline \subseteq Cases
ASSUME LimitAssumption == HaltLimit \in Nat \ {0}
ASSUME ResearchFaultsAssumption == Faults \subseteq FaultKinds
ASSUME ResearchNullAssumption ==
  /\ Null \notin Cases /\ Null \notin Workers \cup Studies \cup {"api", "gone"}
  /\ {"api", "gone"} \cap Workers = {}
  /\ Null \notin [study : Studies, child : Workers \cup {Null}, stored : BOOLEAN] \cup [study : Studies, rereads : BOOLEAN]

VARIABLES
  state,     \* studies.state
  pid,       \* studies.pid: a worker, "api", "gone" (an earlier API process) or Null
  cases,     \* cases.state
  starts,    \* the start requests in flight
  handles,   \* _workers: the child the API last recorded for a study, or Null
  reaper,    \* a poll between its look at the processes and its write, or Null
  workers,   \* worker processes
  runs,      \* algorithm_lab_runs rows of the pipeline cases
  paid,      \* history: how often a case's providers were entered
  orderly    \* history: every start was recorded before the next and had its study's earlier
             \* child polled; none failed or met an API restart; no poll wrote late

vars == <<state, pid, cases, starts, handles, reaper, workers, runs, paid, orderly>>

Running == {"starting", "running", "pausing"}
States == Running \cup {"ready", "paused", "interrupted", "complete"}
Request == [study : Studies, child : Workers \cup {Null}, stored : BOOLEAN]
Lanes == {1, 2}
IdleLane == [case |-> Null, step |-> "idle", fatal |-> FALSE]
Lane == [case : Cases \cup {Null}, fatal : BOOLEAN,
         step : {"idle", "start", "trial", "insert", "paying", "save", "halt", "returned"}]
Steps == {"none", "spawned", "loading", "resetting", "solver", "live", "open", "done", "failing", "exited"}
Worker == [pc : Steps, study : Studies \cup {Null}, queue : SUBSET Cases, reset : SUBSET Cases,
           lanes : [Lanes -> Lane], fatal : 0..HaltLimit]
NoWorker == [pc |-> "none", study |-> Null, queue |-> {}, reset |-> {}, lanes |-> [l \in Lanes |-> IdleLane],
             fatal |-> 0]

Init ==
  /\ state = [s \in Studies |-> "ready"]
  /\ pid = [s \in Studies |-> Null]
  /\ cases = [s \in Studies |-> [c \in Cases |-> "pending"]]
  /\ starts = [r \in Starters |-> Null]
  /\ handles = [s \in Studies |-> Null]
  /\ reaper = Null
  /\ workers = [w \in Workers |-> NoWorker]
  /\ runs = [s \in Studies |-> [c \in Pipeline |-> "absent"]]
  /\ paid = [s \in Studies |-> [c \in Pipeline |-> 0]]
  /\ orderly = TRUE

-----------------------------------------------------------------------------
(* Processes *)

Exited(w) == w \in Workers /\ workers[w].pc = "exited"
Alive(w) == workers[w].pc \notin {"none", "exited"}

\* Seeded bug: only a worker that was recorded as a worker is looked for.
GoneWorker(p) == p \in Workers /\ Exited(p)

\* os.kill(pid, 0) raises ProcessLookupError
Gone(p) == p = "gone" \/ (p \in Workers /\ Exited(p))

\* reap_workers looks at the recorded child; study() looks at the stored pid.
ChildEnded(s) == handles[s] # Null /\ Exited(handles[s])
PidGone(s) == state[s] \in Running /\ Gone(pid[s])

\* A request's look at the processes and its write, back to back.
Reap(s) ==
  /\ ChildEnded(s) \/ PidGone(s)
  /\ handles' = [handles EXCEPT ![s] = IF ChildEnded(s) THEN Null ELSE @]
  /\ state' = [state EXCEPT ![s] = IF @ \in Running THEN "interrupted" ELSE @]
  /\ UNCHANGED <<pid, cases, starts, reaper, workers, runs, paid, orderly>>

\* The same with other processes in between: the look...
ReapLook(s) ==
  /\ "stale" \in Faults /\ reaper = Null
  /\ \/ /\ ChildEnded(s)
        /\ handles' = [handles EXCEPT ![s] = Null]
        /\ reaper' = [study |-> s, rereads |-> TRUE]
     \/ /\ PidGone(s)
        /\ reaper' = [study |-> s, rereads |-> FALSE]
        /\ UNCHANGED handles
  /\ orderly' = FALSE
  /\ UNCHANGED <<state, pid, cases, starts, workers, runs, paid>>

\* ...and the write: reap_workers reads the state again, study() does not.
ReapWrite ==
  /\ reaper # Null
  /\ state' = [state EXCEPT ![reaper.study] =
                 IF reaper.rereads /\ @ \notin Running THEN @ ELSE "interrupted"]
  /\ reaper' = Null
  /\ UNCHANGED <<pid, cases, starts, handles, workers, runs, paid, orderly>>

-----------------------------------------------------------------------------
(* The API *)

\* Seeded bug: claim only looks at the study it was asked for.
ClaimOwn(r, s) ==
  /\ starts[r] = Null
  /\ \E w \in Workers : workers[w].pc = "none"
  /\ state[s] \in {"ready", "paused", "interrupted"}
  /\ state' = [state EXCEPT ![s] = "starting"]
  /\ pid' = [pid EXCEPT ![s] = "api"]
  /\ starts' = [starts EXCEPT ![r] = [study |-> s, child |-> Null, stored |-> FALSE]]
  /\ orderly' = (orderly /\ ~ChildEnded(s) /\ \A q \in Starters : starts[q] = Null)
  /\ UNCHANGED <<cases, handles, reaper, workers, runs, paid>>

\* store.claim's transaction; dead studies were reaped before it, and so were ended
\* children, unless this study's child ends between the two.
Claim(r, s) ==
  /\ starts[r] = Null
  /\ \E w \in Workers : workers[w].pc = "none"    \* the bound on starts
  /\ \A t \in Studies : state[t] \notin Running
  /\ state[s] \in {"ready", "paused", "interrupted"}
  /\ state' = [state EXCEPT ![s] = "starting"]
  /\ pid' = [pid EXCEPT ![s] = "api"]
  /\ starts' = [starts EXCEPT ![r] = [study |-> s, child |-> Null, stored |-> FALSE]]
  /\ orderly' = (orderly /\ ~ChildEnded(s) /\ \A q \in Starters : starts[q] = Null)
  /\ UNCHANGED <<cases, handles, reaper, workers, runs, paid>>

\* subprocess.Popen
Spawn(r, w) ==
  /\ starts[r] # Null /\ starts[r].child = Null
  /\ workers[w].pc = "none"
  /\ workers' = [workers EXCEPT ![w].pc = "spawned", ![w].study = starts[r].study]
  /\ starts' = [starts EXCEPT ![r].child = w]
  /\ UNCHANGED <<state, pid, cases, handles, reaper, runs, paid, orderly>>

\* UPDATE studies SET pid, whatever happened since the claim...
RecordPid(r) ==
  /\ starts[r] # Null /\ starts[r].child # Null /\ ~starts[r].stored
  /\ pid' = [pid EXCEPT ![starts[r].study] = starts[r].child]
  /\ starts' = [starts EXCEPT ![r].stored = TRUE]
  /\ UNCHANGED <<state, cases, handles, reaper, workers, runs, paid, orderly>>

\* ...then _workers, which another request's thread may have changed meanwhile.
RecordChild(r) ==
  /\ starts[r] # Null /\ starts[r].stored
  /\ handles' = [handles EXCEPT ![starts[r].study] = starts[r].child]
  /\ starts' = [starts EXCEPT ![r] = Null]
  /\ UNCHANGED <<state, pid, cases, reaper, workers, runs, paid, orderly>>

\* Any failure after the claim, a spawned child or not: interrupted and 503.
StartFails(r) ==
  /\ "storage" \in Faults
  /\ starts[r] # Null /\ ~starts[r].stored
  /\ state' = [state EXCEPT ![starts[r].study] = "interrupted"]
  /\ starts' = [starts EXCEPT ![r] = Null]
  /\ orderly' = FALSE
  /\ UNCHANGED <<pid, cases, handles, reaper, workers, runs, paid>>

Pause(s) ==
  /\ state[s] \in {"starting", "running"}
  /\ state' = [state EXCEPT ![s] = "pausing"]
  /\ UNCHANGED <<pid, cases, starts, handles, reaper, workers, runs, paid, orderly>>

\* The API process is killed and replaced; workers are detached and go on.
ApiRestart ==
  /\ "restart" \in Faults
  /\ starts' = [r \in Starters |-> Null]
  /\ handles' = [s \in Studies |-> Null]
  /\ reaper' = Null
  /\ pid' = [s \in Studies |-> IF pid[s] = "api" THEN "gone" ELSE pid[s]]
  /\ orderly' = (orderly /\ \A r \in Starters : starts[r] = Null)
  /\ UNCHANGED <<state, cases, workers, runs, paid>>

-----------------------------------------------------------------------------
(* The worker process *)

Study(w) == workers[w].study
Executing == {"loading", "resetting", "solver", "live", "open", "done"}
Goto(w, pc) == workers' = [workers EXCEPT ![w].pc = pc]
Exit(w) == workers' = [workers EXCEPT ![w] = [NoWorker EXCEPT !.pc = "exited", !.study = Study(w)]]

\* execute() up to activate: a changed source interrupts; a study still starting becomes
\* this worker's; a study paused meanwhile becomes paused; anything else ends the worker.
Activate(w) ==
  /\ workers[w].pc = "spawned"
  /\ \/ /\ "source" \in Faults
        /\ state' = [state EXCEPT ![Study(w)] = "interrupted"]
        /\ Exit(w)
        /\ UNCHANGED pid
     \/ /\ state[Study(w)] = "starting"
        /\ state' = [state EXCEPT ![Study(w)] = "running"]
        /\ pid' = [pid EXCEPT ![Study(w)] = w]
        /\ Goto(w, "loading")
     \/ /\ state[Study(w)] # "starting"
        /\ state' = [state EXCEPT ![Study(w)] = IF @ = "pausing" THEN "paused" ELSE @]
        /\ Exit(w)
        /\ UNCHANGED pid
  /\ UNCHANGED <<cases, starts, handles, reaper, runs, paid, orderly>>

\* Seeded bug: the reload queues every case again.
LoadAll(w) ==
  /\ workers[w].pc = "loading"
  /\ workers' = [workers EXCEPT ![w].pc = "resetting", ![w].queue = Cases, ![w].reset = Cases]
  /\ UNCHANGED <<state, pid, cases, starts, handles, reaper, runs, paid, orderly>>

\* The rows as they are now: unfinished ones are queued, running ones will be pending again.
Load(w) ==
  /\ workers[w].pc = "loading"
  /\ workers' = [workers EXCEPT ![w].pc = "resetting",
                   ![w].queue = {c \in Cases : cases[Study(w)][c] # "finished"},
                   ![w].reset = {c \in Cases : cases[Study(w)][c] = "running"}]
  /\ UNCHANGED <<state, pid, cases, starts, handles, reaper, runs, paid, orderly>>

\* One by one, whatever became of them meanwhile.
Reset(w) ==
  /\ workers[w].pc = "resetting"
  /\ \/ \E c \in workers[w].reset :
          /\ cases' = [cases EXCEPT ![Study(w)][c] = "pending"]
          /\ workers' = [workers EXCEPT ![w].reset = @ \ {c}]
     \/ workers[w].reset = {} /\ Goto(w, "solver") /\ UNCHANGED cases
  /\ UNCHANGED <<state, pid, starts, handles, reaper, runs, paid, orderly>>

\* The lanes running now: one over the solver trials, then two over the live trips.
Open(w) == IF workers[w].pc = "solver" THEN {1} ELSE IF workers[w].pc = "live" THEN Lanes ELSE {}
Due(w) == IF workers[w].pc = "solver" THEN workers[w].queue \ Pipeline ELSE workers[w].queue \cap Pipeline
Job(w, l) == workers[w].lanes[l]
SetLane(w, l, lane) == workers' = [workers EXCEPT ![w].lanes[l] = lane]

\* Between two awaits a lane has the worker's event loop to itself.
Held(w, l) == \E m \in Lanes \ {l} : Job(w, m).step \in {"start", "halt"}

\* A lane takes its next case and looks whether the study is still running...
Take(w, l) ==
  /\ l \in Open(w) /\ Job(w, l).step = "idle" /\ ~Held(w, l)
  /\ \E c \in Due(w) :
       /\ \A d \in Due(w) : c <= d
       /\ workers' = [workers EXCEPT ![w].queue = @ \ {c}, ![w].lanes[l] =
            IF state[Study(w)] = "running" THEN [case |-> c, step |-> "start", fatal |-> FALSE]
            ELSE [IdleLane EXCEPT !.step = "returned"]]
  /\ UNCHANGED <<state, pid, cases, starts, handles, reaper, runs, paid, orderly>>

\* ...and marks the case as running, whatever became of the two meanwhile.
Mark(w, l) ==
  /\ Job(w, l).step = "start" /\ Alive(w)
  /\ cases' = [cases EXCEPT ![Study(w)][Job(w, l).case] = "running"]
  /\ SetLane(w, l, [Job(w, l) EXCEPT !.step = "trial"])
  /\ UNCHANGED <<state, pid, starts, handles, reaper, runs, paid, orderly>>

LaneDone(w, l) == Job(w, l).step = "returned" \/ (Job(w, l).step = "idle" /\ Due(w) = {})

SolverTrial(w, l) ==
  /\ Job(w, l).step = "trial" /\ Job(w, l).case \notin Pipeline /\ Alive(w)
  /\ SetLane(w, l, [Job(w, l) EXCEPT !.step = "save"])
  /\ UNCHANGED <<state, pid, cases, starts, handles, reaper, runs, paid, orderly>>

\* Seeded bug: an unfinalised earlier run is started again under its id.
LookAgain(w, l) ==
  /\ Job(w, l).step = "trial" /\ Job(w, l).case \in Pipeline /\ Alive(w)
  /\ SetLane(w, l, [Job(w, l) EXCEPT !.step =
       IF runs[Study(w)][Job(w, l).case] = "settled" THEN "save"
       ELSE IF runs[Study(w)][Job(w, l).case] = "running" THEN "paying" ELSE "insert"])
  /\ paid' = IF runs[Study(w)][Job(w, l).case] = "running"
             THEN [paid EXCEPT ![Study(w)][Job(w, l).case] = @ + 1] ELSE paid
  /\ UNCHANGED <<state, pid, cases, starts, handles, reaper, runs, orderly>>

\* live_trial: an earlier record, finished or not, is never repeated.  A finished one can
\* report a refused provider, and the look itself can fail: both may count as fatal.
Look(w, l) ==
  /\ Job(w, l).step = "trial" /\ Job(w, l).case \in Pipeline /\ Alive(w)
  /\ LET earlier == runs[Study(w)][Job(w, l).case]
     IN \/ /\ earlier = "absent"
           /\ SetLane(w, l, [Job(w, l) EXCEPT !.step = "insert"])
        \/ /\ earlier # "absent" \/ "storage" \in Faults
           /\ \E fatal \in BOOLEAN :
                /\ fatal => earlier = "settled" \/ "storage" \in Faults
                /\ SetLane(w, l, [Job(w, l) EXCEPT !.step = "save", !.fatal = fatal])
  /\ UNCHANGED <<state, pid, cases, starts, handles, reaper, runs, paid, orderly>>

\* recorded_run's INSERT.  A conflict, a failure or a lost acknowledgement is a 503 that
\* counts as fatal, and nothing is paid.
Insert(w, l) ==
  /\ Job(w, l).step = "insert" /\ Alive(w)
  /\ LET s == Study(w)
         c == Job(w, l).case
         inserted == [runs EXCEPT ![s][c] = "running"]
     IN \/ /\ runs[s][c] = "absent"
           /\ runs' = inserted
           /\ paid' = [paid EXCEPT ![s][c] = @ + 1]
           /\ SetLane(w, l, [Job(w, l) EXCEPT !.step = "paying"])
        \/ /\ runs[s][c] # "absent" \/ "storage" \in Faults
           /\ \/ UNCHANGED runs
              \/ runs[s][c] = "absent" /\ runs' = inserted
           /\ SetLane(w, l, [Job(w, l) EXCEPT !.step = "save", !.fatal = TRUE])
           /\ UNCHANGED paid
  /\ UNCHANGED <<state, pid, cases, starts, handles, reaper, orderly>>

\* The pipeline ends.  Its row is settled, or left running when the deadline falls into
\* the finishing write or storage fails; a refused provider or saved: False is fatal.
Settle(w, l) ==
  /\ Job(w, l).step = "paying" /\ Alive(w)
  /\ \E fatal \in BOOLEAN :
       /\ \/ runs' = [runs EXCEPT ![Study(w)][Job(w, l).case] = "settled"]
          \/ (fatal => "storage" \in Faults) /\ UNCHANGED runs
       /\ SetLane(w, l, [Job(w, l) EXCEPT !.step = "save", !.fatal = fatal])
  /\ UNCHANGED <<state, pid, cases, starts, handles, reaper, paid, orderly>>

\* The result is stored, and HaltLimit consecutive fatal results...
Save(w, l) ==
  /\ Job(w, l).step = "save" /\ Alive(w) /\ ~Held(w, l)
  /\ LET c == Job(w, l).case
         count == IF c \notin Pipeline THEN workers[w].fatal
                  ELSE IF ~Job(w, l).fatal THEN 0
                  ELSE IF workers[w].fatal < HaltLimit THEN workers[w].fatal + 1 ELSE HaltLimit
     IN /\ cases' = [cases EXCEPT ![Study(w)][c] = "finished"]
        /\ workers' = [workers EXCEPT ![w].fatal = count, ![w].lanes[l] =
             IF c \in Pipeline /\ count >= HaltLimit THEN [IdleLane EXCEPT !.step = "halt"] ELSE IdleLane]
  /\ UNCHANGED <<state, pid, starts, handles, reaper, runs, paid, orderly>>

\* ...ask for a pause, whatever the study's state is by then.
Halt(w, l) ==
  /\ Job(w, l).step = "halt" /\ Alive(w)
  /\ state' = [state EXCEPT ![Study(w)] = "pausing"]
  /\ SetLane(w, l, IdleLane)
  /\ UNCHANGED <<pid, cases, starts, handles, reaper, runs, paid, orderly>>

\* The solver lane has returned: the live lanes start.
GoLive(w) ==
  /\ workers[w].pc = "solver" /\ LaneDone(w, 1)
  /\ workers' = [workers EXCEPT ![w].pc = "live", ![w].lanes = [l \in Lanes |-> IdleLane]]
  /\ UNCHANGED <<state, pid, cases, starts, handles, reaper, runs, paid, orderly>>

\* Both lanes returned: the rows are read...
Count(w) ==
  /\ workers[w].pc = "live" /\ \A l \in Lanes : LaneDone(w, l)
  /\ Goto(w, IF \E c \in Cases : cases[Study(w)][c] # "finished" THEN "open" ELSE "done")
  /\ UNCHANGED <<state, pid, cases, starts, handles, reaper, runs, paid, orderly>>

\* ...and the study is paused when a case was unfinished then, else complete.
Conclude(w) ==
  /\ workers[w].pc \in {"open", "done"}
  /\ state' = [state EXCEPT ![Study(w)] = IF workers[w].pc = "open" THEN "paused" ELSE "complete"]
  /\ Exit(w)
  /\ UNCHANGED <<pid, cases, starts, handles, reaper, runs, paid, orderly>>

\* An exception leaves execute(): live trips in flight are cancelled (their rows settle
\* unless that fails too)...
WorkerFails(w) ==
  /\ "storage" \in Faults
  /\ workers[w].pc \in Executing
  /\ \E settled \in SUBSET {Job(w, l).case : l \in {m \in Lanes : Job(w, m).step = "paying"}} :
       runs' = [runs EXCEPT ![Study(w)] = [c \in Pipeline |-> IF c \in settled THEN "settled" ELSE @[c]]]
  /\ workers' = [workers EXCEPT ![w].pc = "failing", ![w].lanes = [l \in Lanes |-> IdleLane]]
  /\ UNCHANGED <<state, pid, cases, starts, handles, reaper, paid, orderly>>

\* ...and the dying worker writes interrupted.
Interrupt(w) ==
  /\ workers[w].pc = "failing"
  /\ state' = [state EXCEPT ![Study(w)] = "interrupted"]
  /\ Exit(w)
  /\ UNCHANGED <<pid, cases, starts, handles, reaper, runs, paid, orderly>>

\* The worker is killed: nothing is written.
Crash(w) ==
  /\ "crash" \in Faults /\ Alive(w)
  /\ Exit(w)
  /\ UNCHANGED <<state, pid, cases, starts, handles, reaper, runs, paid, orderly>>

-----------------------------------------------------------------------------
Start(r) == RecordPid(r) \/ RecordChild(r) \/ StartFails(r) \/ \E w \in Workers : Spawn(r, w)

LaneStep(w, l) ==
  \/ Take(w, l) \/ Mark(w, l) \/ SolverTrial(w, l) \/ Look(w, l) \/ Insert(w, l) \/ Settle(w, l)
  \/ Save(w, l) \/ Halt(w, l)

Work(w) ==
  \/ Activate(w) \/ Load(w) \/ Reset(w) \/ GoLive(w) \/ Count(w) \/ Conclude(w) \/ Interrupt(w)
  \/ \E l \in Lanes : LaneStep(w, l)

Next ==
  \/ \E s \in Studies : Reap(s) \/ ReapLook(s) \/ Pause(s)
  \/ ReapWrite
  \/ \E r \in Starters : Start(r) \/ \E s \in Studies : Claim(r, s)
  \/ ApiRestart
  \/ \E w \in Workers : Work(w) \/ WorkerFails(w) \/ Crash(w)

Spec == Init /\ [][Next]_vars

\* Handlers and processes get on, and someone keeps polling the dashboard; nobody has to
\* start or pause anything.
Fairness ==
  /\ \A r \in Starters : WF_vars(Start(r))
  /\ \A s \in Studies : WF_vars(Reap(s))
  /\ WF_vars(ReapWrite)
  /\ \A w \in Workers : WF_vars(Work(w))

FairSpec == Spec /\ Fairness

-----------------------------------------------------------------------------
(* Properties *)

TypeOK ==
  /\ state \in [Studies -> States]
  /\ pid \in [Studies -> Workers \cup {"api", "gone", Null}]
  /\ cases \in [Studies -> [Cases -> {"pending", "running", "finished"}]]
  /\ starts \in [Starters -> Request \cup {Null}]
  /\ handles \in [Studies -> Workers \cup {Null}]
  /\ reaper \in [study : Studies, rereads : BOOLEAN] \cup {Null}
  /\ workers \in [Workers -> Worker]
  /\ runs \in [Studies -> [Pipeline -> {"absent", "running", "settled"}]]
  /\ paid \in [Studies -> [Pipeline -> Nat]]
  /\ orderly \in BOOLEAN

\* docs/studio-research.md: one study may execute at a time per research store.
OneStudyExecutes == Cardinality({w \in Workers : workers[w].pc \in Executing}) <= 1

\* What the claim's transaction, the recorded child and the polls do guarantee: one study
\* executes as long as starts are orderly, whatever is paused, killed or fails in a worker.
OrderlyStartsExecuteOne == orderly => OneStudyExecutes

\* A paid trip is never repeated: not by a resume, a second worker or a crash's successor.
TripPaidAtMostOnce == \A s \in Studies : \A c \in Pipeline : paid[s][c] <= 1

\* As long as starts are orderly, a study is complete only when every case has a stored result: what the
\* finished worker read is still so when it writes, and no later worker takes a complete study up.
CompleteIsComplete ==
  orderly => \A s \in Studies : state[s] = "complete" => \A c \in Cases : cases[s][c] = "finished"

\* Resume never repeats finished cases: as long as starts are orderly, a stored result is
\* never taken up again.
FinishedStaysFinished ==
  [][orderly => \A s \in Studies : \A c \in Cases :
       cases[s][c] = "finished" => cases'[s][c] = "finished"]_vars

\* Starting, running and pausing are never a dead end, whatever dies.
StudySettles == \A s \in Studies : state[s] \in Running ~> state[s] \notin Running

\* A pause that was asked for is never lost to a worker that is still starting.
PauseHeard ==
  [][\A s \in Studies : state[s] = "pausing" => state'[s] # "running" /\ state'[s] # "starting"]_vars
=============================================================================
