------------------------------ MODULE StudioJobs ------------------------------
(***************************************************************************)
(* The registry of Studio jobs kept by one API process                     *)
(* (backend/app/routing/studio_jobs.py), the worker thread each job runs   *)
(* (backend/app/agent/progress_stream.py around recorded_run of            *)
(* backend/app/routers/algorithm_lab.py) and the algorithm_lab_runs rows   *)
(* they share (backend/app/crud/lab_runs.py).                              *)
(*                                                                         *)
(* Granularity: one action per stretch of code between two awaits on the   *)
(* API event loop, and one per database statement of a worker thread.      *)
(* POST and DELETE hold the registry's asyncio lock across their awaits;   *)
(* GET takes no lock.  Worker threads, GETs, the lock holder, a shutdown   *)
(* and a crash interleave freely.                                          *)
(***************************************************************************)
EXTENDS Naturals, FiniteSets

CONSTANTS
  Owners,        \* signed visitor sessions
  Keys,          \* job UUIDs, chosen by the browser
  Ids,           \* Ids[o]: the UUIDs visitor o asks for, one another visitor's perhaps
  Payloads,      \* validated run inputs
  Runs,          \* identities for worker threads; their number bounds the starts
  MaxActive,     \* running jobs in the process (4 in the code)
  MaxFinished,   \* finished jobs kept in memory (16 in the code)
  Observed,      \* which of the final states the history variable told records
  Faults,        \* which of "storage" and "crash" may strike
  Null

ASSUME IdsAssumption == \A o \in Owners : Ids[o] \subseteq Keys
ASSUME BoundsAssumption == MaxActive \in Nat \ {0} /\ MaxFinished \in Nat
ASSUME FaultsAssumption == Faults \subseteq {"storage", "crash"}

VARIABLES
  up,          \* requests are served (FALSE between shutdown and restart)
  jobs,        \* StudioJobs.jobs
  older,       \* older[k]: the finished jobs whose .finished stamp precedes k's
  lock,        \* the request holding StudioJobs.lock, or Null
  rows,        \* algorithm_lab_runs by primary key
  workers,     \* worker threads of stream_turn
  executions,  \* history: how often execute_run was entered for an id
  told         \* history: the final states clients were told for an id

vars == <<up, jobs, older, lock, rows, workers, executions, told>>

Terminals == {"complete", "failed", "cancelled"}
Jobs == [owner : Owners, payload : Payloads \cup {Null}, terminal : Terminals \cup {Null},
         done : BOOLEAN, run : Runs \cup {Null}]
Rows == [owner : Owners, status : {"running", "completed", "failed"}]
Requests == [op : {"start", "cancel"}, owner : Owners, key : Keys, payload : Payloads \cup {Null},
             step : {"reading", "read", "marking", "gathering"}, row : Rows \cup {Null}]
Points == {"idle", "spawned", "begin", "execute", "running", "finish", "marking",
           "result", "error", "done"}
\* Points at which the thread has nothing left to do: its event waits or is dropped.
Ended == {"result", "error", "done"}
Workers == [pc : Points, key : Keys \cup {Null}, owner : Owners \cup {Null}, stop : BOOLEAN, struck : BOOLEAN]

ASSUME NullAssumption ==
  Null \notin Owners \cup Keys \cup Payloads \cup Runs \cup Terminals \cup Jobs \cup Rows \cup Requests

IdleWorker == [pc |-> "idle", key |-> Null, owner |-> Null, stop |-> FALSE, struck |-> FALSE]

Init ==
  /\ up = TRUE
  /\ jobs = [k \in Keys |-> Null]
  /\ older = [k \in Keys |-> {}]
  /\ lock = Null
  /\ rows = [k \in Keys |-> Null]
  /\ workers = [w \in Runs |-> IdleWorker]
  /\ executions = [k \in Keys |-> 0]
  /\ told = [k \in Keys |-> {}]

-----------------------------------------------------------------------------
(* The registry *)

Active == {k \in Keys : jobs[k] # Null /\ jobs[k].terminal = Null}
Finished == {k \in Keys : jobs[k] # Null /\ jobs[k].done}

\* The row as _query sees it: every statement is scoped to the caller.
Visible(o, k) == IF rows[k] # Null /\ rows[k].owner = o THEN rows[k] ELSE Null

Tell(k, state) == told' = [told EXCEPT ![k] = @ \cup ({state} \cap Observed)]

\* saved_snapshot: any settled row, a cancelled one included, is "complete".
SavedState(row) == IF row.status = "running" THEN "interrupted" ELSE "complete"

\* What prune may delete: everything with MaxFinished newer finished jobs, and
\* any older part of the list once it is an hour old.
Prunable ==
  {D \in SUBSET Finished :
     /\ \A k \in D : older[k] \subseteq D
     /\ \A k \in Finished : Cardinality({j \in Finished : k \in older[j]}) >= MaxFinished => k \in D}

Pruned(D) == [k \in Keys |-> IF k \in D THEN Null ELSE jobs[k]]
OlderPruned(D) == [k \in Keys |-> IF k \in D THEN {} ELSE older[k] \ D]

\* job.finished = monotonic(): k becomes the newest of the finished jobs fs.
Stamped(ord, fs, k) == [j \in Keys |-> IF j = k THEN fs \ {k} ELSE ord[j] \ {k}]

\* POST /jobs until its first await: prune, then answer from memory or go to the store.
Start(o, k, p) ==
  /\ up /\ lock = Null
  /\ \E D \in Prunable :
       /\ jobs' = Pruned(D)
       /\ older' = OlderPruned(D)
       /\ \/ /\ jobs'[k] # Null
             /\ jobs'[k].owner = o
             /\ jobs'[k].payload \in {Null, p}
             /\ jobs'[k].terminal \in {"complete", "cancelled"}
             /\ Tell(k, jobs'[k].terminal)
             /\ UNCHANGED lock
          \/ /\ jobs'[k] # Null    \* 404, 409, or a job that is running or failed
             /\ \/ jobs'[k].owner # o
                \/ jobs'[k].payload \notin {Null, p}
                \/ jobs'[k].terminal \notin {"complete", "cancelled"}
             /\ UNCHANGED <<lock, told>>
          \/ /\ jobs'[k] = Null
             /\ \E w \in Runs : workers[w].pc = "idle"    \* the bound on starts
             /\ lock' = [op |-> "start", owner |-> o, key |-> k, payload |-> p,
                         step |-> "reading", row |-> Null]
             /\ UNCHANGED told
  /\ UNCHANGED <<up, rows, workers, executions>>

\* DELETE /jobs/{id} until its first await.
Cancel(o, k) ==
  /\ up /\ lock = Null
  /\ \/ /\ jobs[k] = Null
        /\ lock' = [op |-> "cancel", owner |-> o, key |-> k, payload |-> Null,
                    step |-> "reading", row |-> Null]
        /\ UNCHANGED <<jobs, older, told>>
     \/ /\ jobs[k] # Null /\ jobs[k].owner = o /\ jobs[k].terminal = Null
        /\ jobs' = [jobs EXCEPT ![k].terminal = "cancelled", ![k].done = TRUE]
        /\ older' = Stamped(older, Finished, k)
        /\ lock' = [op |-> "cancel", owner |-> o, key |-> k, payload |-> Null,
                    step |-> "gathering", row |-> Null]
        /\ UNCHANGED told
     \/ /\ jobs[k] # Null /\ jobs[k].owner = o
        /\ jobs[k].terminal \in {"complete", "cancelled"}
        /\ Tell(k, jobs[k].terminal)
        /\ UNCHANGED <<jobs, older, lock>>
  /\ UNCHANGED <<up, rows, workers, executions>>

\* The thread behind `await stored_record(owner, key)` reads the row...
ReadRecord ==
  /\ up /\ lock # Null /\ lock.step = "reading"
  /\ lock' = [lock EXCEPT !.step = "read", !.row = Visible(lock.owner, lock.key)]
  /\ UNCHANGED <<up, jobs, older, rows, workers, executions, told>>

\* ...or any statement awaited under the lock fails: an error reply, nothing changed.
LockedStorageFails ==
  /\ "storage" \in Faults
  /\ up /\ lock # Null /\ lock.step \in {"reading", "marking"}
  /\ lock' = Null
  /\ UNCHANGED <<up, jobs, older, rows, workers, executions, told>>

\* Unused identities are interchangeable: any one stands for the next thread.
Fresh == CHOOSE w \in Runs : workers[w].pc = "idle"

\* Seeded bug: the capacity check is off by one.
StartDecideOffByOne(w) ==
  /\ up /\ lock # Null /\ lock.op = "start" /\ lock.step = "read" /\ lock.row = Null
  /\ ~\E j \in Active : jobs[j].owner = lock.owner
  /\ Cardinality(Active) <= MaxActive
  /\ w = Fresh
  /\ lock' = Null
  /\ jobs' = [jobs EXCEPT ![lock.key] = [owner |-> lock.owner, payload |-> lock.payload,
                                         terminal |-> Null, done |-> FALSE, run |-> w]]
  /\ workers' = [workers EXCEPT ![w] = [pc |-> "spawned", key |-> lock.key,
                                        owner |-> lock.owner, stop |-> FALSE, struck |-> FALSE]]
  /\ UNCHANGED <<up, older, rows, executions, told>>

\* start() after its await: a saved row answers; else admission, then a new job.
StartDecide(w) ==
  /\ up /\ lock # Null /\ lock.op = "start" /\ lock.step = "read"
  /\ lock' = Null
  /\ LET k == lock.key
         o == lock.owner
         busy == \/ \E j \in Active : jobs[j].owner = o
                 \/ Cardinality(Active) >= MaxActive
     IN \/ /\ lock.row # Null
           /\ Tell(k, SavedState(lock.row))
           /\ UNCHANGED <<jobs, workers>>
        \/ /\ lock.row = Null /\ busy    \* 409 or 429
           /\ UNCHANGED <<jobs, workers, told>>
        \/ /\ lock.row = Null /\ ~busy
           /\ workers[w].pc = "idle" /\ w = Fresh
           /\ jobs' = [jobs EXCEPT ![k] = [owner |-> o, payload |-> lock.payload,
                                           terminal |-> Null, done |-> FALSE, run |-> w]]
           /\ workers' = [workers EXCEPT ![w] = [pc |-> "spawned", key |-> k,
                                                 owner |-> o, stop |-> FALSE, struck |-> FALSE]]
           /\ UNCHANGED told
  /\ UNCHANGED <<up, older, rows, executions>>

\* cancel() after its await: mark an unfinished row, answer from a settled one,
\* or remember a cancellation that overtook its POST.
CancelDecide ==
  /\ up /\ lock # Null /\ lock.op = "cancel" /\ lock.step = "read"
  /\ LET k == lock.key
     IN \/ /\ lock.row # Null /\ lock.row.status = "running"
           /\ lock' = [lock EXCEPT !.step = "marking"]
           /\ UNCHANGED <<jobs, older, told>>
        \/ /\ lock.row # Null /\ lock.row.status # "running"
           /\ lock' = Null
           /\ Tell(k, "complete")
           /\ UNCHANGED <<jobs, older>>
        \/ /\ lock.row = Null
           /\ lock' = Null
           /\ Tell(k, "cancelled")
           /\ \E D \in Prunable :
                /\ jobs' = [Pruned(D) EXCEPT ![k] = [owner |-> lock.owner, payload |-> Null,
                              terminal |-> "cancelled", done |-> TRUE, run |-> Null]]
                /\ older' = Stamped(OlderPruned(D), Finished \ D, k)
  /\ UNCHANGED <<up, rows, workers, executions>>

\* Seeded bug: the UPDATE lost its status predicate.
SettledRowsAlways(o, k, status) ==
  IF rows[k] # Null /\ rows[k].owner = o THEN [rows EXCEPT ![k].status = status] ELSE rows

\* UPDATE ... WHERE id AND user_id AND status = 'running'
SettledRows(o, k, status) ==
  IF rows[k] # Null /\ rows[k].owner = o /\ rows[k].status = "running"
  THEN [rows EXCEPT ![k].status = status]
  ELSE rows

\* cancel() of a saved row: lab_runs.cancel, then "cancelled" whatever it updated.
CancelMark ==
  /\ up /\ lock # Null /\ lock.step = "marking"
  /\ rows' = SettledRows(lock.owner, lock.key, "failed")
  /\ Tell(lock.key, "cancelled")
  /\ lock' = Null
  /\ UNCHANGED <<up, jobs, older, workers, executions>>

\* cancel() of a running job: the task leaves stream_turn (stopped.set, the worker
\* loop's turn is cancelled), execute() re-stamps finished, and DELETE answers.
CancelGather ==
  /\ up /\ lock # Null /\ lock.step = "gathering"
  /\ workers' = [workers EXCEPT ![jobs[lock.key].run].stop = TRUE]
  /\ older' = Stamped(older, Finished, lock.key)
  /\ Tell(lock.key, "cancelled")
  /\ lock' = Null
  /\ UNCHANGED <<up, jobs, rows, executions>>

\* GET /jobs/{id}: from memory, no lock.
Get(o, k) ==
  /\ up
  /\ jobs[k] # Null /\ jobs[k].owner = o /\ jobs[k].terminal \in {"complete", "cancelled"}
  /\ Tell(k, jobs[k].terminal)
  /\ UNCHANGED <<up, jobs, older, lock, rows, workers, executions>>

\* The row of a GET that found no job in memory.  No variable says which GETs await a row: memory
\* starts empty, so one may have looked before any job that is in memory now.
GetRow(o, k) ==
  /\ up /\ Visible(o, k) # Null
  /\ Tell(k, SavedState(rows[k]))
  /\ UNCHANGED <<up, jobs, older, lock, rows, workers, executions>>

-----------------------------------------------------------------------------
(* The worker thread: stream_turn's execute() around recorded_run() *)

Move(w, pc) == workers' = [workers EXCEPT ![w].pc = pc]

\* A statement of the thread fails.
Fail(w, pc) == workers' = [workers EXCEPT ![w].pc = pc, ![w].struck = TRUE]

\* asyncio.run(execute()): a thread that starts after the stop does nothing.
ThreadStarts(w) ==
  /\ workers[w].pc = "spawned"
  /\ Move(w, IF workers[w].stop THEN "done" ELSE "begin")
  /\ UNCHANGED <<up, jobs, older, lock, rows, executions, told>>

\* Seeded bug: the INSERT became an upsert.
BeginUpsert(w) ==
  /\ workers[w].pc = "begin"
  /\ rows' = [rows EXCEPT ![workers[w].key] = [owner |-> workers[w].owner, status |-> "running"]]
  /\ Move(w, "execute")
  /\ UNCHANGED <<up, jobs, older, lock, executions, told>>

\* Seeded bug: a conflicting INSERT ends the thread without an error event.
BeginSilent(w) ==
  /\ workers[w].pc = "begin"
  /\ LET k == workers[w].key
     IN \/ /\ rows[k] = Null
           /\ rows' = [rows EXCEPT ![k] = [owner |-> workers[w].owner, status |-> "running"]]
           /\ Move(w, "execute")
        \/ /\ rows[k] # Null
           /\ Move(w, "done")
           /\ UNCHANGED rows
  /\ UNCHANGED <<up, jobs, older, lock, executions, told>>

\* lab_runs.begin.  A cancellation waits for the INSERT, then marks the row.
Begin(w) ==
  /\ workers[w].pc = "begin"
  /\ LET k == workers[w].key
     IN \/ /\ rows[k] = Null
           /\ rows' = [rows EXCEPT ![k] = [owner |-> workers[w].owner, status |-> "running"]]
           /\ \/ Move(w, "execute")
              \/ workers[w].stop /\ Move(w, "marking")
        \/ /\ rows[k] # Null    \* primary key conflict: 503
           /\ Move(w, IF workers[w].stop THEN "done" ELSE "error")
           /\ UNCHANGED rows
  /\ UNCHANGED <<up, jobs, older, lock, executions, told>>

\* The INSERT fails, or commits and its acknowledgement is lost: 503, no experiment.
BeginFails(w) ==
  /\ "storage" \in Faults
  /\ workers[w].pc = "begin"
  /\ Fail(w, IF workers[w].stop THEN "done" ELSE "error")
  /\ LET k == workers[w].key
     IN \/ UNCHANGED rows
        \/ /\ rows[k] = Null
           /\ rows' = [rows EXCEPT ![k] = [owner |-> workers[w].owner, status |-> "running"]]
  /\ UNCHANGED <<up, jobs, older, lock, executions, told>>

\* execute_run is entered: from here on providers may be paid.
Execute(w) ==
  /\ workers[w].pc = "execute"
  /\ executions' = [executions EXCEPT ![workers[w].key] = @ + 1]
  /\ Move(w, "running")
  /\ UNCHANGED <<up, jobs, older, lock, rows, told>>

\* The envelope is ready and lab_runs.finish is handed to a thread, or
\* compile_metrics raises: a 503 that leaves the row running.
Executed(w) ==
  /\ workers[w].pc = "running"
  /\ \/ Move(w, "finish")
     \/ "storage" \in Faults /\ Fail(w, IF workers[w].stop THEN "done" ELSE "error")
  /\ UNCHANGED <<up, jobs, older, lock, rows, executions, told>>

\* CancelledError reaches the turn at an await of execute_run.
Interrupted(w) ==
  /\ workers[w].stop
  /\ workers[w].pc = "running"
  /\ Move(w, "marking")
  /\ UNCHANGED <<up, jobs, older, lock, rows, executions, told>>

\* Seeded bug: only successful experiments are finalised.
FinishSuccessOnly(w) ==
  /\ workers[w].pc = "finish"
  /\ rows' \in {rows, SettledRows(workers[w].owner, workers[w].key, "completed")}
  /\ Move(w, IF workers[w].stop THEN "done" ELSE "result")
  /\ UNCHANGED <<up, jobs, older, lock, executions, told>>

\* lab_runs.finish; its ValueError and storage errors become a warning, never a failure.
Finish(w) ==
  /\ workers[w].pc = "finish"
  /\ \E status \in {"completed", "failed"} :
       rows' = SettledRows(workers[w].owner, workers[w].key, status)
  /\ Move(w, IF workers[w].stop THEN "done" ELSE "result")
  /\ UNCHANGED <<up, jobs, older, lock, executions, told>>

FinishFails(w) ==
  /\ "storage" \in Faults
  /\ workers[w].pc = "finish"
  /\ Fail(w, IF workers[w].stop THEN "done" ELSE "result")
  /\ UNCHANGED <<up, jobs, older, lock, rows, executions, told>>

\* A cancellation at `await to_thread(lab_runs.finish)` before the statement was
\* picked up drops it: no handler marks the row.
FinishDropped(w) ==
  /\ workers[w].pc = "finish" /\ workers[w].stop
  /\ Move(w, "done")
  /\ UNCHANGED <<up, jobs, older, lock, rows, executions, told>>

\* lab_runs.cancel by the cancelled turn; a storage failure loses the mark.
Mark(w) ==
  /\ workers[w].pc = "marking"
  /\ \/ /\ rows' = SettledRows(workers[w].owner, workers[w].key, "failed")
        /\ Move(w, "done")
     \/ "storage" \in Faults /\ Fail(w, "done") /\ UNCHANGED rows
  /\ UNCHANGED <<up, jobs, older, lock, executions, told>>

\* Seeded bug: any terminal event is taken for a result.
ConsumeAny(k) ==
  /\ up /\ k \in Active
  /\ workers[jobs[k].run].pc \in {"result", "error"}
  /\ jobs' = [jobs EXCEPT ![k].terminal = "complete"]
  /\ Move(jobs[k].run, "done")
  /\ UNCHANGED <<up, older, lock, rows, executions, told>>

\* The job's task takes the terminal event off its queue.
Consume(k) ==
  /\ up /\ k \in Active
  /\ workers[jobs[k].run].pc \in {"result", "error"}
  /\ jobs' = [jobs EXCEPT ![k].terminal =
                IF workers[jobs[k].run].pc = "result" THEN "complete" ELSE "failed"]
  /\ Move(jobs[k].run, "done")
  /\ UNCHANGED <<up, older, lock, rows, executions, told>>

\* stream_turn's finally and execute()'s finally: stopped, then the finished stamp.
Close(k) ==
  /\ up /\ jobs[k] # Null /\ jobs[k].terminal # Null /\ ~jobs[k].done
  /\ jobs' = [jobs EXCEPT ![k].done = TRUE]
  /\ older' = Stamped(older, Finished, k)
  /\ workers' = [workers EXCEPT ![jobs[k].run].stop = TRUE]
  /\ UNCHANGED <<up, lock, rows, executions, told>>

-----------------------------------------------------------------------------
(* The process *)

\* lifespan's exit: open requests are gone, every unfinished task is cancelled.
Shutdown ==
  /\ "crash" \in Faults /\ up
  /\ up' = FALSE
  /\ lock' = Null
  /\ jobs' = [k \in Keys |-> IF jobs[k] # Null /\ ~jobs[k].done
                             THEN [jobs[k] EXCEPT !.terminal = "cancelled", !.done = TRUE]
                             ELSE jobs[k]]
  /\ workers' = [w \in Runs |-> IF \E k \in Keys : jobs[k] # Null /\ jobs[k].run = w
                                                   /\ jobs'[k].terminal = "cancelled"
                                THEN [workers[w] EXCEPT !.stop = TRUE]
                                ELSE workers[w]]
  /\ UNCHANGED <<older, rows, executions, told>>

\* A new process: memory and threads are gone, rows remain.  Without a shutdown
\* before it this is a crash.
Restart ==
  /\ "crash" \in Faults
  /\ up' = TRUE
  /\ lock' = Null
  /\ jobs' = [k \in Keys |-> Null]
  /\ older' = [k \in Keys |-> {}]
  /\ workers' = [w \in Runs |-> IF workers[w].pc = "idle" THEN workers[w]
                                ELSE [workers[w] EXCEPT !.pc = "done", !.struck = @ \/ workers[w].pc \notin Ended]]
  /\ UNCHANGED <<rows, executions, told>>

Worker(w) ==
  \/ ThreadStarts(w) \/ Begin(w) \/ BeginFails(w) \/ Execute(w) \/ Executed(w)
  \/ Interrupted(w) \/ Finish(w) \/ FinishFails(w) \/ FinishDropped(w) \/ Mark(w)

Locked ==
  \/ ReadRecord \/ LockedStorageFails \/ CancelDecide \/ CancelMark \/ CancelGather
  \/ \E w \in Runs : StartDecide(w)

Task(k) == Consume(k) \/ Close(k)

Next ==
  \/ \E o \in Owners : \E k \in Ids[o] : \/ \E p \in Payloads : Start(o, k, p)
                                       \/ Cancel(o, k) \/ Get(o, k) \/ GetRow(o, k)
  \/ Locked
  \/ \E w \in Runs : Worker(w)
  \/ \E k \in Keys : Task(k)
  \/ Shutdown
  \/ Restart

Spec == Init /\ [][Next]_vars

\* Threads, the event loop and awaited statements always get on; clients need not.
Fairness ==
  /\ WF_vars(Locked)
  /\ \A w \in Runs : WF_vars(Worker(w))
  /\ \A k \in Keys : WF_vars(Task(k))

FairSpec == Spec /\ Fairness

-----------------------------------------------------------------------------
(* Properties *)

Threads(k) == {w \in Runs : workers[w].key = k}

\* Every variable keeps its shape.
TypeOK ==
  /\ up \in BOOLEAN
  /\ jobs \in [Keys -> Jobs \cup {Null}]
  /\ older \in [Keys -> SUBSET Keys]
  /\ lock \in Requests \cup {Null}
  /\ rows \in [Keys -> Rows \cup {Null}]
  /\ workers \in [Runs -> Workers]
  /\ \A w \in Runs : workers[w].pc # "idle" => workers[w].key \in Keys /\ workers[w].owner \in Owners
  /\ executions \in [Keys -> Nat]
  /\ told \in [Keys -> SUBSET {"complete", "cancelled", "interrupted"}]

\* docs/studio-access.md: one active trip per visitor and MaxActive in total, although
\* the check and the insertion are separated from the lookup by an await.
ActiveTripsBounded ==
  /\ Cardinality(Active) <= MaxActive
  /\ \A j, k \in Active : jobs[j].owner = jobs[k].owner => j = k

\* Reconnects, repeated POSTs, evictions and restarts never pay for the same id twice.
PaidAtMostOnce == \A k \in Keys : executions[k] <= 1

\* No provider work starts for an id before its row is stored, whoever stored it.
RecordedBeforePaid == \A k \in Keys : executions[k] > 0 => rows[k] # Null

\* Why PaidAtMostOnce holds: the INSERT lets one thread per id reach execute_run, and what a
\* thread did so far can be read off the row and the payments of its id.
PaymentInv ==
  /\ \A k \in Keys : executions[k] <= 1 /\ (executions[k] > 0 => rows[k] # Null)
  /\ \A w \in Runs :
       /\ workers[w].pc = "execute" =>
            rows[workers[w].key] # Null /\ executions[workers[w].key] = 0
       /\ workers[w].pc \in {"running", "finish", "result"} => executions[workers[w].key] = 1
  /\ \A w, v \in Runs :
       workers[w].pc = "execute" /\ workers[v].pc = "execute" /\ workers[w].key = workers[v].key
         => w = v

\* A settled row is never rewritten: not by a late finish, a late cancel or a restart.
RowsSettleOnce ==
  [][\A k \in Keys : rows[k] # Null /\ rows[k].status # "running" => rows'[k] = rows[k]]_vars

\* A job reported complete ran its providers and has its row; a client is told "complete" only of an id
\* whose run was done or whose row is settled, also after evictions, reconnects and restarts.
CompleteWasExecuted ==
  \A k \in Keys :
    /\ jobs[k] # Null /\ jobs[k].terminal = "complete" => executions[k] = 1 /\ rows[k] # Null
    /\ "complete" \in told[k] => rows[k] # Null /\ (executions[k] = 1 \/ rows[k].status # "running")

\* A row stays unfinished only behind a thread that still works on it, was stopped, or had a statement fail
\* or its process die under it: no other path through a run, whatever its outcome, leaves one.
OnlyStoppedRunsStayUnfinished ==
  \A k \in Keys : rows[k] # Null /\ rows[k].status = "running" =>
    \E w \in Threads(k) : workers[w].pc \notin Ended \/ workers[w].stop \/ workers[w].struck

\* Without any client, every job gets a terminal state (or dies with its process), POST and DELETE release
\* the registry lock, and a cancelled turn's thread ends, whatever it was doing.
JobsEnd ==
  /\ \A k \in Keys : k \in Active ~> k \notin Active
  /\ lock # Null ~> lock = Null
  /\ \A w \in Runs : workers[w].stop ~> workers[w].pc \in Ended

\* The rows and the provider work, seen as the ledger of RunLedger.
Record ==
  [k \in Keys |-> IF rows[k] = Null THEN "absent" ELSE rows[k].status]

Ledger == INSTANCE RunLedger WITH record <- Record, paid <- executions

\* Whatever the registry, its threads and its restarts do, the history only ever opens,
\* pays and settles each id as the ledger allows.
ImplementsLedger == Ledger!LedgerSpec
=============================================================================
