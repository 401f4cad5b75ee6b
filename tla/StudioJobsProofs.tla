--------------------------- MODULE StudioJobsProofs ---------------------------
(***************************************************************************)
(* Proofs about StudioJobs for any number of visitors, ids, inputs and     *)
(* threads, any limits and any combination of faults.                      *)
(***************************************************************************)
EXTENDS StudioJobs, FiniteSetTheorems, TLAPS

USE DEF Terminals

(***************************************************************************)
(* Type correctness: every reachable state of the registry, its lock, the  *)
(* rows and the threads has the shape TypeOK states.                       *)
(***************************************************************************)
\* The initial states have their types.
LEMMA TypeInit == Init => TypeOK
  BY DEF Init, TypeOK, Workers, Points, IdleWorker

\* prune() leaves jobs, the eviction order and the event streams well typed.
LEMMA PrunedTypes ==
  ASSUME TypeOK, NEW D \in Prunable
  PROVE  /\ Pruned(D) \in [Keys -> Jobs \cup {Null}]
         /\ OlderPruned(D) \in [Keys -> SUBSET Keys]
  BY DEF TypeOK, Pruned, OlderPruned

\* Entering finished jobs in the eviction order keeps its type.
LEMMA StampedType ==
  ASSUME NEW ord \in [Keys -> SUBSET Keys], NEW fs \in SUBSET Keys, NEW k \in Keys
  PROVE  Stamped(ord, fs, k) \in [Keys -> SUBSET Keys]
  BY DEF Stamped

\* An event published to a job keeps the stream's type.
LEMMA TellType ==
  ASSUME TypeOK, NEW k \in Keys, NEW s \in {"complete", "cancelled", "interrupted"}, Tell(k, s)
  PROVE  told' \in [Keys -> SUBSET {"complete", "cancelled", "interrupted"}]
  BY DEF TypeOK, Tell

\* Settling a running row yields rows.
LEMMA SettledType ==
  ASSUME TypeOK, NEW o, NEW k, NEW s \in {"completed", "failed"}
  PROVE  SettledRows(o, k, s) \in [Keys -> Rows \cup {Null}]
<1> SUFFICES ASSUME NEW j \in Keys PROVE SettledRows(o, k, s)[j] \in Rows \cup {Null}
  BY DEF SettledRows, TypeOK
<1>1. CASE j = k
  BY <1>1 DEF TypeOK, SettledRows, Rows
<1>2. CASE j # k
  BY <1>2 DEF TypeOK, SettledRows
<1> QED BY <1>1, <1>2

\* The conjuncts of TypeOK about threads; idle ones serve no id.
WorkersOK ==
  /\ workers \in [Runs -> Workers]
  /\ \A w \in Runs : workers[w].pc # "idle" => workers[w].key \in Keys /\ workers[w].owner \in Owners

\* A step of a thread to another point, failing or not.
Moves(w, p) == Move(w, p) \/ Fail(w, p)

\* A new record of one worker, with its id and visitor, keeps the workers' type.
LEMMA WorkerType ==
  ASSUME TypeOK, NEW w, NEW x \in Workers, workers' = [workers EXCEPT ![w] = x],
         w \in Runs /\ x.pc # "idle" => x.key \in Keys /\ x.owner \in Owners
  PROVE  WorkersOK'
<1>1. /\ workers \in [Runs -> Workers]
      /\ \A v \in Runs : workers[v].pc # "idle" => workers[v].key \in Keys /\ workers[v].owner \in Owners
  BY DEF TypeOK
<1>2. workers' \in [Runs -> Workers]
  BY <1>1
<1>3. \A v \in Runs : workers'[v] = IF v = w THEN x ELSE workers[v]
  BY <1>1
<1>4. \A v \in Runs : workers'[v].pc # "idle" => workers'[v].key \in Keys /\ workers'[v].owner \in Owners
  BY <1>1, <1>3
<1> QED BY <1>2, <1>4 DEF WorkersOK

\* A worker's step to another point keeps the workers' type.
LEMMA MoveType ==
  ASSUME TypeOK, NEW w, NEW p \in Points, Moves(w, p),
         w \in Runs => workers[w].pc # "idle"
  PROVE  WorkersOK'
<1>1. /\ workers \in [Runs -> Workers]
      /\ \A v \in Runs : workers[v].pc # "idle" => workers[v].key \in Keys /\ workers[v].owner \in Owners
  BY DEF TypeOK
<1>2. CASE w \notin Runs
  <2>1. workers' = workers
    BY <1>1, <1>2 DEF Moves, Move, Fail
  <2> QED BY <1>1, <2>1 DEF WorkersOK
<1>3. CASE w \in Runs
  <2>1. PICK b \in BOOLEAN : workers' = [workers EXCEPT ![w] = [workers[w] EXCEPT !.pc = p, !.struck = b]]
    <3>1. workers[w] = [workers[w] EXCEPT !.struck = @] /\ workers[w].struck \in BOOLEAN
      BY <1>1, <1>3 DEF Workers
    <3>2. [workers[w] EXCEPT !.pc = p] = [workers[w] EXCEPT !.pc = p, !.struck = workers[w].struck]
      BY <1>1, <1>3 DEF Workers
    <3>3. CASE Move(w, p)
      BY <1>1, <1>3, <3>1, <3>2, <3>3 DEF Move
    <3>4. CASE Fail(w, p)
      BY <1>1, <1>3, <3>4 DEF Fail
    <3> QED BY <3>3, <3>4 DEF Moves
  <2> DEFINE x == [workers[w] EXCEPT !.pc = p, !.struck = b]
  <2>2. x \in Workers /\ x.key = workers[w].key /\ x.owner = workers[w].owner
    BY <1>1, <1>3, <2>1 DEF Workers
  <2>3. x.key \in Keys /\ x.owner \in Owners
    BY <1>1, <1>3, <2>2
  <2> HIDE DEF x
  <2> QED BY <2>1, <2>2, <2>3, WorkerType DEF x
<1> QED BY <1>2, <1>3

\* Marking workers cancelled keeps the workers' type.
LEMMA StopType ==
  ASSUME TypeOK, NEW w, workers' = [workers EXCEPT ![w].stop = TRUE]
  PROVE  WorkersOK'
<1>1. /\ workers \in [Runs -> Workers]
      /\ \A v \in Runs : workers[v].pc # "idle" => workers[v].key \in Keys /\ workers[v].owner \in Owners
  BY DEF TypeOK
<1>2. CASE w \notin Runs
  <2>1. workers' = workers
    BY <1>1, <1>2
  <2> QED BY <1>1, <2>1 DEF WorkersOK
<1>3. CASE w \in Runs
  <2> DEFINE x == [workers[w] EXCEPT !.stop = TRUE]
  <2>1. x \in Workers /\ x.pc = workers[w].pc /\ x.key = workers[w].key /\ x.owner = workers[w].owner
    BY <1>1, <1>3 DEF Workers
  <2>2. workers' = [workers EXCEPT ![w] = x]
    BY <1>1
  <2>3. x.pc # "idle" => x.key \in Keys /\ x.owner \in Owners
    BY <1>1, <1>3, <2>1
  <2> HIDE DEF x
  <2> QED BY <2>1, <2>2, <2>3, WorkerType
<1> QED BY <1>2, <1>3

\* Every step keeps the types.
LEMMA TypeStep == TypeOK /\ [Next]_vars => TypeOK'
<1> SUFFICES ASSUME TypeOK, [Next]_vars PROVE TypeOK'
  OBVIOUS
<1>f. Finished \subseteq Keys
  BY DEF Finished
<1>w. WorkersOK
  BY DEF TypeOK, WorkersOK
<1>1. ASSUME NEW o \in Owners, NEW k \in Keys, NEW p \in Payloads, Start(o, k, p) PROVE TypeOK'
  <2>1. PICK D \in Prunable : jobs' = Pruned(D) /\ older' = OlderPruned(D)
    BY <1>1 DEF Start
  <2>2. jobs' \in [Keys -> Jobs \cup {Null}] /\ older' \in [Keys -> SUBSET Keys]
    BY <2>1, PrunedTypes
  <2>3. lock' \in Requests \cup {Null}
    BY <1>1 DEF Start, TypeOK, Requests
  <2>4. told' \in [Keys -> SUBSET {"complete", "cancelled", "interrupted"}]
    BY <1>1 DEF Start, TypeOK, Tell
  <2> QED BY <1>1, <2>2, <2>3, <2>4 DEF Start, TypeOK, WorkersOK
<1>2. ASSUME NEW o \in Owners, NEW k \in Keys, Cancel(o, k) PROVE TypeOK'
  <2>1. jobs' \in [Keys -> Jobs \cup {Null}]
    BY <1>2, NullAssumption DEF Cancel, TypeOK, Jobs
  <2>2. older' \in [Keys -> SUBSET Keys]
    <3>1. Stamped(older, Finished, k) \in [Keys -> SUBSET Keys]
      BY <1>f, StampedType DEF TypeOK
    <3> QED BY <1>2, <3>1 DEF Cancel, TypeOK, WorkersOK
  <2>3. lock' \in Requests \cup {Null}
    BY <1>2 DEF Cancel, TypeOK, Requests
  <2>4. told' \in [Keys -> SUBSET {"complete", "cancelled", "interrupted"}]
    BY <1>2 DEF Cancel, TypeOK, Tell
  <2> QED BY <1>2, <2>1, <2>2, <2>3, <2>4 DEF Cancel, TypeOK, WorkersOK
<1>3. ASSUME NEW o \in Owners, NEW k \in Keys, Get(o, k) PROVE TypeOK'
  BY <1>3 DEF Get, TypeOK, Tell
<1>4. ASSUME NEW o \in Owners, NEW k \in Keys, GetRow(o, k) PROVE TypeOK'
  <2>1. SavedState(rows[k]) \in {"complete", "interrupted"}
    BY DEF SavedState
  <2>2. told' \in [Keys -> SUBSET {"complete", "cancelled", "interrupted"}]
    BY <1>4, <2>1, TellType DEF GetRow
  <2> QED BY <1>4, <2>2 DEF GetRow, TypeOK, WorkersOK
<1>5. CASE ReadRecord
  <2>1. lock \in Requests
    BY <1>5 DEF ReadRecord, TypeOK
  <2>2. Visible(lock.owner, lock.key) \in Rows \cup {Null}
    BY <2>1 DEF Visible, TypeOK, Requests
  <2>3. lock' \in Requests
    BY <1>5, <2>1, <2>2 DEF ReadRecord, Requests
  <2> QED BY <1>5, <2>3 DEF ReadRecord, TypeOK, WorkersOK
<1>6. CASE LockedStorageFails
  BY <1>6 DEF LockedStorageFails, TypeOK
<1>7. CASE CancelDecide
  <2>1. lock \in Requests /\ lock.key \in Keys /\ lock.owner \in Owners
    BY <1>7 DEF CancelDecide, TypeOK, Requests
  <2>2. CASE lock.row # Null /\ lock.row.status = "running"
    <3>1. lock' \in Requests
      BY <1>7, <2>1, <2>2 DEF CancelDecide, Requests
    <3> QED BY <1>7, <2>2, <3>1 DEF CancelDecide, TypeOK, WorkersOK
  <2>3. CASE lock.row # Null /\ lock.row.status # "running"
    BY <1>7, <2>1, <2>3, TellType DEF CancelDecide, TypeOK
  <2>4. CASE lock.row = Null
    <3>1. PICK D \in Prunable :
            /\ jobs' = [Pruned(D) EXCEPT ![lock.key] = [owner |-> lock.owner, payload |-> Null,
                           terminal |-> "cancelled", done |-> TRUE, run |-> Null]]
            /\ older' = Stamped(OlderPruned(D), Finished \ D, lock.key)
      BY <1>7, <2>4 DEF CancelDecide
    <3>2. [owner |-> lock.owner, payload |-> Null,
           terminal |-> "cancelled", done |-> TRUE, run |-> Null] \in Jobs
      BY <2>1 DEF Jobs
    <3>3. jobs' \in [Keys -> Jobs \cup {Null}]
      BY <3>1, <3>2, PrunedTypes
    <3>4. older' \in [Keys -> SUBSET Keys]
      BY <3>1, <1>f, <2>1, PrunedTypes, StampedType
    <3>5. told' \in [Keys -> SUBSET {"complete", "cancelled", "interrupted"}]
      BY <1>7, <2>1, <2>4, TellType DEF CancelDecide
    <3> QED BY <1>7, <2>4, <3>3, <3>4, <3>5 DEF CancelDecide, TypeOK, WorkersOK
  <2> QED BY <2>2, <2>3, <2>4
<1>8. CASE CancelMark
  <2>1. lock.key \in Keys
    BY <1>8 DEF CancelMark, TypeOK, Requests
  <2> QED BY <1>8, <2>1, SettledType, TellType DEF CancelMark, TypeOK, WorkersOK
<1>9. CASE CancelGather
  <2>1. lock.key \in Keys
    BY <1>9 DEF CancelGather, TypeOK, Requests
  <2>2. WorkersOK'
    BY <1>9, StopType DEF CancelGather
  <2> QED BY <1>9, <1>f, <2>1, <2>2, StampedType, TellType DEF CancelGather, TypeOK, WorkersOK
<1>10. ASSUME NEW w \in Runs, StartDecide(w) PROVE TypeOK'
  <2>1. lock \in Requests /\ lock.key \in Keys /\ lock.owner \in Owners
        /\ lock.payload \in Payloads \cup {Null} /\ lock.row \in Rows \cup {Null}
    BY <1>10 DEF StartDecide, TypeOK, Requests
  <2>a. [owner |-> lock.owner, payload |-> lock.payload,
         terminal |-> Null, done |-> FALSE, run |-> w] \in Jobs
    BY <2>1 DEF Jobs
  <2>b. [pc |-> "spawned", key |-> lock.key, owner |-> lock.owner, stop |-> FALSE, struck |-> FALSE] \in Workers
    BY <2>1 DEF Workers, Points
  <2>2. jobs' \in [Keys -> Jobs \cup {Null}]
    BY <1>10, <2>1, <2>a DEF StartDecide, TypeOK
  <2>3. WorkersOK'
    <3>1. \/ workers' = workers
          \/ workers' = [workers EXCEPT ![w] = [pc |-> "spawned", key |-> lock.key,
                                                 owner |-> lock.owner, stop |-> FALSE, struck |-> FALSE]]
      BY <1>10 DEF StartDecide
    <3>2. ASSUME NEW n \in Workers, n.key \in Keys, n.owner \in Owners,
                 workers' = [workers EXCEPT ![w] = n]
          PROVE  WorkersOK'
      BY <3>2, <1>w DEF WorkersOK
    <3> QED BY <3>1, <3>2, <2>1, <2>b, <1>w DEF WorkersOK
  <2>4. told' \in [Keys -> SUBSET {"complete", "cancelled", "interrupted"}]
    <3>1. CASE lock.row # Null
      <4>1. SavedState(lock.row) \in {"complete", "interrupted"}
        BY DEF SavedState
      <4>2. Tell(lock.key, SavedState(lock.row))
        BY <1>10, <3>1 DEF StartDecide
      <4> QED BY <4>1, <4>2, <2>1, TellType
    <3>2. CASE lock.row = Null
      BY <1>10, <3>2 DEF StartDecide, TypeOK
    <3> QED BY <3>1, <3>2
  <2> QED BY <1>10, <2>2, <2>3, <2>4 DEF StartDecide, TypeOK, WorkersOK
<1>11. ASSUME NEW w \in Runs, Worker(w) PROVE TypeOK'
  <2>1. CASE ThreadStarts(w)
    <3>1. WorkersOK'
      BY <2>1, MoveType DEF Moves, ThreadStarts, Points
    <3> QED BY <2>1, <3>1 DEF ThreadStarts, TypeOK, WorkersOK
  <2>2. CASE Begin(w)
    <3>1. WorkersOK'
      BY <2>2, MoveType DEF Moves, Begin, Points
    <3>2. rows' \in [Keys -> Rows \cup {Null}]
      BY <2>2 DEF Begin, TypeOK, Rows
    <3> QED BY <2>2, <3>1, <3>2 DEF Begin, TypeOK, WorkersOK
  <2>3. CASE BeginFails(w)
    <3>1. WorkersOK'
      BY <2>3, MoveType DEF Moves, BeginFails, Points
    <3>2. rows' \in [Keys -> Rows \cup {Null}]
      BY <2>3 DEF BeginFails, TypeOK, Rows
    <3> QED BY <2>3, <3>1, <3>2 DEF BeginFails, TypeOK, WorkersOK
  <2>4. CASE Execute(w)
    <3>1. WorkersOK'
      BY <2>4, MoveType DEF Moves, Execute, Points
    <3> QED BY <2>4, <3>1 DEF Execute, TypeOK, WorkersOK
  <2>5. CASE Executed(w)
    <3>1. WorkersOK'
      BY <2>5, MoveType DEF Moves, Executed, Points
    <3> QED BY <2>5, <3>1 DEF Executed, TypeOK, WorkersOK
  <2>6. CASE Interrupted(w)
    <3>1. WorkersOK'
      BY <2>6, MoveType DEF Moves, Interrupted, Points
    <3> QED BY <2>6, <3>1 DEF Interrupted, TypeOK, WorkersOK
  <2>7. CASE Finish(w)
    <3>1. WorkersOK'
      BY <2>7, MoveType DEF Moves, Finish, Points
    <3>2. rows' \in [Keys -> Rows \cup {Null}]
      BY <2>7, SettledType DEF Finish, TypeOK
    <3> QED BY <2>7, <3>1, <3>2 DEF Finish, TypeOK, WorkersOK
  <2>8. CASE FinishFails(w)
    <3>1. WorkersOK'
      BY <2>8, MoveType DEF Moves, FinishFails, Points
    <3> QED BY <2>8, <3>1 DEF FinishFails, TypeOK, WorkersOK
  <2>9. CASE FinishDropped(w)
    <3>1. WorkersOK'
      BY <2>9, MoveType DEF Moves, FinishDropped, Points
    <3> QED BY <2>9, <3>1 DEF FinishDropped, TypeOK, WorkersOK
  <2>10. CASE Mark(w)
    <3>1. WorkersOK'
      BY <2>10, MoveType DEF Moves, Mark, Points
    <3>2. rows' \in [Keys -> Rows \cup {Null}]
      BY <2>10, SettledType DEF Mark, TypeOK
    <3> QED BY <2>10, <3>1, <3>2 DEF Mark, TypeOK, WorkersOK
  <2> QED BY <1>11, <2>1, <2>2, <2>3, <2>4, <2>5, <2>6, <2>7, <2>8, <2>9, <2>10 DEF Worker
<1>12. ASSUME NEW k \in Keys, Consume(k) PROVE TypeOK'
  <2>1. jobs[k] \in Jobs
    BY <1>12 DEF Consume, Active, TypeOK
  <2>2. jobs' \in [Keys -> Jobs \cup {Null}]
    BY <1>12, <2>1 DEF Consume, TypeOK, Jobs
  <2>3. WorkersOK'
    BY <1>12, MoveType DEF Moves, Consume, Points
  <2> QED BY <1>12, <2>2, <2>3 DEF Consume, TypeOK, WorkersOK
<1>13. ASSUME NEW k \in Keys, Close(k) PROVE TypeOK'
  <2>1. jobs[k] \in Jobs
    BY <1>13 DEF Close, TypeOK
  <2>2. jobs' \in [Keys -> Jobs \cup {Null}]
    BY <1>13, <2>1 DEF Close, TypeOK, Jobs
  <2>3. WorkersOK'
    BY <1>13, StopType DEF Close
  <2> QED BY <1>13, <1>f, <2>2, <2>3, StampedType DEF Close, TypeOK, WorkersOK
<1>14. CASE Shutdown
  <2>1. jobs' \in [Keys -> Jobs \cup {Null}]
    <3>1. ASSUME NEW k \in Keys, jobs[k] # Null, ~jobs[k].done
          PROVE  [jobs[k] EXCEPT !.terminal = "cancelled", !.done = TRUE] \in Jobs
      <4>1. jobs[k] \in Jobs
        BY <3>1 DEF TypeOK
      <4> QED BY <4>1 DEF Jobs
    <3> QED BY <1>14, <3>1 DEF Shutdown, TypeOK
  <2>2. WorkersOK'
    <3>1. ASSUME NEW w \in Runs
          PROVE  /\ workers'[w] \in Workers
                 /\ workers'[w].pc = workers[w].pc
                 /\ workers'[w].key = workers[w].key
                 /\ workers'[w].owner = workers[w].owner
      <4>1. workers[w] \in Workers
        BY DEF TypeOK
      <4>2. workers'[w] = workers[w] \/ workers'[w] = [workers[w] EXCEPT !.stop = TRUE]
        BY <1>14 DEF Shutdown
      <4> QED BY <4>1, <4>2 DEF Workers
    <3>2. workers' = [w \in Runs |-> workers'[w]]
      BY <1>14 DEF Shutdown
    <3> QED BY <3>1, <3>2, <1>w DEF WorkersOK
  <2> QED BY <1>14, <2>1, <2>2 DEF Shutdown, TypeOK, WorkersOK
<1>15. CASE Restart
  <2>1. WorkersOK'
    BY <1>15, <1>w, ZenonT(60) DEF Restart, WorkersOK, Workers, Points
  <2> QED BY <1>15, <2>1 DEF Restart, TypeOK, WorkersOK
<1>16. CASE UNCHANGED vars
  BY <1>16 DEF vars, TypeOK
<1> QED
  BY <1>1, <1>2, <1>3, <1>4, <1>5, <1>6, <1>7, <1>8, <1>9, <1>10, <1>11, <1>12, <1>13,
     <1>14, <1>15, <1>16, IdsAssumption DEF Next, Locked, Task

\* The registry, its lock, rows and threads always have the shapes of TypeOK.
THEOREM TypeCorrect == Spec => []TypeOK
  BY TypeInit, TypeStep, PTL DEF Spec

(***************************************************************************)
(* Payments.  PaidAtMostOnce is not inductive: that execute_run is entered *)
(* once per id depends on only one thread ever standing between its INSERT *)
(* and execute_run, which the primary key guarantees.                      *)
(***************************************************************************)
\* Nothing is paid and no row is stored at first.
LEMMA PaymentInit == Init => PaymentInv
  BY DEF Init, PaymentInv, IdleWorker

\* Rows only grow or settle: no UPDATE removes one.
LEMMA RowsStay ==
  ASSUME TypeOK, NEW o, NEW k, NEW s \in {"completed", "failed"}, NEW j \in Keys, rows[j] # Null
  PROVE  SettledRows(o, k, s)[j] # Null
<1>1. rows[j] \in Rows
  BY DEF TypeOK
<1>2. [rows[j] EXCEPT !.status = s] \in Rows
  BY <1>1 DEF Rows
<1> QED BY <1>1, <1>2, NullAssumption DEF SettledRows, TypeOK

\* Steps that pay nothing, remove no row and bring no thread before execute_run.
Quiet ==
  /\ executions' = executions
  /\ \A k \in Keys : rows[k] # Null => rows'[k] # Null
  /\ \A w \in Runs : workers'[w].pc \in {"execute", "running", "finish", "result"} =>
       /\ workers'[w].key = workers[w].key
       /\ \/ workers'[w].pc = workers[w].pc
          \/ workers[w].pc \in {"running", "finish"} /\ workers'[w].pc # "execute"

\* A step that changes no row, pays nothing and moves no worker to a place where it
\* may pay keeps the payments.
LEMMA QuietStep ==
  ASSUME TypeOK, PaymentInv, Quiet
  PROVE  PaymentInv'
<1>1. ASSUME NEW k \in Keys PROVE executions'[k] <= 1 /\ (executions'[k] > 0 => rows'[k] # Null)
  BY DEF Quiet, PaymentInv
<1>2. ASSUME NEW w \in Runs
      PROVE  /\ workers'[w].pc = "execute" =>
                  rows'[workers'[w].key] # Null /\ executions'[workers'[w].key] = 0
             /\ workers'[w].pc \in {"running", "finish", "result"} =>
                  executions'[workers'[w].key] = 1
  BY DEF Quiet, PaymentInv, TypeOK
<1>3. ASSUME NEW w \in Runs, NEW v \in Runs, workers'[w].pc = "execute",
             workers'[v].pc = "execute", workers'[w].key = workers'[v].key
      PROVE  w = v
  BY <1>3 DEF Quiet, PaymentInv
<1> QED BY <1>1, <1>2, <1>3 DEF PaymentInv

\* A worker's move away from the payment is such a step.
LEMMA MoveQuiet ==
  ASSUME TypeOK, NEW w \in Runs, NEW p \in Points \ {"execute"}, Moves(w, p), executions' = executions,
         \A k \in Keys : rows[k] # Null => rows'[k] # Null,
         p \in {"running", "finish", "result"} => workers[w].pc \in {"running", "finish"}
  PROVE  Quiet
  BY DEF Quiet, Moves, Move, Fail, TypeOK, Workers

\* Cancelling workers is such a step.
LEMMA StopQuiet ==
  ASSUME TypeOK, NEW w, workers' = [workers EXCEPT ![w].stop = TRUE],
         executions' = executions, rows' = rows
  PROVE  Quiet
  BY DEF Quiet, TypeOK, Workers

\* Every step keeps the payments.
LEMMA PaymentStep == TypeOK /\ PaymentInv /\ [Next]_vars => PaymentInv'
<1> SUFFICES ASSUME TypeOK, PaymentInv, [Next]_vars PROVE PaymentInv'
  OBVIOUS
<1>1. ASSUME UNCHANGED <<rows, workers, executions>> PROVE Quiet
  BY <1>1 DEF Quiet
<1>2. ASSUME NEW o \in Owners, NEW k \in Keys,
             Get(o, k) \/ GetRow(o, k) \/ Cancel(o, k) \/ \E p \in Payloads : Start(o, k, p)
      PROVE  Quiet
  BY <1>1, <1>2 DEF Get, GetRow, Cancel, Start
<1>3. CASE ReadRecord \/ LockedStorageFails \/ CancelDecide \/ UNCHANGED vars
  BY <1>1, <1>3, QuietStep DEF ReadRecord, LockedStorageFails, CancelDecide, vars
<1>4. CASE CancelMark
  BY <1>4, RowsStay, QuietStep DEF CancelMark, Quiet
<1>5. CASE CancelGather
  BY <1>5, StopQuiet, QuietStep DEF CancelGather
<1>6. ASSUME NEW w \in Runs, StartDecide(w) PROVE PaymentInv'
  <2>1. rows' = rows /\ executions' = executions
    BY <1>6 DEF StartDecide
  <2>2. \/ workers' = workers
        \/ workers' = [workers EXCEPT ![w] = [pc |-> "spawned", key |-> lock.key,
                                              owner |-> lock.owner, stop |-> FALSE, struck |-> FALSE]]
    BY <1>6 DEF StartDecide
  <2>3. Quiet
    BY <2>1, <2>2 DEF Quiet, TypeOK
  <2> QED BY <2>3, QuietStep
<1>7. ASSUME NEW w \in Runs, Begin(w) PROVE PaymentInv'
  <2>1. workers[w].key \in Keys
    BY <1>7 DEF Begin, TypeOK
  <2>2. CASE workers'[w].pc = "execute"
    <3>1. /\ rows[workers[w].key] = Null
          /\ rows' = [rows EXCEPT ![workers[w].key] = [owner |-> workers[w].owner, status |-> "running"]]
          /\ Move(w, "execute") /\ executions' = executions
      BY <1>7, <2>2 DEF Begin, Move, TypeOK, Workers
    <3>2. [owner |-> workers[w].owner, status |-> "running"] # Null
      BY <1>7, NullAssumption DEF Begin, TypeOK, Rows
    <3>3. \A k \in Keys : rows[k] # Null => rows'[k] # Null
      BY <3>1, <3>2 DEF TypeOK
    <3>4. rows'[workers[w].key] # Null /\ executions[workers[w].key] = 0
      BY <2>1, <3>1, <3>2 DEF TypeOK, PaymentInv
    <3>5. \A v \in Runs : /\ workers'[v].key = workers[v].key
                          /\ v # w => workers'[v].pc = workers[v].pc
      BY <3>1 DEF Move, TypeOK, Workers
    <3>6. \A v \in Runs : workers[v].pc = "execute" => workers[v].key # workers[w].key
      BY <3>1 DEF PaymentInv
    <3>7. ASSUME NEW k \in Keys PROVE executions'[k] <= 1 /\ (executions'[k] > 0 => rows'[k] # Null)
      BY <3>1, <3>3 DEF PaymentInv
    <3>8. ASSUME NEW v \in Runs
          PROVE  /\ workers'[v].pc = "execute" =>
                      rows'[workers'[v].key] # Null /\ executions'[workers'[v].key] = 0
                 /\ workers'[v].pc \in {"running", "finish", "result"} =>
                      executions'[workers'[v].key] = 1
      BY <2>2, <3>1, <3>3, <3>4, <3>5 DEF PaymentInv, TypeOK
    <3>9. ASSUME NEW u \in Runs, NEW v \in Runs, workers'[u].pc = "execute",
                 workers'[v].pc = "execute", workers'[u].key = workers'[v].key
          PROVE  u = v
      BY <3>5, <3>6, <3>9 DEF PaymentInv
    <3> QED BY <3>7, <3>8, <3>9 DEF PaymentInv
  <2>3. CASE workers'[w].pc # "execute"
    <3>1. PICK p \in {"marking", "done", "error"} : Move(w, p)
      BY <1>7, <2>3 DEF Begin, Move, TypeOK, Workers
    <3>2. \A k \in Keys : rows[k] # Null => rows'[k] # Null
      BY <1>7 DEF Begin, TypeOK
    <3> QED BY <1>7, <3>1, <3>2, MoveQuiet, QuietStep DEF Begin, Points, Moves
  <2> QED BY <2>2, <2>3
<1>8. ASSUME NEW w \in Runs, Execute(w) PROVE PaymentInv'
  <2> DEFINE k0 == workers[w].key
  <2>1. k0 \in Keys /\ rows' = rows /\ executions' = [executions EXCEPT ![k0] = @ + 1]
        /\ executions[k0] = 0 /\ rows[k0] # Null /\ Move(w, "running")
    BY <1>8 DEF Execute, TypeOK, PaymentInv
  <2>2. \A v \in Runs : /\ workers'[v].key = workers[v].key
                        /\ v # w => workers'[v].pc = workers[v].pc
    BY <2>1 DEF Move, TypeOK, Workers
  <2>3. workers'[w].pc = "running"
    BY <2>1 DEF Move, TypeOK, Workers
  <2>4. \A k \in Keys : executions'[k] = IF k = k0 THEN 1 ELSE executions[k]
    BY <2>1 DEF TypeOK
  <2>5. \A v \in Runs : v # w /\ workers[v].pc = "execute" => workers[v].key # k0
    BY <1>8 DEF Execute, PaymentInv
  <2>6. \A v \in Runs : workers[v].pc \in {"running", "finish", "result"} => workers[v].key # k0
    BY <2>1 DEF PaymentInv
  <2>7. \A v \in Runs : workers[v].pc # "idle" => workers[v].key \in Keys
    BY DEF TypeOK
  <2> HIDE DEF k0
  <2>8. ASSUME NEW k \in Keys PROVE executions'[k] <= 1 /\ (executions'[k] > 0 => rows'[k] # Null)
    BY <2>1, <2>4 DEF PaymentInv
  <2>9. ASSUME NEW v \in Runs
        PROVE  /\ workers'[v].pc = "execute" =>
                    rows'[workers'[v].key] # Null /\ executions'[workers'[v].key] = 0
               /\ workers'[v].pc \in {"running", "finish", "result"} =>
                    executions'[workers'[v].key] = 1
    <3>1. CASE v = w
      BY <2>1, <2>2, <2>3, <2>4, <3>1 DEF k0
    <3>2. CASE v # w
      BY <2>1, <2>2, <2>4, <2>5, <2>6, <2>7, <3>2 DEF PaymentInv
    <3> QED BY <3>1, <3>2
  <2>10. ASSUME NEW u \in Runs, NEW v \in Runs, workers'[u].pc = "execute",
                workers'[v].pc = "execute", workers'[u].key = workers'[v].key
         PROVE  u = v
    BY <2>2, <2>3, <2>10 DEF PaymentInv
  <2> QED BY <2>8, <2>9, <2>10 DEF PaymentInv
<1>9. ASSUME NEW w \in Runs, Worker(w), ~Begin(w), ~Execute(w) PROVE PaymentInv'
  <2>1. executions' = executions
    BY <1>9 DEF Worker, ThreadStarts, BeginFails, Executed, Interrupted, Finish, FinishFails,
         FinishDropped, Mark
  <2>2. PICK p \in Points \ {"execute"} :
          /\ Moves(w, p)
          /\ p \in {"running", "finish", "result"} => workers[w].pc \in {"running", "finish"}
    BY <1>9 DEF Moves, Worker, ThreadStarts, BeginFails, Executed, Interrupted, Finish, FinishFails,
         FinishDropped, Mark, Points
  <2>3. ASSUME NEW k \in Keys, rows[k] # Null PROVE rows'[k] # Null
    BY <1>9, <2>3, RowsStay DEF Worker, ThreadStarts, BeginFails, Executed, Interrupted, Finish,
         FinishFails, FinishDropped, Mark, TypeOK
  <2> QED BY <2>1, <2>2, <2>3, MoveQuiet, QuietStep
<1>10. ASSUME NEW k \in Keys, Task(k) PROVE PaymentInv'
  <2>1. CASE Consume(k)
    BY <2>1, QuietStep DEF Consume, Move, Quiet, TypeOK, Workers
  <2>2. CASE Close(k)
    BY <2>2, StopQuiet, QuietStep DEF Close
  <2> QED BY <1>10, <2>1, <2>2 DEF Task
<1>11. CASE Shutdown
  <2>1. ASSUME NEW w \in Runs PROVE workers'[w].pc = workers[w].pc /\ workers'[w].key = workers[w].key
    BY <1>11, ZenonT(60) DEF Shutdown, TypeOK, Workers
  <2> QED BY <1>11, <2>1, QuietStep DEF Shutdown, Quiet
<1>12. CASE Restart
  <2>1. ASSUME NEW w \in Runs PROVE workers'[w].pc \in {"idle", "done"}
    BY <1>12 DEF Restart, TypeOK, Workers
  <2> QED BY <1>12, <2>1, QuietStep DEF Restart, Quiet
<1> QED
  BY <1>2, <1>3, <1>4, <1>5, <1>6, <1>7, <1>8, <1>9, <1>10, <1>11, <1>12, QuietStep, IdsAssumption DEF Next, Locked

\* Types and payments hold throughout.
LEMMA Payments == Spec => [](TypeOK /\ PaymentInv)
<1>1. Init => TypeOK /\ PaymentInv
  BY TypeInit, PaymentInit
<1>2. TypeOK /\ PaymentInv /\ [Next]_vars => (TypeOK /\ PaymentInv)'
  BY TypeStep, PaymentStep
<1> QED BY <1>1, <1>2, PTL DEF Spec

\* Reconnects, retries, evictions and restarts never pay for an id twice.
THEOREM PaidOnce == Spec => []PaidAtMostOnce
<1>1. PaymentInv => PaidAtMostOnce
  BY DEF PaymentInv, PaidAtMostOnce
<1> QED BY <1>1, Payments, PTL

\* No provider is paid for an id whose row is not stored.
THEOREM RecordedFirst == Spec => []RecordedBeforePaid
<1>1. PaymentInv => RecordedBeforePaid
  BY DEF PaymentInv, RecordedBeforePaid
<1> QED BY <1>1, Payments, PTL

(***************************************************************************)
(* The stored history.  Every step opens one id, pays one id, settles one  *)
(* running row or leaves rows and payments alone.                          *)
(***************************************************************************)
\* Settling changes running rows only.
LEMMA SettledShape ==
  ASSUME TypeOK, NEW o, NEW k \in Keys, NEW s \in {"completed", "failed"},
         SettledRows(o, k, s) # rows
  PROVE  /\ rows[k] # Null /\ rows[k].status = "running"
         /\ SettledRows(o, k, s) = [rows EXCEPT ![k] = [rows[k] EXCEPT !.status = s]]
  BY DEF SettledRows, TypeOK

\* What a step may do to the history.
Opens == \E k \in Keys, o \in Owners :
  /\ rows[k] = Null
  /\ rows' = [rows EXCEPT ![k] = [owner |-> o, status |-> "running"]]
  /\ executions' = executions
Pays == \E k \in Keys :
  /\ rows[k] # Null /\ executions[k] = 0
  /\ executions' = [executions EXCEPT ![k] = 1]
  /\ rows' = rows
Settles == \E k \in Keys, s \in {"completed", "failed"} :
  /\ rows[k] # Null /\ rows[k].status = "running"
  /\ s = "completed" => executions[k] = 1
  /\ rows' = [rows EXCEPT ![k] = [rows[k] EXCEPT !.status = s]]
  /\ executions' = executions

\* Every step opens a running row, pays for one, settles running rows or leaves rows
\* and payments alone.
LEMMA HistoryStep ==
  ASSUME TypeOK, PaymentInv, [Next]_vars
  PROVE  Opens \/ Pays \/ Settles \/ UNCHANGED <<rows, executions>>
<1>1. ASSUME NEW o \in Owners, NEW k \in Keys,
             Get(o, k) \/ GetRow(o, k) \/ Cancel(o, k) \/ \E p \in Payloads : Start(o, k, p)
      PROVE  UNCHANGED <<rows, executions>>
  BY <1>1 DEF Get, GetRow, Cancel, Start
<1>2. CASE \/ ReadRecord \/ LockedStorageFails \/ CancelDecide \/ CancelGather
           \/ (\E w \in Runs : StartDecide(w)) \/ (\E k \in Keys : Task(k))
           \/ Shutdown \/ Restart \/ UNCHANGED vars
  BY <1>2 DEF ReadRecord, LockedStorageFails, CancelDecide, CancelGather, StartDecide,
     Task, Consume, Close, Shutdown, Restart, vars
<1>3. CASE CancelMark
  <2>1. lock.key \in Keys
    BY <1>3 DEF CancelMark, TypeOK, Requests
  <2>2. rows' = SettledRows(lock.owner, lock.key, "failed") /\ executions' = executions
    BY <1>3 DEF CancelMark
  <2>3. CASE rows' = rows
    BY <2>2, <2>3
  <2>4. CASE rows' # rows
    BY <2>1, <2>2, <2>4, SettledShape DEF Settles
  <2> QED BY <2>3, <2>4
<1>4. ASSUME NEW w \in Runs, Begin(w) \/ BeginFails(w)
      PROVE  Opens \/ UNCHANGED <<rows, executions>>
  <2>1. workers[w].key \in Keys /\ workers[w].owner \in Owners
    BY <1>4 DEF Begin, BeginFails, TypeOK
  <2> QED BY <1>4, <2>1 DEF Begin, BeginFails, Opens
<1>5. ASSUME NEW w \in Runs, Execute(w) PROVE Pays
  <2>1. /\ workers[w].key \in Keys /\ rows[workers[w].key] # Null
        /\ executions[workers[w].key] = 0
    BY <1>5 DEF Execute, TypeOK, PaymentInv
  <2>2. executions' = [executions EXCEPT ![workers[w].key] = 1] /\ rows' = rows
    <3>1. executions' = [executions EXCEPT ![workers[w].key] = executions[workers[w].key] + 1]
      BY <1>5 DEF Execute
    <3> QED BY <1>5, <2>1, <3>1 DEF Execute
  <2> QED BY <2>1, <2>2 DEF Pays
<1>6. ASSUME NEW w \in Runs, Finish(w) \/ Mark(w)
      PROVE  Settles \/ UNCHANGED <<rows, executions>>
  <2>1. workers[w].key \in Keys
    BY <1>6 DEF Finish, Mark, TypeOK
  <2>2. CASE rows' = rows
    BY <1>6, <2>2 DEF Finish, Mark
  <2>3. CASE rows' # rows
    <3>1. PICK s \in {"completed", "failed"} :
            /\ rows' = SettledRows(workers[w].owner, workers[w].key, s)
            /\ s = "completed" => workers[w].pc = "finish"
      BY <1>6, <2>3 DEF Finish, Mark
    <3>2. s = "completed" => executions[workers[w].key] = 1
      BY <3>1 DEF PaymentInv
    <3>3. executions' = executions
      BY <1>6 DEF Finish, Mark
    <3>4. /\ rows[workers[w].key] # Null /\ rows[workers[w].key].status = "running"
          /\ rows' = [rows EXCEPT ![workers[w].key] = [rows[workers[w].key] EXCEPT !.status = s]]
      BY <2>1, <2>3, <3>1, SettledShape
    <3> QED BY <2>1, <3>2, <3>3, <3>4 DEF Settles
  <2> QED BY <2>2, <2>3
<1>7. ASSUME NEW w \in Runs,
             \/ ThreadStarts(w) \/ Executed(w) \/ Interrupted(w) \/ FinishFails(w) \/ FinishDropped(w)
      PROVE  UNCHANGED <<rows, executions>>
  BY <1>7 DEF ThreadStarts, Executed, Interrupted, FinishFails, FinishDropped
<1> QED
  BY <1>1, <1>2, <1>3, <1>4, <1>5, <1>6, <1>7, IdsAssumption DEF Next, Locked, Worker

\* A settled row is never rewritten, whichever thread, DELETE or process comes late.
THEOREM SettledForGood == Spec => RowsSettleOnce
<1>1. ASSUME TypeOK, PaymentInv, [Next]_vars, NEW k \in Keys,
             rows[k] # Null, rows[k].status # "running"
      PROVE  rows'[k] = rows[k]
  <2>1. CASE Opens
    BY <1>1, <2>1 DEF Opens, TypeOK
  <2>2. CASE Settles
    BY <1>1, <2>2 DEF Settles, TypeOK
  <2> QED BY <1>1, <2>1, <2>2, HistoryStep DEF Pays
<1>2. TypeOK /\ PaymentInv /\ [Next]_vars =>
        [\A k \in Keys : rows[k] # Null /\ rows[k].status # "running" => rows'[k] = rows[k]]_vars
  BY <1>1
<1> QED BY <1>2, Payments, PTL DEF Spec, RowsSettleOnce

\* Rows and payments implement the RunLedger abstraction: the refinement maps each step to
\* Open, Pay, Settle or a stutter.
THEOREM LedgerImplemented == Spec => ImplementsLedger
<1>1. Init => Ledger!LedgerInit
  BY DEF Init, Ledger!LedgerInit, Record
<1>2. ASSUME TypeOK, PaymentInv, [Next]_vars
      PROVE  [Ledger!LedgerNext]_(Ledger!ledger)
  <2>1. CASE Opens
    <3>1. PICK k \in Keys, o \in Owners :
            /\ rows[k] = Null
            /\ rows' = [rows EXCEPT ![k] = [owner |-> o, status |-> "running"]]
            /\ executions' = executions
      BY <2>1 DEF Opens
    <3>2. [owner |-> o, status |-> "running"] # Null
      BY NullAssumption DEF Rows
    <3>3. Record[k] = "absent" /\ Record' = [Record EXCEPT ![k] = "running"]
      <4>1. ASSUME NEW j \in Keys
            PROVE  Record'[j] = IF j = k THEN "running" ELSE Record[j]
        BY <1>2, <3>1, <3>2, <4>1 DEF Record, TypeOK
      <4>2. Record = [j \in Keys |-> Record[j]] /\ Record' = [j \in Keys |-> Record'[j]]
        BY DEF Record
      <4>3. Record[k] = "absent"
        BY <3>1 DEF Record
      <4> QED BY <4>1, <4>2, <4>3
    <3>4. Ledger!Open(k)
      BY <3>1, <3>3 DEF Ledger!Open
    <3> QED BY <3>4 DEF Ledger!LedgerNext
  <2>2. CASE Pays
    <3>1. PICK k \in Keys : /\ rows[k] # Null /\ executions[k] = 0
                            /\ executions' = [executions EXCEPT ![k] = 1]
                            /\ rows' = rows
      BY <2>2 DEF Pays
    <3>2. Record' = Record /\ Record[k] # "absent"
      <4>1. rows[k].status # "absent"
        BY <1>2, <3>1 DEF TypeOK, Rows
      <4> QED BY <3>1, <4>1 DEF Record
    <3>3. Ledger!Pay(k)
      BY <3>1, <3>2 DEF Ledger!Pay
    <3> QED BY <3>3 DEF Ledger!LedgerNext
  <2>3. CASE Settles
    <3>1. PICK k \in Keys, s \in {"completed", "failed"} :
            /\ rows[k] # Null /\ rows[k].status = "running"
            /\ s = "completed" => executions[k] = 1
            /\ rows' = [rows EXCEPT ![k] = [rows[k] EXCEPT !.status = s]]
            /\ executions' = executions
      BY <2>3 DEF Settles
    <3>2. [rows[k] EXCEPT !.status = s] # Null /\ [rows[k] EXCEPT !.status = s].status = s
      <4>1. rows[k] \in Rows
        BY <1>2, <3>1 DEF TypeOK
      <4>2. [rows[k] EXCEPT !.status = s] \in Rows /\ [rows[k] EXCEPT !.status = s].status = s
        BY <4>1 DEF Rows
      <4> QED BY <4>2, NullAssumption
    <3>3. Record[k] = "running" /\ Record' = [Record EXCEPT ![k] = s]
      <4>1. ASSUME NEW j \in Keys
            PROVE  Record'[j] = IF j = k THEN s ELSE Record[j]
        BY <1>2, <3>1, <3>2, <4>1 DEF Record, TypeOK
      <4>2. Record = [j \in Keys |-> Record[j]] /\ Record' = [j \in Keys |-> Record'[j]]
        BY DEF Record
      <4>3. Record[k] = "running"
        BY <3>1 DEF Record
      <4> QED BY <4>1, <4>2, <4>3
    <3>4. Ledger!Settle(k, s)
      BY <3>1, <3>3 DEF Ledger!Settle
    <3> QED BY <3>1, <3>4 DEF Ledger!LedgerNext
  <2>4. CASE UNCHANGED <<rows, executions>>
    BY <2>4 DEF Record, Ledger!ledger
  <2> QED BY <1>2, <2>1, <2>2, <2>3, <2>4, HistoryStep
<1> QED BY <1>1, <1>2, Payments, PTL DEF Spec, ImplementsLedger, Ledger!LedgerSpec

(***************************************************************************)
(* Admission.  Only start() makes a job active, and only under the lock    *)
(* that has been held since its prune; everything else retires jobs.       *)
(***************************************************************************)
AdmissionInv == IsFiniteSet(Active) /\ ActiveTripsBounded

\* Steps after which every active job was active before, for the same visitor.
Retires == \A k \in Keys : k \in Active' =>
             k \in Active /\ jobs'[k].owner = jobs[k].owner

\* A step that starts no trip keeps the number of active trips within bounds.
LEMMA RetiresStep ==
  ASSUME AdmissionInv, Retires
  PROVE  AdmissionInv'
<1>1. Active' \subseteq Active
  BY DEF Retires, Active
<1>2. IsFiniteSet(Active') /\ Cardinality(Active') <= Cardinality(Active)
  BY <1>1, FS_Subset DEF AdmissionInv
<1>3. Cardinality(Active') <= MaxActive
  <2>1. Cardinality(Active) \in Nat /\ Cardinality(Active') \in Nat
    BY <1>2, FS_CardinalityType DEF AdmissionInv
  <2> QED BY <1>2, <2>1, BoundsAssumption DEF AdmissionInv, ActiveTripsBounded
<1>4. \A j, k \in Active' : jobs'[j].owner = jobs'[k].owner => j = k
  BY <1>1 DEF AdmissionInv, ActiveTripsBounded, Retires, Active
<1> QED BY <1>2, <1>3, <1>4 DEF AdmissionInv, ActiveTripsBounded

\* No trip is active at first.
LEMMA AdmissionInit == Init => AdmissionInv
<1> SUFFICES ASSUME Init PROVE AdmissionInv
  OBVIOUS
<1>1. Active = {}
  BY DEF Init, Active
<1> QED BY <1>1, FS_EmptySet, BoundsAssumption DEF AdmissionInv, ActiveTripsBounded

\* Every step keeps the bounds on active trips.
LEMMA AdmissionStep == TypeOK /\ AdmissionInv /\ [Next]_vars => AdmissionInv'
<1> SUFFICES ASSUME TypeOK, AdmissionInv, [Next]_vars PROVE AdmissionInv'
  OBVIOUS
<1>1. ASSUME jobs' = jobs PROVE Retires
  BY <1>1 DEF Retires, Active
<1>2. ASSUME NEW o \in Owners, NEW k \in Keys, NEW p \in Payloads, Start(o, k, p) PROVE Retires
  BY <1>2 DEF Start, Pruned, Retires, Active
<1>3. ASSUME NEW o \in Owners, NEW k \in Keys, Cancel(o, k) PROVE Retires
  <2>1. CASE jobs' = jobs
    BY <1>1, <2>1
  <2>2. CASE jobs' = [jobs EXCEPT ![k].terminal = "cancelled", ![k].done = TRUE] /\ jobs[k] # Null
    <3>1. jobs'[k].terminal # Null
      BY <2>2, NullAssumption DEF TypeOK, Jobs
    <3> QED BY <2>2, <3>1 DEF Retires, Active, TypeOK
  <2> QED BY <1>3, <2>1, <2>2 DEF Cancel
<1>4. CASE CancelDecide
  <2>1. CASE jobs' = jobs
    BY <1>1, <2>1, RetiresStep
  <2>2. CASE \E D \in Prunable :
               jobs' = [Pruned(D) EXCEPT ![lock.key] = [owner |-> lock.owner, payload |-> Null,
                          terminal |-> "cancelled", done |-> TRUE, run |-> Null]]
    BY <2>2, RetiresStep, NullAssumption DEF Pruned, Retires, Active
  <2> QED BY <1>4, <2>1, <2>2 DEF CancelDecide
<1>5. CASE CancelMark \/ CancelGather \/ ReadRecord \/ LockedStorageFails \/ UNCHANGED vars
  BY <1>1, <1>5, RetiresStep DEF CancelMark, CancelGather, ReadRecord, LockedStorageFails, vars
<1>6. ASSUME NEW w \in Runs, StartDecide(w) PROVE AdmissionInv'
  <2>1. CASE jobs' = jobs
    BY <1>1, <2>1, RetiresStep
  <2>2. CASE jobs' # jobs
    <3> DEFINE k == lock.key
               o == lock.owner
    <3>1. /\ ~\E j \in Active : jobs[j].owner = o
          /\ ~(Cardinality(Active) >= MaxActive)
          /\ jobs' = [jobs EXCEPT ![k] = [owner |-> o, payload |-> lock.payload,
                                          terminal |-> Null, done |-> FALSE, run |-> w]]
      BY <1>6, <2>2 DEF StartDecide
    <3>2. k \in Keys
      BY <1>6 DEF StartDecide, TypeOK, Requests
    <3>3. jobs'[k].owner = o /\ \A j \in Keys : j # k => jobs'[j] = jobs[j]
      BY <3>1, <3>2 DEF TypeOK
    <3>4. Active' \subseteq Active \cup {k}
      BY <3>3 DEF Active
    <3>5. IsFiniteSet(Active \cup {k}) /\ Cardinality(Active \cup {k}) <= Cardinality(Active) + 1
      BY FS_AddElement, FS_CardinalityType DEF AdmissionInv
    <3>6. IsFiniteSet(Active') /\ Cardinality(Active') <= Cardinality(Active \cup {k})
      BY <3>4, <3>5, FS_Subset
    <3>7. Cardinality(Active') <= MaxActive
      <4>1. /\ Cardinality(Active) \in Nat /\ Cardinality(Active') \in Nat
            /\ Cardinality(Active \cup {k}) \in Nat
        BY <3>5, <3>6, FS_CardinalityType DEF AdmissionInv
      <4> QED BY <3>1, <3>5, <3>6, <4>1, BoundsAssumption
    <3>8. \A i, j \in Active' : jobs'[i].owner = jobs'[j].owner => i = j
      <4>1. \A j \in Active' : j # k => j \in Active /\ jobs'[j].owner # o /\ jobs'[j] = jobs[j]
        BY <3>1, <3>3, <3>4 DEF Active
      <4> QED BY <3>3, <4>1 DEF AdmissionInv, ActiveTripsBounded
    <3> QED BY <3>6, <3>7, <3>8 DEF AdmissionInv, ActiveTripsBounded
  <2> QED BY <2>1, <2>2
<1>7. ASSUME NEW w \in Runs, Worker(w) PROVE Retires
  BY <1>1, <1>7 DEF Worker, ThreadStarts, Begin, BeginFails, Execute, Executed, Interrupted,
     Finish, FinishFails, FinishDropped, Mark
<1>8. ASSUME NEW k \in Keys, Task(k) PROVE Retires
  <2>1. jobs[k] \in Jobs
    BY <1>8 DEF Task, Consume, Close, Active, TypeOK
  <2>2. jobs'[k].terminal # Null /\ \A j \in Keys : j # k => jobs'[j] = jobs[j]
    BY <1>8, <2>1, NullAssumption DEF Task, Consume, Close, TypeOK, Jobs
  <2> QED BY <2>2 DEF Retires, Active
<1>9. CASE Shutdown
  <2>1. ASSUME NEW k \in Keys, jobs[k] # Null, ~jobs[k].done PROVE jobs'[k].terminal # Null
    <3>1. jobs[k] \in Jobs /\ jobs'[k] = [jobs[k] EXCEPT !.terminal = "cancelled", !.done = TRUE]
      BY <1>9, <2>1 DEF Shutdown, TypeOK
    <3> QED BY <3>1, NullAssumption DEF Jobs
  <2>2. Retires
    BY <1>9, <2>1 DEF Shutdown, Retires, Active
  <2> QED BY <2>2, RetiresStep
<1>10. CASE Restart
  BY <1>10, RetiresStep DEF Restart, Retires, Active
<1> QED
  BY <1>1, <1>2, <1>3, <1>4, <1>5, <1>6, <1>7, <1>8, <1>9, <1>10, RetiresStep,
     IdsAssumption DEF Next, Locked, Get, GetRow

\* At most MaxActive trips run, and at most one per visitor, however the awaits under the
\* lock interleave with threads, polls, evictions and restarts.
THEOREM Admission == Spec => []ActiveTripsBounded
<1>1. Init => TypeOK /\ AdmissionInv
  BY TypeInit, AdmissionInit
<1>2. TypeOK /\ AdmissionInv /\ [Next]_vars => (TypeOK /\ AdmissionInv)'
  BY TypeStep, AdmissionStep
<1>3. AdmissionInv => ActiveTripsBounded
  BY DEF AdmissionInv
<1> QED BY <1>1, <1>2, <1>3, PTL DEF Spec

(***************************************************************************)
(* Answers.  A job is complete only through its own thread's result, and   *)
(* what a client was told stays true of the row although the lookup and    *)
(* the answer are separated by awaits, evictions and restarts.             *)
(***************************************************************************)
JobInv ==
  \A k \in Keys : jobs[k] # Null =>
    /\ jobs[k].terminal = "complete" => executions[k] = 1
    /\ jobs[k].terminal = Null =>
         jobs[k].run \in Runs /\ workers[jobs[k].run].pc # "idle" /\ workers[jobs[k].run].key = k

\* What the lock's holder read is still true, up to the row being settled since.
LockInv ==
  lock # Null /\ lock.row # Null =>
    /\ rows[lock.key] # Null
    /\ lock.row.status # "running" => rows[lock.key].status # "running"

ToldInv ==
  \A k \in Keys : "complete" \in told[k] =>
    rows[k] # Null /\ (executions[k] = 1 \/ rows[k].status # "running")

\* Rows and payments are never taken back, and a settled row never changes.
LEMMA HistoryGrows ==
  ASSUME TypeOK, PaymentInv, [Next]_vars, NEW k \in Keys
  PROVE  /\ executions[k] = 1 => executions'[k] = 1
         /\ rows[k] # Null => /\ rows'[k] # Null
                              /\ rows'[k].owner = rows[k].owner
                              /\ rows[k].status # "running" => rows'[k] = rows[k]
<1>1. CASE Opens
  BY <1>1 DEF Opens, TypeOK
<1>2. CASE Pays
  BY <1>2 DEF Pays, TypeOK
<1>3. CASE Settles
  <2>1. PICK j \in Keys, s \in {"completed", "failed"} :
          /\ rows[j] # Null /\ rows[j].status = "running"
          /\ rows' = [rows EXCEPT ![j] = [rows[j] EXCEPT !.status = s]]
          /\ executions' = executions
    BY <1>3 DEF Settles
  <2>2. [rows[j] EXCEPT !.status = s] \in Rows /\ [rows[j] EXCEPT !.status = s].owner = rows[j].owner
    BY <2>1 DEF TypeOK, Rows
  <2> QED BY <2>1, <2>2, NullAssumption DEF TypeOK
<1> QED BY <1>1, <1>2, <1>3, HistoryStep

\* A thread that was started keeps its id and its visitor, and a stop or a failure is not taken back.
LEMMA ThreadsStay ==
  ASSUME TypeOK, [Next]_vars, NEW w \in Runs, workers[w].pc # "idle"
  PROVE  /\ workers'[w].pc # "idle" /\ workers'[w].key = workers[w].key
         /\ workers'[w].owner = workers[w].owner
         /\ workers[w].stop => workers'[w].stop
         /\ workers[w].struck => workers'[w].struck
<1>t. workers \in [Runs -> Workers]
  BY DEF TypeOK
<1>1. ASSUME NEW v, NEW p \in Points \ {"idle"}, Moves(v, p)
      PROVE  /\ workers'[w].pc # "idle" /\ workers'[w].key = workers[w].key
             /\ workers'[w].owner = workers[w].owner
             /\ workers[w].stop => workers'[w].stop
             /\ workers[w].struck => workers'[w].struck
  BY <1>t, <1>1 DEF Moves, Move, Fail, Workers
<1>2. ASSUME NEW v, workers' = [workers EXCEPT ![v].stop = TRUE]
      PROVE  /\ workers'[w].pc # "idle" /\ workers'[w].key = workers[w].key
             /\ workers'[w].owner = workers[w].owner
             /\ workers[w].stop => workers'[w].stop
             /\ workers[w].struck => workers'[w].struck
  BY <1>t, <1>2 DEF Workers
<1>3. ASSUME NEW v \in Runs, Worker(v) PROVE \E p \in Points \ {"idle"} : Moves(v, p)
  BY <1>3 DEF Moves, Worker, ThreadStarts, Begin, BeginFails, Execute, Executed, Interrupted, Finish, FinishFails,
     FinishDropped, Mark, Points
<1>4. ASSUME NEW v \in Runs, StartDecide(v), workers' # workers
      PROVE  workers'[w] = workers[w]
  <2>1. workers[v].pc = "idle" /\ \E n : workers' = [workers EXCEPT ![v] = n]
    BY <1>4 DEF StartDecide
  <2> QED BY <1>t, <2>1
<1>5. ASSUME NEW k \in Keys, Task(k)
      PROVE  \/ \E v : Moves(v, "done")
             \/ \E v : workers' = [workers EXCEPT ![v].stop = TRUE]
  BY <1>5 DEF Moves, Task, Consume, Close
<1>6. CASE Shutdown
  <2>1. workers'[w] = workers[w] \/ workers'[w] = [workers[w] EXCEPT !.stop = TRUE]
    BY <1>6 DEF Shutdown
  <2> QED BY <1>t, <2>1 DEF Workers
<1>7. CASE Restart
  BY <1>t, <1>7 DEF Restart, Workers
<1>8. CASE CancelGather
  BY <1>2, <1>8 DEF CancelGather
<1>9. ASSUME NEW o \in Owners, NEW k \in Keys, Get(o, k) \/ GetRow(o, k) \/ Cancel(o, k) \/ \E p \in Payloads : Start(o, k, p)
      PROVE  workers' = workers
  BY <1>9 DEF Get, GetRow, Cancel, Start
<1>10. ReadRecord \/ LockedStorageFails \/ CancelDecide \/ CancelMark \/ UNCHANGED vars
         => workers' = workers
  BY DEF ReadRecord, LockedStorageFails, CancelDecide, CancelMark, vars
<1>11. "done" \in Points \ {"idle"}
  BY DEF Points
<1> QED BY <1>1, <1>2, <1>3, <1>4, <1>5, <1>6, <1>7, <1>8, <1>9, <1>10, <1>11, IdsAssumption DEF Next, Locked

\* What a step may make of a job: it stays as it is, it ends, or it is new with its own thread.
LEMMA JobSteps ==
  ASSUME TypeOK, PaymentInv, JobInv, [Next]_vars, NEW k \in Keys, jobs'[k] # Null
  PROVE  \/ jobs[k] # Null /\ jobs'[k].terminal = jobs[k].terminal /\ jobs'[k].run = jobs[k].run
         \/ jobs'[k].terminal \in {"cancelled", "failed"}
         \/ jobs'[k].terminal = "complete" /\ executions[k] = 1
         \/ /\ jobs'[k].terminal = Null /\ jobs'[k].run \in Runs
            /\ workers'[jobs'[k].run].pc # "idle" /\ workers'[jobs'[k].run].key = k
<1> DEFINE Same == jobs[k] # Null /\ jobs'[k].terminal = jobs[k].terminal /\ jobs'[k].run = jobs[k].run
           Ends == jobs'[k].terminal \in {"cancelled", "failed"}
<1>t. jobs \in [Keys -> Jobs \cup {Null}] /\ workers \in [Runs -> Workers]
  BY DEF TypeOK
<1>1. CASE UNCHANGED jobs
  BY <1>1
<1>2. ASSUME NEW o \in Owners, NEW j \in Keys, NEW p \in Payloads, Start(o, j, p) PROVE Same
  BY <1>2 DEF Start, Pruned
<1>3. ASSUME NEW o \in Owners, NEW j \in Keys, Cancel(o, j) PROVE Same \/ Ends
  <2>1. CASE jobs' = [jobs EXCEPT ![j].terminal = "cancelled", ![j].done = TRUE] /\ jobs[j] # Null
    BY <1>t, <2>1 DEF Jobs
  <2>2. CASE jobs' = jobs
    BY <2>2
  <2> QED BY <1>3, <2>1, <2>2 DEF Cancel
<1>4. CASE CancelDecide
  <2>1. CASE jobs' = jobs
    BY <2>1
  <2>2. CASE \E D \in Prunable :
               jobs' = [Pruned(D) EXCEPT ![lock.key] = [owner |-> lock.owner, payload |-> Null,
                          terminal |-> "cancelled", done |-> TRUE, run |-> Null]]
    BY <2>2 DEF Pruned
  <2> QED BY <1>4, <2>1, <2>2 DEF CancelDecide
<1>5. ASSUME NEW w \in Runs, StartDecide(w), jobs' # jobs
      PROVE  \/ Same
             \/ /\ jobs'[k].terminal = Null /\ jobs'[k].run \in Runs
                /\ workers'[jobs'[k].run].pc # "idle" /\ workers'[jobs'[k].run].key = k
  <2>1. /\ jobs' = [jobs EXCEPT ![lock.key] = [owner |-> lock.owner, payload |-> lock.payload,
                                              terminal |-> Null, done |-> FALSE, run |-> w]]
        /\ workers' = [workers EXCEPT ![w] = [pc |-> "spawned", key |-> lock.key,
                                              owner |-> lock.owner, stop |-> FALSE, struck |-> FALSE]]
    BY <1>5 DEF StartDecide
  <2> QED BY <1>t, <2>1
<1>6. ASSUME NEW j \in Keys, Consume(j)
      PROVE  Same \/ Ends \/ (jobs'[k].terminal = "complete" /\ executions[k] = 1)
  <2>1. /\ jobs[j] \in Jobs /\ jobs[j] # Null /\ jobs[j].terminal = Null
        /\ jobs[j].run \in Runs /\ workers[jobs[j].run].key = j
    BY <1>t, <1>6 DEF Consume, Active, JobInv
  <2>2. workers[jobs[j].run].pc = "result" => executions[j] = 1
    BY <2>1 DEF PaymentInv
  <2>3. PICK s \in {"complete", "failed"} :
          /\ jobs' = [jobs EXCEPT ![j].terminal = s]
          /\ s = "complete" => workers[jobs[j].run].pc = "result"
    BY <1>6 DEF Consume
  <2>4. CASE k = j
    <3>1. jobs'[k].terminal = s
      BY <1>t, <2>1, <2>3, <2>4 DEF Jobs
    <3> QED BY <2>2, <2>3, <2>4, <3>1
  <2>5. CASE k # j
    BY <1>t, <2>3, <2>5
  <2> QED BY <2>4, <2>5
<1>7. ASSUME NEW j \in Keys, Close(j) PROVE Same
  <2>1. jobs[j] \in Jobs
    BY <1>t, <1>7 DEF Close
  <2> QED BY <1>t, <1>7, <2>1 DEF Close, Jobs
<1>8. CASE Shutdown
  <2>1. jobs[k] # Null /\ (jobs'[k] = jobs[k] \/ jobs'[k] = [jobs[k] EXCEPT !.terminal = "cancelled", !.done = TRUE])
    BY <1>8 DEF Shutdown
  <2> QED BY <1>t, <2>1 DEF Jobs
<1>9. Restart => FALSE
  BY DEF Restart
<1>10. ASSUME NEW w \in Runs, Worker(w) PROVE UNCHANGED jobs
  BY <1>10 DEF Worker, ThreadStarts, Begin, BeginFails, Execute, Executed, Interrupted, Finish, FinishFails,
     FinishDropped, Mark
<1>11. ReadRecord \/ LockedStorageFails \/ CancelMark \/ CancelGather \/ UNCHANGED vars
         \/ (\E o \in Owners, j \in Keys : Get(o, j) \/ GetRow(o, j)) => UNCHANGED jobs
  BY DEF ReadRecord, LockedStorageFails, CancelMark, CancelGather, Get, GetRow, vars
<1> QED
  BY <1>1, <1>2, <1>3, <1>4, <1>5, <1>6, <1>7, <1>8, <1>9, <1>10, <1>11, IdsAssumption DEF Next, Locked, Task

LEMMA JobNext == TypeOK /\ PaymentInv /\ JobInv /\ [Next]_vars => JobInv'
<1> SUFFICES ASSUME TypeOK, PaymentInv, JobInv, [Next]_vars, NEW k \in Keys, jobs'[k] # Null
             PROVE  /\ jobs'[k].terminal = "complete" => executions'[k] = 1
                    /\ jobs'[k].terminal = Null =>
                         /\ jobs'[k].run \in Runs /\ workers'[jobs'[k].run].pc # "idle"
                         /\ workers'[jobs'[k].run].key = k
  BY DEF JobInv
<1>1. CASE jobs[k] # Null /\ jobs'[k].terminal = jobs[k].terminal /\ jobs'[k].run = jobs[k].run
  BY <1>1, HistoryGrows, ThreadsStay DEF JobInv
<1> QED BY <1>1, JobSteps, HistoryGrows, NullAssumption

\* Between the lookup under the lock and the decision a row can only be settled.
LEMMA LockNext == TypeOK /\ PaymentInv /\ LockInv /\ [Next]_vars => LockInv'
<1> SUFFICES ASSUME TypeOK, PaymentInv, LockInv, [Next]_vars, lock' # Null, lock'.row # Null
             PROVE  /\ rows'[lock'.key] # Null
                    /\ lock'.row.status # "running" => rows'[lock'.key].status # "running"
  BY DEF LockInv
<1>1. CASE lock # Null /\ lock'.key = lock.key /\ lock'.row = lock.row
  <2>1. lock.key \in Keys
    BY <1>1 DEF TypeOK, Requests
  <2> QED BY <1>1, <2>1, HistoryGrows DEF LockInv
<1>2. CASE ReadRecord
  <2>1. /\ lock \in Requests /\ rows' = rows
        /\ lock' = [lock EXCEPT !.step = "read", !.row = Visible(lock.owner, lock.key)]
    BY <1>2 DEF ReadRecord, TypeOK
  <2>2. lock'.key = lock.key /\ lock'.row = Visible(lock.owner, lock.key)
    BY <2>1 DEF Requests
  <2> QED BY <2>1, <2>2 DEF Visible
<1>3. ASSUME NEW o \in Owners, NEW k \in Keys, Get(o, k) \/ GetRow(o, k) \/ Cancel(o, k) \/ \E p \in Payloads : Start(o, k, p)
      PROVE  lock' = lock \/ lock'.row = Null
  BY <1>3 DEF Get, GetRow, Cancel, Start
<1>4. CASE CancelDecide
  <2>1. lock' = [lock EXCEPT !.step = "marking"] /\ lock \in Requests
    BY <1>4 DEF CancelDecide, TypeOK
  <2> QED BY <1>1, <1>4, <2>1 DEF CancelDecide, Requests
<1>5. LockedStorageFails \/ CancelMark \/ CancelGather \/ Shutdown \/ Restart \/ (\E w \in Runs : StartDecide(w))
         => lock' = Null
  BY DEF LockedStorageFails, CancelMark, CancelGather, Shutdown, Restart, StartDecide
<1>6. UNCHANGED vars => lock' = lock
  BY DEF vars
<1>7. ASSUME NEW w \in Runs, Worker(w) PROVE lock' = lock
  BY <1>7 DEF Worker, ThreadStarts, Begin, BeginFails, Execute, Executed, Interrupted, Finish, FinishFails,
     FinishDropped, Mark
<1>8. ASSUME NEW k \in Keys, Task(k) PROVE lock' = lock
  BY <1>8 DEF Task, Consume, Close
<1> QED BY <1>1, <1>2, <1>3, <1>4, <1>5, <1>6, <1>7, <1>8, IdsAssumption DEF Next, Locked

\* Everything that answers "complete" looks at a job whose providers ran or at a settled row.
LEMMA ToldNext == TypeOK /\ PaymentInv /\ JobInv /\ LockInv /\ ToldInv /\ [Next]_vars => ToldInv'
<1> SUFFICES ASSUME TypeOK, PaymentInv, JobInv, LockInv, ToldInv, [Next]_vars,
                    NEW k \in Keys, "complete" \in told'[k]
             PROVE  rows'[k] # Null /\ (executions'[k] = 1 \/ rows'[k].status # "running")
  BY DEF ToldInv
<1>t. told \in [Keys -> SUBSET {"complete", "cancelled", "interrupted"}]
  BY DEF TypeOK
<1> DEFINE True(j) == rows[j] # Null /\ (executions[j] = 1 \/ rows[j].status # "running")
<1> SUFFICES True(k)
  BY HistoryGrows
<1>1. CASE "complete" \in told[k]
  BY <1>1 DEF ToldInv
<1>2. ASSUME NEW j \in Keys, NEW s, Tell(j, s), s = "complete" => True(j) PROVE True(k)
  BY <1>1, <1>2, <1>t DEF Tell
<1>3. ASSUME NEW j \in Keys, jobs[j] # Null, jobs[j].terminal = "complete" PROVE True(j)
  BY <1>3 DEF JobInv, PaymentInv
<1>4. ASSUME NEW o \in Owners, NEW j \in Keys, NEW p \in Payloads, Start(o, j, p) PROVE True(k)
  <2>1. CASE UNCHANGED told
    BY <1>1, <2>1
  <2>2. CASE jobs'[j] # Null /\ Tell(j, jobs'[j].terminal)
    <3>1. jobs'[j] = jobs[j]
      BY <1>4, <2>2 DEF Start, Pruned
    <3> QED BY <1>2, <1>3, <2>2, <3>1
  <2> QED BY <1>4, <2>1, <2>2 DEF Start
<1>5. ASSUME NEW o \in Owners, NEW j \in Keys, Cancel(o, j) \/ Get(o, j) PROVE True(k)
  <2>1. CASE UNCHANGED told
    BY <1>1, <2>1
  <2>2. CASE jobs[j] # Null /\ Tell(j, jobs[j].terminal)
    BY <1>2, <1>3, <2>2
  <2> QED BY <1>5, <2>1, <2>2 DEF Cancel, Get
<1>6. ASSUME NEW o \in Owners, NEW j \in Keys, GetRow(o, j) PROVE True(k)
  <2>1. rows[j] # Null /\ Tell(j, SavedState(rows[j]))
    BY <1>6 DEF GetRow, Visible
  <2> QED BY <1>2, <2>1 DEF SavedState
<1>7. ASSUME NEW w \in Runs, StartDecide(w) PROVE True(k)
  <2>1. lock.key \in Keys
    BY <1>7 DEF StartDecide, TypeOK, Requests
  <2>2. CASE UNCHANGED told
    BY <1>1, <2>2
  <2>3. CASE lock # Null /\ lock.row # Null /\ Tell(lock.key, SavedState(lock.row))
    <3>1. SavedState(lock.row) = "complete" => True(lock.key)
      BY <2>3 DEF LockInv, SavedState
    <3> QED BY <1>2, <2>1, <2>3, <3>1
  <2> QED BY <1>7, <2>2, <2>3 DEF StartDecide
<1>8. CASE CancelDecide
  <2>1. lock.key \in Keys
    BY <1>8 DEF CancelDecide, TypeOK, Requests
  <2>2. CASE UNCHANGED told
    BY <1>1, <2>2
  <2>3. CASE lock # Null /\ lock.row # Null /\ lock.row.status # "running" /\ Tell(lock.key, "complete")
    BY <1>2, <2>1, <2>3 DEF LockInv
  <2>4. CASE Tell(lock.key, "cancelled")
    BY <1>2, <2>1, <2>4
  <2> QED BY <1>8, <2>2, <2>3, <2>4 DEF CancelDecide
<1>9. CASE CancelMark \/ CancelGather
  <2>1. lock.key \in Keys /\ Tell(lock.key, "cancelled")
    BY <1>9 DEF CancelMark, CancelGather, TypeOK, Requests
  <2> QED BY <1>2, <2>1
<1>10. ReadRecord \/ LockedStorageFails \/ Shutdown \/ Restart \/ UNCHANGED vars
         \/ (\E j \in Keys : Task(j)) => UNCHANGED told
  BY DEF ReadRecord, LockedStorageFails, Shutdown, Restart, Task, Consume, Close, vars
<1>11. ASSUME NEW w \in Runs, Worker(w) PROVE UNCHANGED told
  BY <1>11 DEF Worker, ThreadStarts, Begin, BeginFails, Execute, Executed, Interrupted, Finish, FinishFails,
     FinishDropped, Mark
<1> QED BY <1>1, <1>4, <1>5, <1>6, <1>7, <1>8, <1>9, <1>10, <1>11, IdsAssumption DEF Next, Locked

\* "complete" is never said of a trip that did not run: not by the registry, whatever became of
\* the job's thread, and not to a client that asks after evictions and restarts
\* (studio_jobs.py's saved_snapshot, start, cancel and get).
THEOREM CompleteIsExecuted == Spec => []CompleteWasExecuted
<1>1. Init => JobInv /\ LockInv /\ ToldInv
  BY DEF Init, JobInv, LockInv, ToldInv
<1>2. TypeOK /\ PaymentInv /\ JobInv /\ LockInv /\ ToldInv /\ [Next]_vars => (JobInv /\ LockInv /\ ToldInv)'
  BY JobNext, LockNext, ToldNext
<1>3. TypeOK /\ PaymentInv /\ JobInv /\ LockInv /\ ToldInv => CompleteWasExecuted
  BY DEF PaymentInv, JobInv, ToldInv, CompleteWasExecuted
<1> QED BY <1>1, <1>2, <1>3, Payments, PTL DEF Spec

(***************************************************************************)
(* Unfinished rows.  A running row belongs to a thread that will still     *)
(* settle it, was stopped, or had a statement fail or its process die.     *)
(***************************************************************************)
Settling == {"execute", "running", "finish", "marking"}

\* Thread w answers for the running row of k: it has its id and visitor, and if it was
\* neither stopped nor struck it is on its way to the statement that settles the row.
Answers(w, k) ==
  /\ workers[w].pc # "idle" /\ workers[w].key = k /\ workers[w].owner = rows[k].owner
  /\ workers[w].pc \in Settling \/ workers[w].stop \/ workers[w].struck

RunningInv ==
  \A k \in Keys : rows[k] # Null /\ rows[k].status = "running" => \E w \in Runs : Answers(w, k)

\* A thread that answers for a row goes on to do so, or its step settles the row.
LEMMA AnswerStays ==
  ASSUME TypeOK, [Next]_vars, NEW k \in Keys, NEW w \in Runs, Answers(w, k),
         rows[k] # Null, rows[k].status = "running", rows'[k] = rows[k]
  PROVE  Answers(w, k)'
<1>t. workers \in [Runs -> Workers] /\ rows \in [Keys -> Rows \cup {Null}]
  BY DEF TypeOK
<1>1. /\ workers'[w].pc # "idle" /\ workers'[w].key = k /\ workers'[w].owner = rows'[k].owner
      /\ workers[w].stop => workers'[w].stop
      /\ workers[w].struck => workers'[w].struck
  BY ThreadsStay DEF Answers
<1>2. CASE workers[w].stop \/ workers[w].struck
  BY <1>1, <1>2 DEF Answers
<1>3. CASE ~workers[w].stop /\ workers[w].pc \in Settling
  <2> SUFFICES workers'[w].pc \in Settling \/ workers'[w].stop \/ workers'[w].struck
    BY <1>1 DEF Answers
  <2>1. CASE workers'[w].pc = workers[w].pc
    BY <1>3, <2>1
  <2>2. ASSUME NEW v, NEW p, Move(v, p), v # w \/ p \in Settling PROVE workers'[w].pc \in Settling
    BY <1>t, <1>3, <2>2 DEF Move, Workers
  <2>3. ASSUME NEW s \in {"completed", "failed"}, rows' = SettledRows(workers[w].owner, workers[w].key, s)
        PROVE  FALSE
    <3>1. rows' = [rows EXCEPT ![k] = [rows[k] EXCEPT !.status = s]]
      BY <2>3 DEF SettledRows, Answers
    <3>2. rows'[k].status = s
      BY <1>t, <3>1 DEF Rows
    <3> QED BY <3>2
  <2>4. ASSUME NEW v \in Runs, Worker(v) PROVE workers'[w].pc \in Settling \/ workers'[w].struck
    <3>0. ASSUME NEW u, NEW p, Fail(u, p) PROVE workers'[w].pc = workers[w].pc \/ workers'[w].struck
      BY <1>t, <3>0 DEF Fail, Workers
    <3>1. PICK p : Moves(v, p)
      BY <2>4 DEF Moves, Worker, ThreadStarts, Begin, BeginFails, Execute, Executed, Interrupted, Finish,
         FinishFails, FinishDropped, Mark
    <3>2. CASE v = w
      <4>1. workers[w].pc \notin {"spawned", "begin"}
        BY <1>3 DEF Settling
      <4>2. CASE (\E q \in Settling : Move(w, q)) \/ \E q : Fail(w, q)
        BY <1>3, <2>2, <3>0, <4>2
      <4>3. ASSUME Execute(w) \/ Executed(w) \/ Interrupted(w) PROVE (\E q \in Settling : Move(w, q)) \/ \E q : Fail(w, q)
        BY <4>3 DEF Execute, Executed, Interrupted, Settling
      <4>4. ASSUME Finish(w) \/ Mark(w), ~\E q : Fail(w, q) PROVE FALSE
        BY <2>3, <4>4 DEF Finish, Mark
      <4>5. ASSUME FinishFails(w) PROVE \E q : Fail(w, q)
        BY <4>5 DEF FinishFails
      <4> QED BY <1>3, <2>4, <3>2, <4>1, <4>2, <4>3, <4>4, <4>5
            DEF Worker, ThreadStarts, Begin, BeginFails, FinishDropped
    <3>3. CASE v # w
      BY <1>3, <2>2, <3>0, <3>1, <3>3 DEF Moves
    <3> QED BY <3>2, <3>3
  <2>5. ASSUME NEW j \in Keys, Consume(j) PROVE workers'[w].pc \in Settling
    <3>1. jobs[j].run # w
      BY <1>3, <2>5 DEF Consume, Settling
    <3> QED BY <2>2, <2>5, <3>1 DEF Consume
  <2>6. ASSUME NEW v, workers' = [workers EXCEPT ![v].stop = TRUE] PROVE workers'[w].pc = workers[w].pc
    BY <1>t, <2>6 DEF Workers
  <2>7. ASSUME NEW v \in Runs, StartDecide(v) PROVE workers'[w] = workers[w]
    <3>1. workers' = workers \/ (workers[v].pc = "idle" /\ \E n : workers' = [workers EXCEPT ![v] = n])
      BY <2>7 DEF StartDecide
    <3> QED BY <1>t, <1>3, <3>1 DEF Settling
  <2>8. ASSUME NEW o \in Owners, NEW j \in Keys, Get(o, j) \/ GetRow(o, j) \/ Cancel(o, j) \/ \E p \in Payloads : Start(o, j, p)
        PROVE  workers' = workers
    BY <2>8 DEF Get, GetRow, Cancel, Start
  <2>9. ReadRecord \/ LockedStorageFails \/ CancelDecide \/ CancelMark \/ UNCHANGED vars
          => workers' = workers
    BY DEF ReadRecord, LockedStorageFails, CancelDecide, CancelMark, vars
  <2>10. CASE Shutdown
    <3>1. workers'[w] = workers[w] \/ workers'[w] = [workers[w] EXCEPT !.stop = TRUE]
      BY <2>10 DEF Shutdown
    <3> QED BY <1>t, <1>3, <3>1 DEF Workers
  <2>11. CASE Restart
    <3>1. workers'[w] = [workers[w] EXCEPT !.pc = "done", !.struck = @ \/ workers[w].pc \notin Ended]
      BY <1>3, <2>11 DEF Restart, Settling
    <3>2. workers'[w].struck = (workers[w].struck \/ workers[w].pc \notin Ended)
      BY <1>t, <3>1 DEF Workers
    <3> QED BY <1>3, <3>2 DEF Settling, Ended
  <2> QED BY <2>1, <2>4, <2>5, <2>6, <2>7, <2>8, <2>9, <2>10, <2>11, IdsAssumption DEF Next, Locked, Task, CancelGather, Close
<1> QED BY <1>2, <1>3 DEF Answers

\* A new row is the INSERT of a thread that goes on to execute it, to mark it, or fails.
LEMMA OpenedRow ==
  ASSUME TypeOK, PaymentInv, [Next]_vars, NEW k \in Keys, rows[k] = Null, rows'[k] # Null
  PROVE  \E w \in Runs : Answers(w, k)'
<1>t. workers \in [Runs -> Workers] /\ rows \in [Keys -> Rows \cup {Null}]
  BY DEF TypeOK
<1>0. ASSUME NEW o, NEW j, NEW s, rows' = SettledRows(o, j, s) PROVE FALSE
  BY <1>0, <1>t DEF SettledRows
<1>1. PICK w \in Runs : Begin(w) \/ BeginFails(w)
  <2>1. ASSUME NEW o \in Owners, NEW j \in Keys, Get(o, j) \/ GetRow(o, j) \/ Cancel(o, j) \/ \E p \in Payloads : Start(o, j, p)
        PROVE  FALSE
    BY <2>1 DEF Get, GetRow, Cancel, Start
  <2>2. ASSUME \/ ReadRecord \/ LockedStorageFails \/ CancelDecide \/ CancelGather \/ UNCHANGED vars
               \/ (\E j \in Keys : Task(j)) \/ (\E w \in Runs : StartDecide(w)) \/ Shutdown \/ Restart
        PROVE  FALSE
    BY <2>2 DEF ReadRecord, LockedStorageFails, CancelDecide, CancelGather, Task, Consume, Close,
       StartDecide, Shutdown, Restart, vars
  <2>3. CancelMark => FALSE
    BY <1>0 DEF CancelMark
  <2>4. ASSUME NEW w \in Runs, Finish(w) \/ Mark(w) PROVE FALSE
    BY <1>0, <2>4 DEF Finish, Mark
  <2>5. ASSUME NEW w \in Runs, \/ ThreadStarts(w) \/ Execute(w) \/ Executed(w)
                               \/ Interrupted(w) \/ FinishFails(w) \/ FinishDropped(w)
        PROVE  FALSE
    BY <2>5 DEF ThreadStarts, Execute, Executed, Interrupted, FinishFails, FinishDropped
  <2>6. ASSUME NEW w \in Runs, Worker(w) PROVE Begin(w) \/ BeginFails(w)
    BY <2>4, <2>5, <2>6 DEF Worker
  <2>7. \E w \in Runs : Worker(w)
    BY <2>1, <2>2, <2>3, IdsAssumption DEF Next, Locked
  <2> QED BY <2>6, <2>7
<1>2. /\ workers[w].key = k
      /\ rows' = [rows EXCEPT ![k] = [owner |-> workers[w].owner, status |-> "running"]]
      /\ (\E p \in {"execute", "marking"} : Move(w, p)) \/ \E p \in {"done", "error"} : Fail(w, p)
  BY <1>t, <1>1 DEF Begin, BeginFails
<1>3. /\ workers'[w].pc \in {"execute", "marking"} \/ (workers'[w].pc # "idle" /\ workers'[w].struck)
      /\ workers'[w].key = k /\ workers'[w].owner = workers[w].owner
  BY <1>t, <1>2 DEF Move, Fail, Workers
<1>4. rows'[k].owner = workers[w].owner
  BY <1>t, <1>2
<1> QED BY <1>3, <1>4 DEF Answers, Settling

LEMMA RunningNext == TypeOK /\ PaymentInv /\ RunningInv /\ [Next]_vars => RunningInv'
<1> SUFFICES ASSUME TypeOK, PaymentInv, RunningInv, [Next]_vars,
                    NEW k \in Keys, rows'[k] # Null, rows'[k].status = "running"
             PROVE  \E w \in Runs : Answers(w, k)'
  BY DEF RunningInv
<1>1. CASE rows[k] = Null
  BY <1>1, OpenedRow
<1>2. CASE rows[k] # Null
  <2>1. rows'[k] = rows[k]
    <3>1. CASE Opens
      BY <1>2, <3>1 DEF Opens, TypeOK
    <3>2. CASE Settles
      <4>1. PICK j \in Keys, s \in {"completed", "failed"} :
              /\ rows[j] # Null
              /\ rows' = [rows EXCEPT ![j] = [rows[j] EXCEPT !.status = s]]
        BY <3>2 DEF Settles
      <4>2. [rows[j] EXCEPT !.status = s].status = s
        BY <4>1 DEF TypeOK, Rows
      <4> QED BY <4>1, <4>2 DEF TypeOK
    <3> QED BY <1>2, <3>1, <3>2, HistoryStep DEF Pays
  <2> QED BY <1>2, <2>1, AnswerStays DEF RunningInv
<1> QED BY <1>1, <1>2

\* An experiment's row stays "running" only behind a thread that was stopped, had a statement fail
\* or died with its process: recorded_run's finish and cancel handlers in algorithm_lab.py cover
\* every other way out of the turn.
THEOREM RowsGetFinished == Spec => []OnlyStoppedRunsStayUnfinished
<1>1. Init => RunningInv
  BY DEF Init, RunningInv
<1>2. TypeOK /\ RunningInv => OnlyStoppedRunsStayUnfinished
  <2> SUFFICES ASSUME RunningInv, NEW k \in Keys, rows[k] # Null, rows[k].status = "running"
               PROVE  \E w \in Threads(k) : workers[w].pc \notin Ended \/ workers[w].stop \/ workers[w].struck
    BY DEF OnlyStoppedRunsStayUnfinished
  <2>1. PICK w \in Runs : Answers(w, k)
    BY DEF RunningInv
  <2> QED BY <2>1 DEF Answers, Settling, Threads, Ended
<1> QED BY <1>1, <1>2, RunningNext, Payments, PTL DEF Spec
=============================================================================
