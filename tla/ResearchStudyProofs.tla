-------------------------- MODULE ResearchStudyProofs --------------------------
(***************************************************************************)
(* Proofs about ResearchStudy that hold under every fault.  What the run   *)
(* record, the final state and a pause promise does not rest on one study  *)
(* executing at a time; that one does, and that resume repeats nothing,    *)
(* rests on orderly starts.                                                *)
(***************************************************************************)
EXTENDS ResearchStudy, FiniteSetTheorems, TLAPS

\* A worker has a study, and a lane in the middle of a step has its case.
WorkerInv ==
  \A w \in Workers :
    /\ workers[w].pc # "none" => Study(w) \in Studies
    /\ \A l \in Lanes :
         /\ Job(w, l).step \in {"start", "trial", "save"} => Job(w, l).case \in Cases
         /\ Job(w, l).step \in {"insert", "paying"} => Job(w, l).case \in Pipeline

TypeInv == TypeOK /\ WorkerInv

LEMMA LaneSet ==
  ASSUME TypeInv, NEW w \in Workers, NEW l \in Lanes, NEW lane \in Lane, SetLane(w, l, lane),
         lane.step \in {"start", "trial", "save"} => lane.case \in Cases,
         lane.step \in {"insert", "paying"} => lane.case \in Pipeline
  PROVE  workers' \in [Workers -> Worker] /\ WorkerInv'
<1> USE DEF TypeInv, TypeOK, WorkerInv, Study, Job, SetLane
<1>1. /\ workers' \in [Workers -> Worker]
      /\ \A v \in Workers : workers'[v].pc = workers[v].pc /\ workers'[v].study = workers[v].study
      /\ \A v \in Workers, m \in Lanes :
           workers'[v].lanes[m] = IF v = w /\ m = l THEN lane ELSE workers[v].lanes[m]
  BY ZenonT(60) DEF Worker
<1> QED BY <1>1

LEMMA Moved ==
  ASSUME TypeInv, NEW w \in Workers, NEW pc \in Steps, Goto(w, pc), workers[w].pc # "none"
  PROVE  workers' \in [Workers -> Worker] /\ WorkerInv'
<1> USE DEF TypeInv, TypeOK, WorkerInv, Study, Job, Goto
<1>1. /\ workers' \in [Workers -> Worker]
      /\ \A v \in Workers : workers'[v].lanes = workers[v].lanes /\ workers'[v].study = workers[v].study
      /\ \A v \in Workers \ {w} : workers'[v].pc = workers[v].pc
  BY ZenonT(60) DEF Worker
<1> QED BY <1>1

\* A request that was taken up has its study, and its child once it was spawned.
Requests ==
  \A r \in Starters : starts[r] # Null =>
    starts[r].study \in Studies /\ starts[r].child \in Workers \cup {Null} /\ starts[r].stored \in BOOLEAN
LEMMA RequestFields == TypeOK => Requests
BY DEF TypeOK, Request, Requests

LEMMA IdleLanes ==
  ASSUME NEW step \in {"idle", "halt", "returned"}
  PROVE  LET lane == [IdleLane EXCEPT !.step = step] IN lane \in Lane /\ lane.step = step /\ lane.case = Null
BY DEF IdleLane, Lane

LEMMA NoWorkerTyped == NoWorker \in Worker /\ \A l \in Lanes : NoWorker.lanes[l] = IdleLane
BY LimitAssumption DEF NoWorker, Worker, IdleLane, Lane, Lanes, Steps

\* A worker that has left keeps nothing but its study.
LEMMA Left ==
  ASSUME workers \in [Workers -> Worker], NEW w \in Workers, Exit(w)
  PROVE  /\ workers' \in [Workers -> Worker]
         /\ workers'[w].pc = "exited" /\ workers'[w].study = Study(w) /\ workers'[w].queue = {}
         /\ \A l \in Lanes : workers'[w].lanes[l] = IdleLane
         /\ \A v \in Workers \ {w} : workers'[v] = workers[v]
<1> DEFINE left == [NoWorker EXCEPT !.pc = "exited", !.study = Study(w)]
<1>1. Study(w) \in Studies \cup {Null}
  BY DEF Worker, Study
<1>2. /\ left \in Worker /\ left.pc = "exited" /\ left.study = Study(w) /\ left.queue = {}
      /\ \A l \in Lanes : left.lanes[l] = IdleLane
  BY <1>1, NoWorkerTyped DEF Worker, Steps, NoWorker
<1> HIDE DEF left
<1>3. workers' = [workers EXCEPT ![w] = left]
  BY DEF Exit, left
<1> QED BY <1>2, <1>3

LEMMA LeftTyped ==
  ASSUME TypeInv, NEW w \in Workers, Exit(w), workers[w].pc # "none"
  PROVE  workers' \in [Workers -> Worker] /\ WorkerInv'
<1>1. /\ workers' \in [Workers -> Worker]
      /\ workers'[w].study = Study(w)
      /\ \A l \in Lanes : workers'[w].lanes[l].step = "idle"
      /\ \A v \in Workers \ {w} : workers'[v] = workers[v]
  BY Left DEF TypeInv, TypeOK, IdleLane
<1> QED BY <1>1 DEF TypeInv, WorkerInv, Study, Job

LEMMA RunTyped ==
  ASSUME NEW f \in [Studies -> [Pipeline -> {"absent", "running", "settled"}]], NEW s \in Studies, NEW c \in Pipeline
  PROVE  /\ [f EXCEPT ![s][c] = "running"] \in [Studies -> [Pipeline -> {"absent", "running", "settled"}]]
         /\ [f EXCEPT ![s][c] = "settled"] \in [Studies -> [Pipeline -> {"absent", "running", "settled"}]]
OBVIOUS

\* The rest of the types, when the step does not touch the workers.
LEMMA IdleWorkers ==
  ASSUME TypeInv, UNCHANGED workers
  PROVE  workers' \in [Workers -> Worker] /\ WorkerInv'
BY DEF TypeInv, TypeOK, WorkerInv, Study, Job

LEMMA TypeInit == Init => TypeInv
<1> SUFFICES ASSUME Init PROVE TypeInv
  OBVIOUS
<1>1. NoWorker \in Worker
  BY NoWorkerTyped
<1>2. TypeOK
  BY <1>1 DEF Init, TypeOK, States
<1>3. WorkerInv
  BY DEF Init, WorkerInv, NoWorker, IdleLane, Job, Study
<1> QED BY <1>2, <1>3 DEF TypeInv

-----------------------------------------------------------------------------
(* The requests *)

LEMMA RequestTypes ==
  ASSUME TypeInv,
         \/ \E s \in Studies : Reap(s) \/ ReapLook(s) \/ Pause(s)
         \/ ReapWrite \/ ApiRestart
         \/ \E r \in Starters : Start(r) \/ \E s \in Studies : Claim(r, s)
  PROVE  TypeInv'
<1> USE DEF States, Running
<1>1. ASSUME NEW s \in Studies, Reap(s) PROVE TypeInv'
  BY <1>1, IdleWorkers DEF Reap, TypeInv, TypeOK
<1>2. ASSUME NEW s \in Studies, ReapLook(s) PROVE TypeInv'
  <2>1. reaper' \in [study : Studies, rereads : BOOLEAN] \cup {Null}
    <3>1. PICK again \in BOOLEAN : reaper' = [study |-> s, rereads |-> again]
      BY <1>2 DEF ReapLook
    <3> QED BY <3>1
  <2>2. handles' \in [Studies -> Workers \cup {Null}]
    BY <1>2 DEF ReapLook, TypeInv, TypeOK
  <2> QED BY <1>2, <2>1, <2>2, IdleWorkers DEF ReapLook, TypeInv, TypeOK
<1>3. ASSUME NEW s \in Studies, Pause(s) PROVE TypeInv'
  BY <1>3, IdleWorkers DEF Pause, TypeInv, TypeOK
<1>4. CASE ReapWrite
  BY <1>4, IdleWorkers DEF ReapWrite, TypeInv, TypeOK
<1>5. CASE ApiRestart
  BY <1>5, IdleWorkers DEF ApiRestart, TypeInv, TypeOK
<1>6. ASSUME NEW r \in Starters, RecordPid(r) \/ RecordChild(r) PROVE TypeInv'
  <2>1. starts[r] \in Request
    BY <1>6 DEF RecordPid, RecordChild, TypeInv, TypeOK
  <2>2. starts[r].study \in Studies /\ starts[r].child \in Workers \cup {Null} /\ [starts[r] EXCEPT !.stored = TRUE] \in Request
    BY <2>1 DEF Request
  <2>3. starts' \in [Starters -> Request \cup {Null}]
    BY <1>6, <2>2 DEF RecordPid, RecordChild, TypeInv, TypeOK
  <2> QED BY <1>6, <2>2, <2>3, IdleWorkers DEF RecordPid, RecordChild, TypeInv, TypeOK
<1>7. ASSUME NEW r \in Starters, StartFails(r) PROVE TypeInv'
  BY <1>7, IdleWorkers DEF StartFails, TypeInv, TypeOK
<1>8. ASSUME NEW r \in Starters, NEW s \in Studies, Claim(r, s) PROVE TypeInv'
  <2>1. [study |-> s, child |-> Null, stored |-> FALSE] \in Request
    BY DEF Request
  <2> QED BY <1>8, <2>1, IdleWorkers DEF Claim, TypeInv, TypeOK
<1>9. ASSUME NEW r \in Starters, NEW w \in Workers, Spawn(r, w) PROVE TypeInv'
  <2>1. starts[r] \in Request
    BY <1>9 DEF Spawn, TypeInv, TypeOK
  <2>2. workers' = [workers EXCEPT ![w].pc = "spawned", ![w].study = starts[r].study] /\ starts[r].study \in Studies
    BY <1>9, <2>1 DEF Spawn, Request
  <2>3. workers \in [Workers -> Worker]
    BY DEF TypeInv, TypeOK
  <2>4. /\ workers' \in [Workers -> Worker]
        /\ workers'[w].study \in Studies
        /\ \A v \in Workers : workers'[v].lanes = workers[v].lanes
        /\ \A v \in Workers \ {w} : workers'[v] = workers[v]
    BY <2>2, <2>3, ZenonT(60) DEF Worker, Steps
  <2>5. WorkerInv'
    BY <2>4 DEF TypeInv, WorkerInv, Study, Job
  <2>6. starts' \in [Starters -> Request \cup {Null}]
    <3>1. [starts[r] EXCEPT !.child = w] \in Request
      BY <2>1 DEF Request
    <3> QED BY <1>9, <3>1 DEF Spawn, TypeInv, TypeOK
  <2> QED BY <1>9, <2>4, <2>5, <2>6 DEF Spawn, TypeInv, TypeOK
<1> QED BY <1>1, <1>2, <1>3, <1>4, <1>5, <1>6, <1>7, <1>8, <1>9 DEF Start

-----------------------------------------------------------------------------
(* The worker *)

LEMMA PayTyped ==
  ASSUME NEW f \in [Studies -> [Pipeline -> Nat]], NEW s \in Studies, NEW c \in Pipeline
  PROVE  [f EXCEPT ![s][c] = @ + 1] \in [Studies -> [Pipeline -> Nat]]
OBVIOUS

\* A saved result leaves its lane idle, or about to ask for a pause.
LEMMA SaveWrites ==
  ASSUME workers \in [Workers -> Worker], NEW w \in Workers, NEW l \in Lanes, Save(w, l)
  PROVE  \E count \in 0..HaltLimit, lane \in {IdleLane, [IdleLane EXCEPT !.step = "halt"]} :
           workers' = [workers EXCEPT ![w].fatal = count, ![w].lanes[l] = lane]
<1>1. workers[w].fatal \in 0..HaltLimit /\ HaltLimit \in Nat
  BY LimitAssumption DEF Worker
<1> DEFINE count == IF Job(w, l).case \notin Pipeline THEN workers[w].fatal
                    ELSE IF ~Job(w, l).fatal THEN 0
                    ELSE IF workers[w].fatal < HaltLimit THEN workers[w].fatal + 1 ELSE HaltLimit
           lane == IF Job(w, l).case \in Pipeline /\ count >= HaltLimit
                   THEN [IdleLane EXCEPT !.step = "halt"] ELSE IdleLane
<1>2. workers' = [workers EXCEPT ![w].fatal = count, ![w].lanes[l] = lane]
  BY DEF Save
<1>3. count \in 0..HaltLimit
  BY <1>1
<1>4. lane \in {IdleLane, [IdleLane EXCEPT !.step = "halt"]}
  OBVIOUS
<1> HIDE DEF count, lane
<1> QED BY <1>2, <1>3, <1>4

LEMMA CaseTyped ==
  ASSUME NEW f \in [Studies -> [Cases -> {"pending", "running", "finished"}]], NEW s, NEW c,
         NEW to \in {"pending", "running", "finished"}
  PROVE  [f EXCEPT ![s][c] = to] \in [Studies -> [Cases -> {"pending", "running", "finished"}]]
OBVIOUS

LEMMA WorkTypes ==
  ASSUME TypeInv, NEW w \in Workers, Work(w) \/ WorkerFails(w) \/ Crash(w)
  PROVE  TypeInv'
<1> USE DEF States, Running
<1>0. workers \in [Workers -> Worker]
  BY DEF TypeInv, TypeOK
<1>1. CASE Activate(w)
  <2>1. Goto(w, "loading") \/ Exit(w)
    BY <1>1 DEF Activate
  <2>2. workers' \in [Workers -> Worker] /\ WorkerInv'
    BY <1>1, <2>1, Moved, LeftTyped DEF Activate, Steps
  <2>3. state' \in [Studies -> States]
    BY <1>1 DEF Activate, TypeInv, TypeOK
  <2>4. pid' \in [Studies -> Workers \cup {"api", "gone", Null}]
    BY <1>1 DEF Activate, TypeInv, TypeOK
  <2> QED BY <1>1, <2>2, <2>3, <2>4 DEF Activate, TypeInv, TypeOK
<1>2. CASE Load(w)
  <2> DEFINE queue == {c \in Cases : cases[Study(w)][c] # "finished"}
             reset == {c \in Cases : cases[Study(w)][c] = "running"}
  <2>1. /\ workers' = [workers EXCEPT ![w].pc = "resetting", ![w].queue = queue, ![w].reset = reset]
        /\ queue \in SUBSET Cases /\ reset \in SUBSET Cases /\ workers[w].pc = "loading"
    BY <1>2 DEF Load
  <2> HIDE DEF queue, reset
  <2>2. /\ workers' \in [Workers -> Worker]
        /\ \A v \in Workers : workers'[v].lanes = workers[v].lanes /\ workers'[v].study = workers[v].study
        /\ \A v \in Workers \ {w} : workers'[v].pc = workers[v].pc
    <3> DEFINE loaded == [workers[w] EXCEPT !.pc = "resetting", !.queue = queue, !.reset = reset]
    <3>1. loaded \in Worker /\ loaded.lanes = workers[w].lanes /\ loaded.study = workers[w].study
      BY <1>0, <2>1 DEF Worker, Steps
    <3>2. workers' = [workers EXCEPT ![w] = loaded]
      BY <1>0, <2>1 DEF Worker
    <3> HIDE DEF loaded
    <3> QED BY <1>0, <3>1, <3>2
  <2>3. WorkerInv'
    BY <2>1, <2>2 DEF TypeInv, WorkerInv, Study, Job
  <2> QED BY <1>2, <2>2, <2>3 DEF Load, TypeInv, TypeOK
<1>r. CASE Reset(w)
  <2>1. ASSUME NEW c \in workers[w].reset, workers' = [workers EXCEPT ![w].reset = @ \ {c}]
        PROVE  workers' \in [Workers -> Worker] /\ WorkerInv'
    <3>1. /\ workers' \in [Workers -> Worker]
          /\ \A v \in Workers : /\ workers'[v].lanes = workers[v].lanes /\ workers'[v].study = workers[v].study
                                /\ workers'[v].pc = workers[v].pc
      BY <1>0, <2>1, ZenonT(60) DEF Worker
    <3> QED BY <3>1 DEF TypeInv, WorkerInv, Study, Job
  <2>2. workers' \in [Workers -> Worker] /\ WorkerInv'
    BY <1>r, <2>1, Moved DEF Reset, Steps
  <2>3. cases' \in [Studies -> [Cases -> {"pending", "running", "finished"}]]
    <3>1. cases' = cases \/ \E c \in Cases : cases' = [cases EXCEPT ![Study(w)][c] = "pending"]
      BY <1>0, <1>r DEF Reset, Worker
    <3>2. cases \in [Studies -> [Cases -> {"pending", "running", "finished"}]]
      BY DEF TypeInv, TypeOK
    <3> QED BY <3>1, <3>2, CaseTyped
  <2> QED BY <1>r, <2>2, <2>3 DEF Reset, TypeInv, TypeOK
<1>3. ASSUME NEW pc \in Steps, workers' = [workers EXCEPT ![w].pc = pc, ![w].lanes = [l \in Lanes |-> IdleLane]],
             workers[w].pc # "none"
      PROVE  workers' \in [Workers -> Worker] /\ WorkerInv'
  <2>2. [l \in Lanes |-> IdleLane] \in [Lanes -> Lane]
    BY DEF IdleLane, Lane
  <2>3. /\ workers' \in [Workers -> Worker]
        /\ \A v \in Workers : workers'[v].study = workers[v].study
        /\ \A v \in Workers \ {w} : workers'[v] = workers[v]
        /\ \A l \in Lanes : workers'[w].lanes[l] = IdleLane
    BY <1>0, <1>3, <2>2, ZenonT(60) DEF Worker
  <2> QED BY <1>3, <2>3 DEF TypeInv, WorkerInv, Study, Job, IdleLane
<1>g. CASE GoLive(w)
  BY <1>g, <1>3 DEF GoLive, Steps, TypeInv, TypeOK
<1>c. CASE Count(w)
  <2>1. PICK pc \in Steps : Goto(w, pc)
    BY <1>c DEF Count, Steps
  <2> QED BY <1>c, <2>1, Moved DEF Count, TypeInv, TypeOK
<1>4. ASSUME Conclude(w) \/ Interrupt(w) PROVE TypeInv'
  <2>1. workers[w].pc # "none" /\ Exit(w) /\ UNCHANGED <<pid, cases, starts, handles, reaper, runs, paid, orderly>>
        /\ \E to \in States : state' = [state EXCEPT ![Study(w)] = to]
    BY <1>4 DEF Conclude, Interrupt
  <2>2. state' \in [Studies -> States]
    BY <2>1 DEF TypeInv, TypeOK
  <2> QED BY <2>1, <2>2, LeftTyped DEF TypeInv, TypeOK
<1>5. CASE WorkerFails(w)
  <2>1. workers' \in [Workers -> Worker] /\ WorkerInv'
    BY <1>5, <1>3 DEF WorkerFails, Steps, Executing
  <2>2. PICK settled : runs' = [runs EXCEPT ![Study(w)] = [c \in Pipeline |-> IF c \in settled THEN "settled" ELSE @[c]]]
    BY <1>5 DEF WorkerFails
  <2>3. runs' \in [Studies -> [Pipeline -> {"absent", "running", "settled"}]]
    BY <2>2 DEF TypeInv, TypeOK
  <2> QED BY <1>5, <2>1, <2>3 DEF WorkerFails, TypeInv, TypeOK
<1>6. CASE Crash(w)
  BY <1>6, LeftTyped DEF Crash, Alive, TypeInv, TypeOK
<1>7. ASSUME NEW l \in Lanes, LaneStep(w, l) PROVE TypeInv'
  <2>0. Job(w, l) \in Lane /\ workers \in [Workers -> Worker]
    BY DEF TypeInv, TypeOK, Worker, Job
  <2>1. CASE Take(w, l)
    <3>0. PICK c \in Due(w) :
            \E lane \in {[case |-> c, step |-> "start", fatal |-> FALSE], [IdleLane EXCEPT !.step = "returned"]} :
              workers' = [workers EXCEPT ![w].queue = @ \ {c}, ![w].lanes[l] = lane]
      BY <2>1 DEF Take
    <3>1. PICK lane \in {[case |-> c, step |-> "start", fatal |-> FALSE], [IdleLane EXCEPT !.step = "returned"]} :
            workers' = [workers EXCEPT ![w].queue = @ \ {c}, ![w].lanes[l] = lane]
      BY <3>0, Zenon
    <3>2. c \in Cases
      BY <2>0, <3>1 DEF Due, Worker
    <3>3. /\ lane \in Lane /\ lane.step \in {"start", "returned"}
          /\ lane.step = "start" => lane.case \in Cases
      <4>1. CASE lane = [case |-> c, step |-> "start", fatal |-> FALSE]
        BY <3>2, <4>1 DEF Lane
      <4>2. CASE lane = [IdleLane EXCEPT !.step = "returned"]
        BY <4>2, IdleLanes
      <4> QED BY <3>1, <4>1, <4>2
    <3>4. /\ workers' \in [Workers -> Worker]
          /\ \A v \in Workers : workers'[v].pc = workers[v].pc /\ workers'[v].study = workers[v].study
          /\ \A v \in Workers, m \in Lanes :
               workers'[v].lanes[m] = IF v = w /\ m = l THEN lane ELSE workers[v].lanes[m]
      BY <2>0, <3>1, <3>3, ZenonT(120) DEF Worker
    <3>5. WorkerInv'
      <4>1. \A v \in Workers : workers'[v].pc # "none" => workers'[v].study \in Studies
        BY <3>4 DEF TypeInv, WorkerInv, Study
      <4>2. ASSUME NEW v \in Workers, NEW m \in Lanes
            PROVE  /\ workers'[v].lanes[m].step \in {"start", "trial", "save"} => workers'[v].lanes[m].case \in Cases
                   /\ workers'[v].lanes[m].step \in {"insert", "paying"} => workers'[v].lanes[m].case \in Pipeline
        <5>1. CASE v = w /\ m = l
          BY <3>3, <3>4, <5>1
        <5>2. CASE ~(v = w /\ m = l)
          <6>1. workers'[v].lanes[m] = workers[v].lanes[m]
            BY <3>4, <5>2
          <6> QED BY <6>1 DEF TypeInv, WorkerInv, Job
        <5> QED BY <5>1, <5>2
      <4> QED BY <4>1, <4>2 DEF WorkerInv, Study, Job
    <3> QED BY <2>1, <3>4, <3>5 DEF Take, TypeInv, TypeOK
  <2>8. CASE Mark(w, l)
    <3>1. PICK lane : lane = [Job(w, l) EXCEPT !.step = "trial"]
      OBVIOUS
    <3>2. lane \in Lane /\ lane.step = "trial" /\ lane.case = Job(w, l).case
      BY <2>0, <3>1 DEF Lane
    <3>3. SetLane(w, l, lane) /\ Job(w, l).case \in Cases
      BY <2>8, <3>1 DEF Mark, TypeInv, WorkerInv
    <3>4. workers' \in [Workers -> Worker] /\ WorkerInv'
      BY <3>2, <3>3, LaneSet
    <3>5. cases' \in [Studies -> [Cases -> {"pending", "running", "finished"}]]
      BY <2>8 DEF Mark, TypeInv, TypeOK
    <3> QED BY <2>8, <3>4, <3>5 DEF Mark, TypeInv, TypeOK
  <2>2. CASE SolverTrial(w, l)
    <3>1. [Job(w, l) EXCEPT !.step = "save"] \in Lane
      BY <2>0 DEF Lane
    <3>2. [Job(w, l) EXCEPT !.step = "save"].case \in Cases
      BY <2>0, <2>2 DEF SolverTrial, Lane, TypeInv, WorkerInv
    <3>3. [Job(w, l) EXCEPT !.step = "save"].step = "save"
      BY <2>0 DEF Lane
    <3>4. workers' \in [Workers -> Worker] /\ WorkerInv'
      BY <2>2, <3>1, <3>2, <3>3, LaneSet DEF SolverTrial
    <3> QED BY <2>2, <3>4 DEF SolverTrial, TypeInv, TypeOK
  <2>3. ASSUME NEW fatal \in BOOLEAN, SetLane(w, l, [Job(w, l) EXCEPT !.step = "save", !.fatal = fatal]),
               Job(w, l).step \in {"trial", "insert", "paying"}
        PROVE  workers' \in [Workers -> Worker] /\ WorkerInv'
    <3> DEFINE lane == [Job(w, l) EXCEPT !.step = "save", !.fatal = fatal]
    <3>1. lane \in Lane /\ lane.step = "save" /\ lane.case = Job(w, l).case
      BY <2>0 DEF Lane
    <3>2. Job(w, l).case \in Cases
      BY <2>3, CasesAssumption DEF TypeInv, WorkerInv
    <3> HIDE DEF lane
    <3>3. SetLane(w, l, lane)
      BY <2>3 DEF lane
    <3> QED BY <3>1, <3>2, <3>3, LaneSet
  <2>4. CASE Look(w, l)
    <3>1. ASSUME SetLane(w, l, [Job(w, l) EXCEPT !.step = "insert"])
        PROVE  workers' \in [Workers -> Worker] /\ WorkerInv'
      <4>1. PICK lane : lane = [Job(w, l) EXCEPT !.step = "insert"]
        OBVIOUS
      <4>2. lane \in Lane /\ lane.step = "insert" /\ lane.case = Job(w, l).case
        BY <2>0, <4>1 DEF Lane
      <4>3. SetLane(w, l, lane) /\ Job(w, l).case \in Pipeline
        BY <2>4, <3>1, <4>1 DEF Look
      <4> QED BY <4>2, <4>3, LaneSet
    <3>2. ASSUME \E fatal \in BOOLEAN : SetLane(w, l, [Job(w, l) EXCEPT !.step = "save", !.fatal = fatal])
        PROVE  workers' \in [Workers -> Worker] /\ WorkerInv'
      <4>1. PICK fatal \in BOOLEAN : SetLane(w, l, [Job(w, l) EXCEPT !.step = "save", !.fatal = fatal])
        BY <3>2
      <4>2. Job(w, l).step = "trial"
        BY <2>4 DEF Look
      <4> QED BY <2>3, <4>1, <4>2
    <3>3. workers' \in [Workers -> Worker] /\ WorkerInv'
      <4>1. \/ SetLane(w, l, [Job(w, l) EXCEPT !.step = "insert"])
            \/ \E fatal \in BOOLEAN : SetLane(w, l, [Job(w, l) EXCEPT !.step = "save", !.fatal = fatal])
        BY <2>4 DEF Look
      <4> QED BY <3>1, <3>2, <4>1
    <3> QED BY <2>4, <3>3 DEF Look, TypeInv, TypeOK
  <2>5. CASE Insert(w, l)
    <3>0. Study(w) \in Studies /\ Job(w, l).case \in Pipeline
      BY <2>5 DEF Insert, Alive, TypeInv, WorkerInv
    <3>1. ASSUME SetLane(w, l, [Job(w, l) EXCEPT !.step = "paying"])
        PROVE  workers' \in [Workers -> Worker] /\ WorkerInv'
      <4>1. PICK lane : lane = [Job(w, l) EXCEPT !.step = "paying"]
        OBVIOUS
      <4>2. lane \in Lane /\ lane.step = "paying" /\ lane.case = Job(w, l).case
        BY <2>0, <4>1 DEF Lane
      <4>3. Job(w, l).case \in Pipeline
        BY <2>5 DEF Insert, TypeInv, WorkerInv
      <4> QED BY <3>1, <4>1, <4>2, <4>3, LaneSet
    <3>2. ASSUME SetLane(w, l, [Job(w, l) EXCEPT !.step = "save", !.fatal = TRUE])
        PROVE  workers' \in [Workers -> Worker] /\ WorkerInv'
      <4>1. Job(w, l).step = "insert"
        BY <2>5 DEF Insert
      <4> QED BY <2>3, <3>2, <4>1
    <3>3. workers' \in [Workers -> Worker] /\ WorkerInv'
      <4>1. \/ SetLane(w, l, [Job(w, l) EXCEPT !.step = "paying"])
            \/ SetLane(w, l, [Job(w, l) EXCEPT !.step = "save", !.fatal = TRUE])
        BY <2>5 DEF Insert
      <4> QED BY <3>1, <3>2, <4>1
    <3>4. runs' \in [Studies -> [Pipeline -> {"absent", "running", "settled"}]]
      <4>3. PICK s \in Studies, c \in Pipeline : s = Study(w) /\ c = Job(w, l).case
        BY <3>0
      <4>1. runs' = runs \/ runs' = [runs EXCEPT ![s][c] = "running"]
        BY <2>5, <4>3 DEF Insert
      <4>2. runs \in [Studies -> [Pipeline -> {"absent", "running", "settled"}]]
        BY DEF TypeInv, TypeOK
      <4> QED BY <4>1, <4>2, RunTyped
    <3>5. paid' \in [Studies -> [Pipeline -> Nat]]
      <4>1. PICK s \in Studies, c \in Pipeline : s = Study(w) /\ c = Job(w, l).case
        BY <3>0
      <4>2. paid' = paid \/ paid' = [paid EXCEPT ![s][c] = @ + 1]
        BY <2>5, <4>1 DEF Insert
      <4>3. paid \in [Studies -> [Pipeline -> Nat]]
        BY DEF TypeInv, TypeOK
      <4> QED BY <4>2, <4>3, PayTyped
    <3>6. UNCHANGED <<state, pid, cases, starts, handles, reaper, orderly>>
      BY <2>5 DEF Insert
    <3> QED BY <3>3, <3>4, <3>5, <3>6 DEF TypeInv, TypeOK
  <2>6. CASE Settle(w, l)
    <3>0. Study(w) \in Studies /\ Job(w, l).case \in Pipeline
      BY <2>6 DEF Settle, Alive, TypeInv, WorkerInv
    <3>1. workers' \in [Workers -> Worker] /\ WorkerInv'
      BY <2>3, <2>6 DEF Settle
    <3>2. runs' \in [Studies -> [Pipeline -> {"absent", "running", "settled"}]]
      <4>3. PICK s \in Studies, c \in Pipeline : s = Study(w) /\ c = Job(w, l).case
        BY <3>0
      <4>1. runs' = runs \/ runs' = [runs EXCEPT ![s][c] = "settled"]
        BY <2>6, <4>3 DEF Settle
      <4>2. runs \in [Studies -> [Pipeline -> {"absent", "running", "settled"}]]
        BY DEF TypeInv, TypeOK
      <4> QED BY <4>1, <4>2, RunTyped
    <3> QED BY <2>6, <3>1, <3>2 DEF Settle, TypeInv, TypeOK
  <2>7. CASE Save(w, l)
    <3>1. PICK count \in 0..HaltLimit, lane \in {IdleLane, [IdleLane EXCEPT !.step = "halt"]} :
            workers' = [workers EXCEPT ![w].fatal = count, ![w].lanes[l] = lane]
      BY <2>0, <2>7, SaveWrites
    <3>2. lane \in Lane /\ lane.step \in {"idle", "halt"}
      <4>1. IdleLane \in Lane /\ IdleLane.step = "idle"
        BY DEF IdleLane, Lane
      <4> QED BY <3>1, <4>1, IdleLanes
    <3>3. /\ workers' \in [Workers -> Worker]
          /\ \A v \in Workers : workers'[v].pc = workers[v].pc /\ workers'[v].study = workers[v].study
          /\ \A v \in Workers, m \in Lanes :
               workers'[v].lanes[m] = IF v = w /\ m = l THEN lane ELSE workers[v].lanes[m]
      BY <2>0, <3>1, <3>2, ZenonT(120) DEF Worker
    <3>4. WorkerInv'
      BY <3>2, <3>3 DEF TypeInv, WorkerInv, Study, Job
    <3>5. cases' \in [Studies -> [Cases -> {"pending", "running", "finished"}]]
      BY <2>7 DEF Save, TypeInv, TypeOK
    <3> QED BY <2>7, <3>3, <3>4, <3>5 DEF Save, TypeInv, TypeOK
  <2>9. CASE Halt(w, l)
    <3>1. IdleLane \in Lane /\ IdleLane.step = "idle"
      BY DEF IdleLane, Lane
    <3>2. workers' \in [Workers -> Worker] /\ WorkerInv'
      BY <2>9, <3>1, LaneSet DEF Halt
    <3> QED BY <2>9, <3>2 DEF Halt, TypeInv, TypeOK
  <2> QED BY <1>7, <2>1, <2>2, <2>4, <2>5, <2>6, <2>7, <2>8, <2>9 DEF LaneStep
<1> QED BY <1>1, <1>2, <1>r, <1>g, <1>c, <1>4, <1>5, <1>6, <1>7 DEF Work

LEMMA TypeNext == TypeInv /\ [Next]_vars => TypeInv'
<1> SUFFICES ASSUME TypeInv, [Next]_vars PROVE TypeInv'
  OBVIOUS
<1>1. CASE UNCHANGED vars
  BY <1>1, IdleWorkers DEF vars, TypeInv, TypeOK
<1> QED BY <1>1, RequestTypes, WorkTypes DEF Next

-----------------------------------------------------------------------------
(* Theorems *)

\* The tables, the router's requests and every worker keep their shape.
THEOREM Typed == Spec => []TypeInv
BY TypeInit, TypeNext, PTL DEF Spec

\* Types of the store, the API's requests, the worker processes and the run records.
THEOREM TypeCorrect == Spec => []TypeOK
<1>1. TypeInv => TypeOK BY DEF TypeInv
<1> QED BY <1>1, Typed, PTL

\* The providers of a trip are entered only by whoever inserts its record, which nothing ever removes.
PaidInv ==
  \A s \in Studies : \A c \in Pipeline : paid[s][c] <= 1 /\ (runs[s][c] = "absent" => paid[s][c] = 0)

\* Who writes the run records, who writes the case rows and who writes the studies.
LEMMA StepKinds ==
  ASSUME [Next]_vars
  PROVE  \/ /\ \E w \in Workers : (\E l \in Lanes : Insert(w, l) \/ Settle(w, l)) \/ WorkerFails(w)
            /\ UNCHANGED <<state, cases>>
         \/ /\ \E w \in Workers : (\E l \in Lanes : Mark(w, l) \/ Save(w, l)) \/ Reset(w)
            /\ UNCHANGED <<state, runs, paid>>
         \/ /\ \/ \E w \in Workers : (\E l \in Lanes : Halt(w, l)) \/ Activate(w) \/ Conclude(w) \/ Interrupt(w)
               \/ \E s \in Studies : Reap(s) \/ Pause(s) \/ \E r \in Starters : Claim(r, s)
               \/ ReapWrite \/ \E r \in Starters : StartFails(r)
            /\ UNCHANGED <<cases, runs, paid>>
         \/ UNCHANGED <<state, cases, runs, paid>>
<1>1. CASE UNCHANGED vars
  BY <1>1 DEF vars
<1>2. ASSUME NEW s \in Studies, ReapLook(s) PROVE UNCHANGED <<state, cases, runs, paid>>
  BY <1>2 DEF ReapLook
<1>3. ASSUME NEW r \in Starters, RecordPid(r) \/ RecordChild(r) \/ \E w \in Workers : Spawn(r, w)
      PROVE  UNCHANGED <<state, cases, runs, paid>>
  BY <1>3 DEF RecordPid, RecordChild, Spawn
<1>4. CASE ApiRestart
  BY <1>4 DEF ApiRestart
<1>5. ASSUME NEW w \in Workers, Load(w) \/ GoLive(w) \/ Count(w) \/ Crash(w) PROVE UNCHANGED <<state, cases, runs, paid>>
  BY <1>5 DEF Load, GoLive, Count, Crash
<1>6. ASSUME NEW w \in Workers, NEW l \in Lanes, Take(w, l) \/ SolverTrial(w, l) \/ Look(w, l)
      PROVE  UNCHANGED <<state, cases, runs, paid>>
  BY <1>6 DEF Take, SolverTrial, Look
<1>7. ASSUME NEW w \in Workers, (\E l \in Lanes : Insert(w, l) \/ Settle(w, l)) \/ WorkerFails(w)
      PROVE  UNCHANGED <<state, cases>>
  BY <1>7 DEF Insert, Settle, WorkerFails
<1>8. ASSUME NEW w \in Workers, (\E l \in Lanes : Mark(w, l) \/ Save(w, l)) \/ Reset(w)
      PROVE  UNCHANGED <<state, runs, paid>>
  BY <1>8 DEF Mark, Save, Reset
<1>9. ASSUME NEW w \in Workers, (\E l \in Lanes : Halt(w, l)) \/ Activate(w) \/ Conclude(w) \/ Interrupt(w)
      PROVE  UNCHANGED <<cases, runs, paid>>
  BY <1>9 DEF Halt, Activate, Conclude, Interrupt
<1>10. ASSUME NEW s \in Studies, Reap(s) \/ Pause(s) \/ \E r \in Starters : Claim(r, s) PROVE UNCHANGED <<cases, runs, paid>>
  BY <1>10 DEF Reap, Pause, Claim
<1>11. ReapWrite \/ (\E r \in Starters : StartFails(r)) => UNCHANGED <<cases, runs, paid>>
  BY DEF ReapWrite, StartFails
<1> QED
  BY <1>1, <1>2, <1>3, <1>4, <1>5, <1>6, <1>7, <1>8, <1>9, <1>10, <1>11 DEF Next, Start, Work, LaneStep

LEMMA PaidNext == TypeInv /\ PaidInv /\ [Next]_vars => PaidInv'
<1> SUFFICES ASSUME TypeInv, PaidInv, [Next]_vars PROVE PaidInv'
  OBVIOUS
<1> USE DEF PaidInv
<1>0. runs \in [Studies -> [Pipeline -> {"absent", "running", "settled"}]] /\ paid \in [Studies -> [Pipeline -> Nat]]
  BY DEF TypeInv, TypeOK
<1>1. CASE UNCHANGED <<runs, paid>>
  BY <1>1
<1>2. ASSUME NEW w \in Workers, NEW l \in Lanes, Insert(w, l) PROVE PaidInv'
  <2>1. PICK s \in Studies, c \in Pipeline : s = Study(w) /\ c = Job(w, l).case
    BY <1>2 DEF Insert, Alive, TypeInv, WorkerInv
  <2>2. \/ runs[s][c] = "absent" /\ runs' = [runs EXCEPT ![s][c] = "running"]
           /\ (paid' = paid \/ paid' = [paid EXCEPT ![s][c] = @ + 1])
        \/ UNCHANGED <<runs, paid>>
    BY <1>2, <2>1 DEF Insert
  <2>3. CASE UNCHANGED <<runs, paid>>
    BY <1>1, <2>3
  <2>4. CASE /\ runs[s][c] = "absent" /\ runs' = [runs EXCEPT ![s][c] = "running"]
             /\ paid' = paid \/ paid' = [paid EXCEPT ![s][c] = @ + 1]
    <3>1. \A t \in Studies : \A d \in Pipeline :
             /\ t # s \/ d # c => paid'[t][d] = paid[t][d] /\ runs'[t][d] = runs[t][d]
             /\ paid'[s][c] \in {paid[s][c], paid[s][c] + 1} /\ runs'[s][c] = "running"
      BY <1>0, <2>4
    <3>2. paid[s][c] = 0
      BY <2>4
    <3> QED BY <3>1, <3>2
  <2> QED BY <2>2, <2>3, <2>4
<1>3. ASSUME NEW w \in Workers, NEW l \in Lanes, Settle(w, l) PROVE PaidInv'
  <2>1. paid' = paid /\ (runs' = runs \/ runs' = [runs EXCEPT ![Study(w)][Job(w, l).case] = "settled"])
    BY <1>3 DEF Settle
  <2>2. \A s \in Studies : \A c \in Pipeline : runs'[s][c] = "absent" => runs[s][c] = "absent"
    BY <1>0, <2>1
  <2> QED BY <2>1, <2>2
<1>4. ASSUME NEW w \in Workers, WorkerFails(w) PROVE PaidInv'
  <2>1. PICK settled : /\ paid' = paid
                       /\ runs' = [runs EXCEPT ![Study(w)] = [c \in Pipeline |-> IF c \in settled THEN "settled" ELSE @[c]]]
    BY <1>4 DEF WorkerFails
  <2>2. \A s \in Studies : \A c \in Pipeline : runs'[s][c] = "absent" => runs[s][c] = "absent"
    BY <1>0, <2>1
  <2> QED BY <2>1, <2>2
<1> QED BY <1>1, <1>2, <1>3, <1>4, StepKinds

\* However many workers end up on a study, killed, resumed or cut off from storage, a trip is paid at most once.
THEOREM TripsPaidOnce == Spec => []TripPaidAtMostOnce
<1>1. Init => PaidInv
  BY DEF Init, PaidInv
<1>2. PaidInv => TripPaidAtMostOnce
  BY DEF PaidInv, TripPaidAtMostOnce
<1> QED BY <1>1, <1>2, PaidNext, Typed, PTL DEF Spec

\* A pause is answered by every worker and every request that was on its way: nothing puts a pausing study
\* back to starting or running.
THEOREM PausesAreHeard == Spec => PauseHeard
<1>1. TypeInv /\ [Next]_vars =>
        [\A s \in Studies : state[s] = "pausing" => state'[s] # "running" /\ state'[s] # "starting"]_vars
  <2> SUFFICES ASSUME TypeInv, [Next]_vars, NEW s \in Studies, state[s] = "pausing"
               PROVE  state'[s] \notin {"running", "starting"}
    OBVIOUS
  <2>0. state \in [Studies -> States]
    BY DEF TypeInv, TypeOK
  <2>1. CASE UNCHANGED state
    BY <2>1
  <2>2. ASSUME NEW t \in Studies, Reap(t) \/ Pause(t) \/ \E r \in Starters : Claim(r, t) PROVE state'[s] \notin {"running", "starting"}
    BY <2>0, <2>2 DEF Reap, Pause, Claim
  <2>3. CASE ReapWrite
    BY <2>0, <2>3 DEF ReapWrite
  <2>4. ASSUME NEW r \in Starters, StartFails(r) PROVE state'[s] \notin {"running", "starting"}
    BY <2>0, <2>4 DEF StartFails
  <2>5. ASSUME NEW w \in Workers, Activate(w) \/ Conclude(w) \/ Interrupt(w) \/ \E l \in Lanes : Halt(w, l)
        PROVE  state'[s] \notin {"running", "starting"}
    BY <2>0, <2>5 DEF Activate, Conclude, Interrupt, Halt
  <2> QED BY <2>1, <2>2, <2>3, <2>4, <2>5, StepKinds
<1> QED BY <1>1, Typed, PTL DEF Spec, PauseHeard

-----------------------------------------------------------------------------
(* Orderly starts.  OneStudyExecutes is false of the code: a stale child, a  *)
(* restart or a late write marks a study interrupted under its live worker.  *)
(* The invariant says what ties the live worker to its study until then.     *)

\* Lanes work while the worker is in one of its two phases, on a case that was taken out of the queue.
LaneInv ==
  \A w \in Workers : \A l \in Lanes :
    /\ workers[w].pc \notin {"solver", "live"} => Job(w, l).step \in {"idle", "returned"}
    /\ Job(w, l).step \notin {"idle", "halt", "returned"} => Job(w, l).case \notin workers[w].queue

\* A start in flight: its study has no recorded child and no worker but the one it spawned.
InFlight(r) ==
  LET s == starts[r].study
      v == starts[r].child
  IN /\ handles[s] = Null
     /\ v = Null => /\ state[s] \in Running /\ pid[s] = "api" /\ ~starts[r].stored
                    /\ \A w \in Workers : ~Alive(w)
     /\ v # Null => /\ workers[v].pc # "none" /\ Study(v) = s
                    /\ pid[s] \in {"api", v} /\ (starts[r].stored => pid[s] = v)
                    /\ \A w \in Workers : Alive(w) => w = v

\* A live worker is the stored pid of a study that says it runs, and its recorded child unless
\* the API restarted, or it is the child of the start in flight.
OrderInv ==
  orderly =>
    /\ reaper = Null
    /\ \A s, t \in Studies : state[s] \in Running /\ state[t] \in Running => s = t
    /\ \A q, r \in Starters : starts[q] # Null /\ starts[r] # Null => q = r
    /\ \A s \in Studies :
         /\ pid[s] # "gone"
         /\ pid[s] = "api" => \E r \in Starters : starts[r] # Null /\ starts[r].study = s
         /\ handles[s] # Null => workers[handles[s]].pc # "none" /\ Study(handles[s]) = s
    /\ \A r \in Starters : starts[r] # Null => InFlight(r)
    /\ \A w \in Workers : Alive(w) =>
         /\ state[Study(w)] \in Running
         /\ \/ handles[Study(w)] \in {w, Null} /\ pid[Study(w)] = w
            \/ \E r \in Starters : starts[r] # Null /\ starts[r].child = w

\* What an executing worker still has to take, has to reset or is about to mark is not finished.
Unfinished(w, c) == cases[Study(w)][c] # "finished"
QueueInv ==
  orderly => \A w \in Workers :
    /\ workers[w].pc \in {"resetting", "solver", "live"} => \A c \in workers[w].queue : Unfinished(w, c)
    /\ workers[w].pc = "resetting" => workers[w].reset \subseteq workers[w].queue
    /\ \A l \in Lanes : Job(w, l).step = "start" => Unfinished(w, Job(w, l).case)

\* What a worker found finished when it counted still is when it concludes.
DoneInv ==
  orderly => \A w \in Workers : workers[w].pc = "done" => \A c \in Cases : ~Unfinished(w, c)

\* A worker is changed by its start and its own steps only.
LEMMA OwnStep ==
  ASSUME TypeInv, [Next]_vars, NEW w \in Workers
  PROVE  \/ workers'[w] = workers[w]
         \/ \E r \in Starters : Spawn(r, w)
         \/ Work(w) \/ WorkerFails(w) \/ Crash(w)
<1>0. workers \in [Workers -> Worker]
  BY DEF TypeInv, TypeOK
<1>1. CASE UNCHANGED workers
  BY <1>1
<1>2. ASSUME NEW v \in Workers \ {w}, \/ \E r \in Starters : Spawn(r, v)
                                     \/ Work(v) \/ WorkerFails(v) \/ Crash(v)
      PROVE  workers'[w] = workers[w]
  <2>1. ASSUME NEW r \in Starters, Spawn(r, v) PROVE workers'[w] = workers[w]
    BY <1>0, <2>1 DEF Spawn
  <2>2. ASSUME NEW l \in Lanes, LaneStep(v, l) PROVE workers'[w] = workers[w]
    <3>1. ASSUME NEW lane, SetLane(v, l, lane) PROVE workers'[w] = workers[w]
      BY <1>0, <3>1 DEF SetLane
    <3>2. Take(v, l) => workers'[w] = workers[w]
      BY <1>0 DEF Take
    <3>3. Save(v, l) => workers'[w] = workers[w]
      BY <1>0 DEF Save
    <3>4. Mark(v, l) \/ SolverTrial(v, l) \/ Look(v, l) \/ Insert(v, l) \/ Settle(v, l) \/ Halt(v, l)
            => \E lane : SetLane(v, l, lane)
      BY DEF Mark, SolverTrial, Look, Insert, Settle, Halt
    <3> QED BY <2>2, <3>1, <3>2, <3>3, <3>4 DEF LaneStep
  <2>3. Load(v) \/ Reset(v) \/ GoLive(v) \/ WorkerFails(v) => workers'[w] = workers[w]
    BY <1>0 DEF Load, Reset, GoLive, WorkerFails, Goto
  <2>4. Activate(v) \/ Count(v) \/ Conclude(v) \/ Interrupt(v) \/ Crash(v) => workers'[w] = workers[w]
    BY <1>0 DEF Activate, Count, Conclude, Interrupt, Crash, Goto, Exit
  <2> QED BY <1>2, <2>1, <2>2, <2>3, <2>4 DEF Work
<1>3. ASSUME NEW s \in Studies, Reap(s) \/ ReapLook(s) \/ Pause(s) \/ \E r \in Starters : Claim(r, s)
      PROVE  UNCHANGED workers
  BY <1>3 DEF Reap, ReapLook, Pause, Claim
<1>4. ReapWrite \/ ApiRestart \/ (\E r \in Starters : RecordPid(r) \/ RecordChild(r) \/ StartFails(r)) \/ UNCHANGED vars
        => UNCHANGED workers
  BY DEF ReapWrite, ApiRestart, RecordPid, RecordChild, StartFails, vars
<1> QED BY <1>1, <1>2, <1>3, <1>4 DEF Next, Start

\* What each step of a worker does to it; the lanes it does not name stay as they are.
LEMMA Went ==
  ASSUME TypeInv, NEW w \in Workers, NEW pc, Goto(w, pc)
  PROVE  /\ workers'[w].pc = pc /\ workers'[w].study = workers[w].study
         /\ workers'[w].queue = workers[w].queue /\ workers'[w].reset = workers[w].reset
         /\ workers'[w].lanes = workers[w].lanes
BY DEF TypeInv, TypeOK, Worker, Goto

LEMMA LaneWent ==
  ASSUME TypeInv, NEW w \in Workers, NEW l \in Lanes, NEW lane, SetLane(w, l, lane)
  PROVE  /\ workers'[w].pc = workers[w].pc /\ workers'[w].study = workers[w].study
         /\ workers'[w].queue = workers[w].queue /\ workers'[w].reset = workers[w].reset
         /\ workers'[w].lanes[l] = lane
         /\ \A m \in Lanes \ {l} : workers'[w].lanes[m] = workers[w].lanes[m]
BY DEF TypeInv, TypeOK, Worker, SetLane

LEMMA Loaded ==
  ASSUME TypeInv, NEW w \in Workers, Load(w)
  PROVE  /\ workers'[w].pc = "resetting" /\ workers'[w].study = workers[w].study
         /\ workers'[w].queue = {c \in Cases : cases[Study(w)][c] # "finished"}
         /\ workers'[w].reset = {c \in Cases : cases[Study(w)][c] = "running"}
         /\ workers'[w].lanes = workers[w].lanes
<1> DEFINE queue == {c \in Cases : cases[Study(w)][c] # "finished"}
           reset == {c \in Cases : cases[Study(w)][c] = "running"}
<1>1. workers' = [workers EXCEPT ![w].pc = "resetting", ![w].queue = queue, ![w].reset = reset]
  BY DEF Load
<1> HIDE DEF queue, reset
<1>2. /\ workers'[w].pc = "resetting" /\ workers'[w].study = workers[w].study
      /\ workers'[w].queue = queue /\ workers'[w].reset = reset /\ workers'[w].lanes = workers[w].lanes
  BY <1>1 DEF TypeInv, TypeOK, Worker
<1> QED BY <1>2 DEF queue, reset

\* A lane that takes a case or saves one.
LEMMA Taken ==
  ASSUME TypeInv, NEW w \in Workers, NEW l \in Lanes, Take(w, l)
  PROVE  \E c \in workers[w].queue, lane \in Lane :
           /\ workers'[w].pc = workers[w].pc /\ workers'[w].study = workers[w].study
           /\ workers'[w].queue = workers[w].queue \ {c} /\ workers'[w].reset = workers[w].reset
           /\ workers'[w].lanes[l] = lane
           /\ \A m \in Lanes \ {l} : workers'[w].lanes[m] = workers[w].lanes[m]
           /\ lane.step = "returned" \/ (lane.step = "start" /\ lane.case = c)
<1>0. PICK c \in Due(w) :
        \E lane \in {[case |-> c, step |-> "start", fatal |-> FALSE], [IdleLane EXCEPT !.step = "returned"]} :
          workers' = [workers EXCEPT ![w].queue = @ \ {c}, ![w].lanes[l] = lane]
  BY DEF Take
<1>1. PICK lane \in {[case |-> c, step |-> "start", fatal |-> FALSE], [IdleLane EXCEPT !.step = "returned"]} :
        workers' = [workers EXCEPT ![w].queue = @ \ {c}, ![w].lanes[l] = lane]
  BY <1>0, Zenon
<1>2. c \in workers[w].queue /\ c \in Cases
  BY DEF Due, TypeInv, TypeOK, Worker
<1>3. lane \in Lane /\ (lane.step = "returned" \/ (lane.step = "start" /\ lane.case = c))
  <2>1. CASE lane = [IdleLane EXCEPT !.step = "returned"]
    BY <2>1, IdleLanes
  <2>2. CASE lane = [case |-> c, step |-> "start", fatal |-> FALSE]
    BY <1>2, <2>2 DEF Lane
  <2> QED BY <1>1, <2>1, <2>2
<1>4. /\ workers'[w].pc = workers[w].pc /\ workers'[w].study = workers[w].study
      /\ workers'[w].queue = workers[w].queue \ {c} /\ workers'[w].reset = workers[w].reset
      /\ workers'[w].lanes[l] = lane
      /\ \A m \in Lanes \ {l} : workers'[w].lanes[m] = workers[w].lanes[m]
  BY <1>1 DEF TypeInv, TypeOK, Worker
<1> QED BY <1>2, <1>3, <1>4

LEMMA Saved ==
  ASSUME TypeInv, NEW w \in Workers, NEW l \in Lanes, Save(w, l)
  PROVE  /\ workers'[w].pc = workers[w].pc /\ workers'[w].study = workers[w].study
         /\ workers'[w].queue = workers[w].queue /\ workers'[w].reset = workers[w].reset
         /\ workers'[w].lanes[l].step \in {"idle", "halt"}
         /\ \A m \in Lanes \ {l} : workers'[w].lanes[m] = workers[w].lanes[m]
<1>0. workers \in [Workers -> Worker]
  BY DEF TypeInv, TypeOK
<1>1. PICK n \in 0..HaltLimit, lane \in {IdleLane, [IdleLane EXCEPT !.step = "halt"]} :
        workers' = [workers EXCEPT ![w].fatal = n, ![w].lanes[l] = lane]
  BY <1>0, SaveWrites
<1>2. lane.step \in {"idle", "halt"}
  <2>1. IdleLane.step = "idle" /\ [IdleLane EXCEPT !.step = "halt"].step = "halt"
    BY IdleLanes DEF IdleLane
  <2> QED BY <1>1, <2>1
<1> QED BY <1>0, <1>1, <1>2 DEF Worker

\* The other steps of a lane keep its case, or end it.
LEMMA OnWithCase ==
  ASSUME TypeInv, NEW w \in Workers, NEW l \in Lanes,
         Mark(w, l) \/ SolverTrial(w, l) \/ Look(w, l) \/ Insert(w, l) \/ Settle(w, l) \/ Halt(w, l)
  PROVE  \E lane : /\ SetLane(w, l, lane) /\ Job(w, l).step \notin {"idle", "returned"}
                   /\ \/ lane.step = "idle"
                      \/ Job(w, l).step # "halt" /\ lane.case = Job(w, l).case /\ lane.step # "start"
<1>0. Job(w, l) \in Lane
  BY DEF TypeInv, TypeOK, Worker, Job
<1>1. CASE Halt(w, l)
  <2>1. IdleLane.step = "idle"
    BY DEF IdleLane
  <2> QED BY <1>1, <2>1 DEF Halt
<1>2. CASE ~Halt(w, l)
  <2>1. \A st \in {"trial", "save", "insert", "paying"} :
          /\ [Job(w, l) EXCEPT !.step = st].step = st
          /\ [Job(w, l) EXCEPT !.step = st].case = Job(w, l).case
    BY <1>0 DEF Lane
  <2>2. \A f \in BOOLEAN :
          /\ [Job(w, l) EXCEPT !.step = "save", !.fatal = f].step = "save"
          /\ [Job(w, l) EXCEPT !.step = "save", !.fatal = f].case = Job(w, l).case
    BY <1>0 DEF Lane
  <2>3. \/ \E st \in {"trial", "save", "insert", "paying"} : SetLane(w, l, [Job(w, l) EXCEPT !.step = st])
        \/ \E f \in BOOLEAN : SetLane(w, l, [Job(w, l) EXCEPT !.step = "save", !.fatal = f])
    BY <1>2 DEF Mark, SolverTrial, Look, Insert, Settle
  <2>4. Job(w, l).step \in {"start", "trial", "insert", "paying"}
    BY <1>2 DEF Mark, SolverTrial, Look, Insert, Settle
  <2> QED BY <2>1, <2>2, <2>3, <2>4
<1> QED BY <1>1, <1>2

LEMMA LaneNext == TypeInv /\ LaneInv /\ [Next]_vars => LaneInv'
<1> SUFFICES ASSUME TypeInv, LaneInv, [Next]_vars, NEW w \in Workers, NEW l \in Lanes
             PROVE  (/\ workers[w].pc \notin {"solver", "live"} => Job(w, l).step \in {"idle", "returned"}
                     /\ Job(w, l).step \notin {"idle", "halt", "returned"} => Job(w, l).case \notin workers[w].queue)'
  BY DEF LaneInv
<1> DEFINE Kept == /\ workers'[w].pc \notin {"solver", "live"} => workers'[w].lanes[l].step \in {"idle", "returned"}
                   /\ workers'[w].lanes[l].step \notin {"idle", "halt", "returned"} =>
                        workers'[w].lanes[l].case \notin workers'[w].queue
<1> SUFFICES Kept
  BY DEF Job
<1>0. /\ workers[w].pc \notin {"solver", "live"} => workers[w].lanes[l].step \in {"idle", "returned"}
      /\ workers[w].lanes[l].step \notin {"idle", "halt", "returned"} => workers[w].lanes[l].case \notin workers[w].queue
  BY DEF LaneInv, Job
<1>t. workers \in [Workers -> Worker]
  BY DEF TypeInv, TypeOK
<1>r. ASSUME workers'[w].lanes[l].step \in {"idle", "returned"} PROVE Kept
  BY <1>r
<1>1. CASE workers'[w] = workers[w]
  BY <1>0, <1>1
<1>2. ASSUME NEW r \in Starters, Spawn(r, w) PROVE Kept
  <2>1. workers[w].pc = "none" /\ workers'[w].lanes = workers[w].lanes
    BY <1>t, <1>2 DEF Spawn, Worker
  <2> QED BY <1>0, <2>1
<1>3. CASE Exit(w)
  <2>1. workers'[w].lanes[l].step = "idle"
    BY <1>t, <1>3, Left DEF IdleLane
  <2> QED BY <1>r, <2>1
<1>4. CASE workers[w].pc \notin {"solver", "live"} /\ \E pc : Goto(w, pc)
  BY <1>0, <1>4, Went
<1>5. CASE Load(w)
  BY <1>0, <1>5, Loaded DEF Load
<1>6. CASE Reset(w)
  <2>1. CASE Goto(w, "solver")
    BY <1>4, <1>6, <2>1 DEF Reset
  <2>2. ASSUME NEW c \in workers[w].reset, workers' = [workers EXCEPT ![w].reset = @ \ {c}] PROVE Kept
    <3>1. workers'[w].lanes = workers[w].lanes
      BY <1>t, <2>2 DEF Worker
    <3> QED BY <1>0, <1>6, <3>1 DEF Reset
  <2> QED BY <1>6, <2>1, <2>2 DEF Reset
<1>7. CASE GoLive(w) \/ WorkerFails(w)
  <2>1. PICK pc : workers' = [workers EXCEPT ![w].pc = pc, ![w].lanes = [m \in Lanes |-> IdleLane]]
    BY <1>7 DEF GoLive, WorkerFails
  <2>2. workers'[w].lanes[l].step = "idle"
    BY <1>t, <2>1 DEF Worker, IdleLane
  <2> QED BY <2>2
<1>8. CASE Count(w)
  <2>1. LaneDone(w, l) /\ \E pc : Goto(w, pc)
    BY <1>8 DEF Count
  <2>2. workers'[w].lanes[l].step \in {"idle", "returned"}
    BY <2>1, Went DEF LaneDone, Job
  <2> QED BY <2>2
<1>9. ASSUME NEW m \in Lanes, LaneStep(w, m) PROVE Kept
  <2>1. CASE Take(w, m)
    <3>1. workers[w].pc \in {"solver", "live"}
      BY <2>1 DEF Take, Open
    <3>2. PICK c \in workers[w].queue, lane \in Lane :
            /\ workers'[w].pc = workers[w].pc /\ workers'[w].queue = workers[w].queue \ {c}
            /\ workers'[w].lanes[m] = lane
            /\ \A n \in Lanes \ {m} : workers'[w].lanes[n] = workers[w].lanes[n]
            /\ lane.step = "returned" \/ (lane.step = "start" /\ lane.case = c)
      BY <2>1, Taken
    <3>3. CASE l = m
      BY <3>1, <3>2, <3>3
    <3>4. CASE l # m
      BY <1>0, <3>1, <3>2, <3>4
    <3> QED BY <3>3, <3>4
  <2>2. CASE Save(w, m)
    <3>1. workers[w].pc \in {"solver", "live"}
      BY <2>2 DEF Save, LaneInv
    <3> QED BY <1>0, <2>2, <3>1, Saved
  <2>3. CASE ~Take(w, m) /\ ~Save(w, m)
    <3>1. PICK lane : /\ SetLane(w, m, lane) /\ Job(w, m).step \notin {"idle", "returned"}
                      /\ \/ lane.step = "idle"
                         \/ Job(w, m).step # "halt" /\ lane.case = Job(w, m).case /\ lane.step # "start"
      BY <1>9, <2>3, OnWithCase DEF LaneStep
    <3>2. /\ workers[w].pc \in {"solver", "live"}
          /\ Job(w, m).step # "halt" => Job(w, m).case \notin workers[w].queue
      BY <3>1 DEF LaneInv
    <3>3. /\ workers'[w].pc = workers[w].pc /\ workers'[w].queue = workers[w].queue
          /\ workers'[w].lanes[m] = lane
          /\ \A n \in Lanes \ {m} : workers'[w].lanes[n] = workers[w].lanes[n]
      BY <3>1, LaneWent
    <3> QED BY <1>0, <3>1, <3>2, <3>3
  <2> QED BY <2>1, <2>2, <2>3
<1>10. CASE Activate(w)
  BY <1>3, <1>4, <1>10 DEF Activate
<1>11. Conclude(w) \/ Interrupt(w) \/ Crash(w) => Exit(w)
  BY DEF Conclude, Interrupt, Crash
<1> QED BY <1>1, <1>2, <1>3, <1>5, <1>6, <1>7, <1>8, <1>9, <1>10, <1>11, OwnStep DEF Work

\* In an orderly state no two workers are alive.
LEMMA OneAlive ==
  ASSUME TypeInv, OrderInv, orderly, NEW v \in Workers, NEW w \in Workers, Alive(v), Alive(w)
  PROVE  v = w
<1>1. CASE \E r \in Starters : starts[r] # Null /\ starts[r].child \in {v, w}
  <2>1. PICK r \in Starters : starts[r] # Null /\ starts[r].child \in {v, w}
    BY <1>1
  <2>2. starts[r].child # Null
    BY <2>1, ResearchNullAssumption
  <2> QED BY <2>1, <2>2 DEF OrderInv, InFlight
<1>2. CASE ~\E r \in Starters : starts[r] # Null /\ starts[r].child \in {v, w}
  <2>1. /\ state[Study(v)] \in Running /\ pid[Study(v)] = v
        /\ state[Study(w)] \in Running /\ pid[Study(w)] = w
    BY <1>2 DEF OrderInv
  <2>2. Study(v) = Study(w)
    BY <2>1 DEF OrderInv, TypeInv, WorkerInv, Alive
  <2> QED BY <2>1, <2>2
<1> QED BY <1>1, <1>2

\* What a step of a live worker does to the order: it stays on its study, and the study runs
\* until it exits.
WorkerStep(w) ==
  /\ Alive(w)
  /\ UNCHANGED <<starts, handles, reaper, orderly>>
  /\ \A v \in Workers : /\ workers'[v].study = workers[v].study
                        /\ v # w => workers'[v].pc = workers[v].pc
  /\ workers'[w].pc # "none"
  /\ \A s \in Studies \ {Study(w)} : state'[s] = state[s] /\ pid'[s] = pid[s]
  /\ pid'[Study(w)] \in {pid[Study(w)], w}
  /\ state[Study(w)] \in Running /\ workers'[w].pc # "exited" => state'[Study(w)] \in Running

LEMMA WorkerSteps ==
  ASSUME TypeInv, LaneInv, NEW w \in Workers, Work(w) \/ WorkerFails(w) \/ Crash(w)
  PROVE  WorkerStep(w)
<1>0. workers \in [Workers -> Worker] /\ state \in [Studies -> States]
      /\ pid \in [Studies -> Workers \cup {"api", "gone", Null}]
  BY DEF TypeInv, TypeOK
<1>a. \A v \in Workers \ {w} : workers'[v] = workers[v]
  <2>1. ASSUME NEW l \in Lanes, LaneStep(w, l) PROVE \A v \in Workers \ {w} : workers'[v] = workers[v]
    <3>1. ASSUME NEW lane, SetLane(w, l, lane) PROVE \A v \in Workers \ {w} : workers'[v] = workers[v]
      BY <1>0, <3>1 DEF SetLane
    <3>2. Take(w, l) \/ Save(w, l) => \A v \in Workers \ {w} : workers'[v] = workers[v]
      BY <1>0 DEF Take, Save
    <3>3. Mark(w, l) \/ SolverTrial(w, l) \/ Look(w, l) \/ Insert(w, l) \/ Settle(w, l) \/ Halt(w, l)
            => \E lane : SetLane(w, l, lane)
      BY DEF Mark, SolverTrial, Look, Insert, Settle, Halt
    <3> QED BY <2>1, <3>1, <3>2, <3>3 DEF LaneStep
  <2>2. Load(w) \/ Reset(w) \/ GoLive(w) \/ WorkerFails(w) => \A v \in Workers \ {w} : workers'[v] = workers[v]
    BY <1>0 DEF Load, Reset, GoLive, WorkerFails, Goto
  <2>3. Activate(w) \/ Count(w) \/ Conclude(w) \/ Interrupt(w) \/ Crash(w)
          => \A v \in Workers \ {w} : workers'[v] = workers[v]
    BY <1>0 DEF Activate, Count, Conclude, Interrupt, Crash, Goto, Exit
  <2> QED BY <2>1, <2>2, <2>3 DEF Work
<1>1. ASSUME NEW pc, Goto(w, pc), pc # "none", Alive(w),
             UNCHANGED <<starts, handles, reaper, orderly>>,
             \A s \in Studies \ {Study(w)} : state'[s] = state[s] /\ pid'[s] = pid[s],
             pid'[Study(w)] \in {pid[Study(w)], w},
             state[Study(w)] \in Running => state'[Study(w)] \in Running
      PROVE  WorkerStep(w)
  BY <1>a, <1>1, Went DEF WorkerStep
<1>e. ASSUME Exit(w), Alive(w), UNCHANGED <<pid, starts, handles, reaper, orderly>>,
             \A s \in Studies \ {Study(w)} : state'[s] = state[s]
      PROVE  WorkerStep(w)
  <2>1. workers'[w].pc = "exited" /\ workers'[w].study = workers[w].study
    BY <1>0, <1>e, Left DEF Study
  <2> QED BY <1>a, <1>e, <2>1 DEF WorkerStep
<1>2. ASSUME Alive(w), UNCHANGED <<state, pid, starts, handles, reaper, orderly>>,
             workers'[w].study = workers[w].study, workers'[w].pc # "none"
      PROVE  WorkerStep(w)
  BY <1>a, <1>2 DEF WorkerStep
<1>3. CASE Activate(w)
  <2>0. Alive(w) /\ Study(w) \in Studies
    BY <1>3 DEF Activate, Alive, TypeInv, WorkerInv
  <2>1. CASE Goto(w, "loading") /\ state' = [state EXCEPT ![Study(w)] = "running"] /\ pid' = [pid EXCEPT ![Study(w)] = w]
    <3>1. /\ state'[Study(w)] \in Running /\ pid'[Study(w)] = w
          /\ \A s \in Studies \ {Study(w)} : state'[s] = state[s] /\ pid'[s] = pid[s]
      BY <1>0, <2>0, <2>1 DEF Running
    <3> QED BY <1>1, <1>3, <2>0, <2>1, <3>1 DEF Activate
  <2>2. CASE Exit(w) /\ UNCHANGED pid /\ \E to : state' = [state EXCEPT ![Study(w)] = to]
    BY <1>0, <1>e, <1>3, <2>0, <2>2 DEF Activate
  <2> QED BY <1>3, <2>1, <2>2 DEF Activate
<1>4. CASE Load(w)
  BY <1>2, <1>4, Loaded DEF Load, Alive
<1>r. CASE Reset(w)
  <2>1. CASE Goto(w, "solver")
    BY <1>2, <1>r, <2>1, Went DEF Reset, Alive
  <2>2. ASSUME NEW c \in workers[w].reset, workers' = [workers EXCEPT ![w].reset = @ \ {c}] PROVE WorkerStep(w)
    <3>1. workers'[w].study = workers[w].study /\ workers'[w].pc = workers[w].pc
      BY <1>0, <2>2 DEF Worker
    <3> QED BY <1>2, <1>r, <3>1 DEF Reset, Alive
  <2> QED BY <1>r, <2>1, <2>2 DEF Reset
<1>5. CASE GoLive(w) \/ WorkerFails(w)
  <2>1. PICK pc \in {"live", "failing"} : workers' = [workers EXCEPT ![w].pc = pc, ![w].lanes = [m \in Lanes |-> IdleLane]]
    BY <1>5 DEF GoLive, WorkerFails
  <2>2. workers'[w].study = workers[w].study /\ workers'[w].pc = pc
    BY <1>0, <2>1 DEF Worker
  <2> QED BY <1>2, <1>5, <2>2 DEF GoLive, WorkerFails, Executing, Alive
<1>6. CASE Count(w)
  <2>1. PICK pc \in {"open", "done"} : Goto(w, pc)
    BY <1>6 DEF Count
  <2> QED BY <1>2, <1>6, <2>1, Went DEF Count, Alive
<1>7. CASE Conclude(w) \/ Interrupt(w) \/ Crash(w)
  BY <1>0, <1>e, <1>7 DEF Conclude, Interrupt, Crash, Alive
<1>9. ASSUME NEW l \in Lanes, LaneStep(w, l) PROVE WorkerStep(w)
  <2>1. workers'[w].pc = workers[w].pc /\ workers'[w].study = workers[w].study
    BY <1>9, Taken, Saved, OnWithCase, LaneWent DEF LaneStep
  <2>2. Alive(w)
    BY <1>9 DEF LaneStep, Take, Open, Mark, SolverTrial, Look, Insert, Settle, Save, Halt, Alive
  <2>3. CASE Halt(w, l)
    BY <1>0, <1>a, <2>1, <2>2, <2>3 DEF Halt, WorkerStep, Alive, Running
  <2>4. CASE ~Halt(w, l)
    <3>1. UNCHANGED <<state, pid, starts, handles, reaper, orderly>>
      BY <1>9, <2>4 DEF LaneStep, Take, Mark, SolverTrial, Look, Insert, Settle, Save
    <3> QED BY <1>2, <2>1, <2>2, <3>1 DEF Alive
  <2> QED BY <2>3, <2>4
<1> QED BY <1>3, <1>4, <1>r, <1>5, <1>6, <1>7, <1>9 DEF Work

\* A worker's step keeps the order: only its own study and pid change, and it is the study's
\* recorded worker or the child of the start in flight.
LEMMA WorkerKeepsOrder ==
  ASSUME TypeInv, OrderInv, NEW w \in Workers, WorkerStep(w)
  PROVE  OrderInv'
<1> SUFFICES ASSUME orderly PROVE OrderInv'
  BY DEF WorkerStep, OrderInv
<1> USE DEF WorkerStep
<1>0. /\ starts \in [Starters -> Request \cup {Null}]
      /\ Requests
      /\ handles \in [Studies -> Workers \cup {Null}]
      /\ Study(w) \in Studies /\ Alive(w) /\ state[Study(w)] \in Running
  BY RequestFields DEF TypeInv, TypeOK, WorkerInv, Alive, OrderInv
<1>1. \A s \in Studies : state[s] \in Running => s = Study(w)
  BY <1>0 DEF OrderInv
<1>2. \A s \in Studies : state'[s] \in Running => s = Study(w)
  BY <1>1
<1>3. \A v \in Workers : Alive(v) => v = w
  BY <1>0, OneAlive
<1>4. \A v \in Workers : Alive(v)' => v = w
  BY <1>3 DEF Alive
<1>5. \A v \in Workers : Study(v)' = Study(v) /\ (workers[v].pc # "none" => workers'[v].pc # "none")
  BY DEF Study
<1>6. \A s \in Studies :
        /\ pid'[s] # "gone"
        /\ pid'[s] = "api" => \E r \in Starters : starts'[r] # Null /\ starts'[r].study = s
        /\ handles'[s] # Null => workers'[handles'[s]].pc # "none" /\ Study(handles[s])' = s
  <2> TAKE s \in Studies
  <2>1. /\ pid'[s] \in {pid[s], w} /\ pid[s] # "gone"
        /\ pid[s] = "api" => \E r \in Starters : starts'[r] # Null /\ starts'[r].study = s
    BY DEF OrderInv
  <2>2. handles[s] # Null => workers'[handles[s]].pc # "none" /\ Study(handles[s])' = s
    BY <1>0, <1>5 DEF OrderInv
  <2> QED BY <2>1, <2>2, ResearchNullAssumption
<1>7. \A r \in Starters : starts'[r] # Null => InFlight(r)'
  <2> SUFFICES ASSUME NEW r \in Starters, starts[r] # Null PROVE InFlight(r)'
    OBVIOUS
  <2>1. starts[r].child = w
    BY <1>0 DEF OrderInv, InFlight
  <2>2. /\ handles[starts[r].study] = Null /\ Study(w) = starts[r].study
        /\ pid[starts[r].study] \in {"api", w}
    BY <2>1, ResearchNullAssumption DEF OrderInv, InFlight
  <2>3. starts[r].stored => pid[starts[r].study] = w
    BY <2>1, ResearchNullAssumption DEF OrderInv, InFlight
  <2>4. pid'[starts[r].study] \in {"api", w} /\ (starts[r].stored => pid'[starts[r].study] = w)
    BY <1>0, <2>2, <2>3
  <2> QED BY <1>0, <1>4, <1>5, <2>1, <2>2, <2>4, ResearchNullAssumption DEF InFlight
<1>8. Alive(w)' =>
        /\ state'[Study(w)] \in Running
        /\ \/ handles'[Study(w)] \in {w, Null} /\ pid'[Study(w)] = w
           \/ \E r \in Starters : starts'[r] # Null /\ starts'[r].child = w
  BY <1>0 DEF OrderInv, Alive
<1>9. \A s, t \in Studies : state'[s] \in Running /\ state'[t] \in Running => s = t
  BY <1>2
<1>10. \A q, r \in Starters : starts'[q] # Null /\ starts'[r] # Null => q = r
  BY DEF OrderInv
<1>11. reaper' = Null
  BY DEF OrderInv
<1> QED BY <1>4, <1>5, <1>6, <1>7, <1>8, <1>9, <1>10, <1>11 DEF OrderInv

\* What the requests and polls do keeps the order, or ends it.
LEMMA RequestKeepsOrder ==
  ASSUME TypeInv, OrderInv, orderly',
         \/ \E s \in Studies : Reap(s) \/ ReapLook(s) \/ Pause(s)
         \/ ReapWrite \/ ApiRestart
         \/ \E r \in Starters : Start(r) \/ \E s \in Studies : Claim(r, s)
  PROVE  OrderInv'
<1>o. orderly
  BY DEF Reap, ReapLook, Pause, ReapWrite, ApiRestart, Start, RecordPid, RecordChild, StartFails, Spawn, Claim
<1>t. /\ starts \in [Starters -> Request \cup {Null}]
      /\ Requests
      /\ handles \in [Studies -> Workers \cup {Null}]
      /\ workers \in [Workers -> Worker]
      /\ state \in [Studies -> States]
      /\ pid \in [Studies -> Workers \cup {"api", "gone", Null}]
      /\ \A w \in Workers : Alive(w) => Study(w) \in Studies
  BY RequestFields DEF TypeInv, TypeOK, WorkerInv, Alive
<1>w. ASSUME workers' = workers
      PROVE  \A w \in Workers : Alive(w)' = Alive(w) /\ Study(w)' = Study(w)
  BY <1>w DEF Alive, Study
<1>1. ASSUME NEW s \in Studies, Reap(s) PROVE OrderInv'
  <2>1. \A w \in Workers : Alive(w) => Study(w) # s
    <3> SUFFICES ASSUME NEW w \in Workers, Alive(w), Study(w) = s PROVE FALSE
      OBVIOUS
    <3>1. CASE handles[s] \in {w, Null} /\ pid[s] = w
      BY <1>1, <3>1, ResearchNullAssumption DEF Reap, ChildEnded, PidGone, Gone, Exited, Alive
    <3>2. ASSUME NEW r \in Starters, starts[r] # Null, starts[r].child = w PROVE FALSE
      <4>1. handles[s] = Null /\ pid[s] \in {"api", w}
        BY <1>o, <3>2, ResearchNullAssumption DEF OrderInv, InFlight
      <4> QED BY <1>1, <4>1, ResearchNullAssumption DEF Reap, ChildEnded, PidGone, Gone, Exited, Alive
    <3> QED BY <1>o, <3>1, <3>2 DEF OrderInv
  <2>2. \A r \in Starters : starts[r] # Null /\ starts[r].study = s => starts[r].child # Null
    <3> SUFFICES ASSUME NEW r \in Starters, starts[r] # Null, starts[r].study = s, starts[r].child = Null
                 PROVE  FALSE
      OBVIOUS
    <3>1. handles[s] = Null /\ pid[s] = "api"
      BY <1>o DEF OrderInv, InFlight
    <3> QED BY <1>1, <3>1, ResearchNullAssumption DEF Reap, ChildEnded, PidGone, Gone, Exited
  <2>3. /\ UNCHANGED <<pid, starts, reaper, workers>>
        /\ \A t \in Studies : t # s => state'[t] = state[t] /\ handles'[t] = handles[t]
        /\ handles'[s] \in {handles[s], Null} /\ state'[s] \notin Running
    BY <1>t, <1>1 DEF Reap, Running
  <2>4. \A r \in Starters : starts'[r] # Null => InFlight(r)'
    <3> SUFFICES ASSUME NEW r \in Starters, starts[r] # Null PROVE InFlight(r)'
      BY <2>3
    <3>1. /\ InFlight(r) /\ starts[r].study \in Studies
          /\ starts[r].child \in Workers \cup {Null} /\ starts'[r] = starts[r]
      BY <1>o, <1>t, <2>3 DEF OrderInv, Requests
    <3>2. handles'[starts[r].study] = Null
      BY <2>3, <3>1 DEF InFlight
    <3>3. CASE starts[r].child = Null
      <4>1. starts[r].study # s
        BY <2>2, <3>3
      <4> QED BY <1>w, <2>3, <3>1, <3>2, <3>3, <4>1 DEF InFlight
    <3>4. CASE starts[r].child # Null
      BY <1>w, <2>3, <3>1, <3>2, <3>4 DEF InFlight
    <3> QED BY <3>3, <3>4
  <2>5. \A t \in Studies : handles'[t] # Null => workers'[handles'[t]].pc # "none" /\ Study(handles[t])' = t
    BY <1>o, <2>3 DEF OrderInv, Study
  <2>6. ASSUME NEW w \in Workers, Alive(w)'
        PROVE  /\ state'[Study(w)] \in Running
               /\ \/ handles'[Study(w)] \in {w, Null} /\ pid'[Study(w)] = w
                  \/ \E r \in Starters : starts'[r] # Null /\ starts'[r].child = w
    BY <1>o, <1>t, <1>w, <2>1, <2>3, <2>6 DEF OrderInv
  <2> QED BY <1>o, <1>w, <2>3, <2>4, <2>5, <2>6 DEF OrderInv
<1>2. ASSUME NEW s \in Studies, Pause(s) PROVE OrderInv'
  <2>1. /\ UNCHANGED <<pid, starts, handles, reaper, workers>>
        /\ \A t \in Studies : state'[t] \in Running <=> state[t] \in Running
    BY <1>t, <1>2 DEF Pause, Running
  <2>2. \A r \in Starters : starts[r] # Null => starts[r].study \in Studies /\ starts[r].child \in Workers \cup {Null}
    BY <1>t DEF Requests
  <2>3. ASSUME NEW r \in Starters, starts'[r] # Null PROVE InFlight(r)'
    <3>1. InFlight(r) /\ starts'[r] = starts[r] /\ starts[r].study \in Studies
      BY <1>o, <2>1, <2>2, <2>3 DEF OrderInv
    <3>2. CASE starts[r].child = Null
      BY <1>w, <2>1, <3>1, <3>2 DEF InFlight
    <3>3. CASE starts[r].child # Null
      BY <1>w, <2>1, <2>2, <2>3, <3>1, <3>3 DEF InFlight
    <3> QED BY <3>2, <3>3
  <2>4. ASSUME NEW w \in Workers, Alive(w)'
        PROVE  /\ state'[Study(w)] \in Running
               /\ \/ handles'[Study(w)] \in {w, Null} /\ pid'[Study(w)] = w
                  \/ \E r \in Starters : starts'[r] # Null /\ starts'[r].child = w
    BY <1>o, <1>t, <1>w, <2>1, <2>4 DEF OrderInv
  <2>5. \A t \in Studies : handles'[t] # Null => workers'[handles'[t]].pc # "none" /\ Study(handles[t])' = t
    BY <1>o, <2>1 DEF OrderInv, Study
  <2> QED BY <1>o, <1>w, <2>1, <2>3, <2>4, <2>5 DEF OrderInv
<1>3. ASSUME NEW r \in Starters, NEW s \in Studies, Claim(r, s) PROVE OrderInv'
  <2>1. /\ UNCHANGED <<handles, reaper, workers>>
        /\ \A q \in Starters : starts[q] = Null
        /\ \A t \in Studies : state[t] \notin Running
        /\ starts' = [starts EXCEPT ![r] = [study |-> s, child |-> Null, stored |-> FALSE]]
        /\ state' = [state EXCEPT ![s] = "starting"]
        /\ pid' = [pid EXCEPT ![s] = "api"]
        /\ ~ChildEnded(s)
    BY <1>3 DEF Claim
  <2>2. \A w \in Workers : ~Alive(w)
    BY <1>o, <1>t, <2>1 DEF OrderInv
  <2>3. handles[s] = Null
    BY <1>o, <1>t, <2>1, <2>2 DEF OrderInv, ChildEnded, Exited, Alive
  <2>4. starts'[r] = [study |-> s, child |-> Null, stored |-> FALSE] /\ \A q \in Starters : q # r => starts'[q] = Null
    BY <1>t, <2>1
  <2>5. state'[s] \in Running /\ pid'[s] = "api" /\ \A t \in Studies : t # s => state'[t] \notin Running
    BY <1>t, <2>1 DEF Running
  <2>6. InFlight(r)'
    BY <1>w, <2>1, <2>2, <2>3, <2>4, <2>5 DEF InFlight
  <2>7. \A t \in Studies : pid'[t] # "gone" /\ (pid'[t] = "api" => t = s)
    BY <1>o, <1>t, <2>1 DEF OrderInv
  <2>8. \A t \in Studies : pid'[t] = "api" => starts'[r] # Null /\ starts'[r].study = t
    <3>1. [study |-> s, child |-> Null, stored |-> FALSE] \in Request
      BY DEF Request
    <3> QED BY <2>4, <2>7, <3>1, ResearchNullAssumption DEF Request
  <2> QED BY <1>o, <1>w, <2>1, <2>2, <2>4, <2>5, <2>6, <2>7, <2>8 DEF OrderInv, Study
<1>4. ASSUME NEW r \in Starters, NEW w \in Workers, Spawn(r, w) PROVE OrderInv'
  <2> DEFINE s == starts[r].study
  <2>1. /\ starts[r] # Null /\ starts[r].child = Null /\ workers[w].pc = "none" /\ s \in Studies
        /\ UNCHANGED <<state, pid, handles, reaper>>
    BY <1>t, <1>4 DEF Spawn, Requests
  <2>2. /\ handles[s] = Null /\ state[s] \in Running /\ pid[s] = "api"
        /\ \A v \in Workers : ~Alive(v)
    BY <1>o, <2>1 DEF OrderInv, InFlight
  <2>3. /\ \A v \in Workers : v # w => workers'[v] = workers[v]
        /\ workers'[w].pc = "spawned" /\ workers'[w].study = s
    BY <1>t, <1>4 DEF Spawn, Worker
  <2>4. /\ starts'[r] # Null /\ starts'[r].child = w /\ starts'[r].study = s /\ ~starts'[r].stored
        /\ \A q \in Starters : q # r => starts'[q] = Null
    <3>1. starts[r] \in Request /\ [starts[r] EXCEPT !.child = w] \in Request
      BY <1>t, <2>1 DEF Request
    <3>2. starts'[r] = [starts[r] EXCEPT !.child = w] /\ \A q \in Starters : q # r => starts'[q] = starts[q]
      BY <1>t, <1>4 DEF Spawn
    <3>3. starts[r].stored = FALSE
      BY <1>o, <2>1, <3>1 DEF OrderInv, InFlight, Request
    <3>4. \A q \in Starters : q # r => starts[q] = Null
      BY <1>o, <2>1 DEF OrderInv
    <3> QED BY <2>1, <3>1, <3>2, <3>3, <3>4, ResearchNullAssumption DEF Request
  <2>5. \A v \in Workers : Alive(v)' => v = w
    BY <2>2, <2>3 DEF Alive
  <2>6. InFlight(r)'
    BY <2>1, <2>2, <2>3, <2>4, <2>5, ResearchNullAssumption DEF InFlight, Study
  <2>7. \A t \in Studies : handles'[t] # Null => workers'[handles'[t]].pc # "none" /\ Study(handles[t])' = t
    BY <1>o, <1>t, <2>1, <2>3 DEF OrderInv, Study
  <2>9. \A v \in Workers : Alive(v)' => v = w /\ starts'[r] # Null /\ starts'[r].child = v /\ state'[Study(v)'] \in Running
    BY <2>1, <2>2, <2>3, <2>4, <2>5 DEF Study
  <2>8. \A t \in Studies : pid[t] # "gone" /\ (pid[t] = "api" => t = s)
    BY <1>o, <2>1 DEF OrderInv
  <2> QED BY <1>o, <2>1, <2>4, <2>6, <2>7, <2>8, <2>9 DEF OrderInv, Study
<1>5. ASSUME NEW r \in Starters, RecordPid(r) PROVE OrderInv'
  <2>1. PICK s \in Studies, v \in Workers :
          /\ starts[r] # Null /\ starts[r].study = s /\ starts[r].child = v
          /\ UNCHANGED <<state, handles, reaper, workers>>
          /\ pid' = [pid EXCEPT ![s] = v] /\ starts' = [starts EXCEPT ![r].stored = TRUE]
    BY <1>t, <1>5 DEF RecordPid, Requests
  <2>2. /\ workers[v].pc # "none" /\ Study(v) = s /\ handles[s] = Null
        /\ \A w \in Workers : Alive(w) => w = v
    BY <1>o, <2>1, ResearchNullAssumption DEF OrderInv, InFlight
  <2>3. /\ starts'[r] # Null /\ starts'[r].study = s /\ starts'[r].child = v
        /\ \A q \in Starters : q # r => starts'[q] = Null
    <3>1. starts[r] \in Request
      BY <1>t, <2>1
    <3>2. [starts[r] EXCEPT !.stored = TRUE] \in Request
      BY <3>1 DEF Request
    <3>3. starts'[r] = [starts[r] EXCEPT !.stored = TRUE] /\ \A q \in Starters : q # r => starts'[q] = starts[q]
      BY <1>t, <2>1
    <3>4. \A q \in Starters : q # r => starts[q] = Null
      BY <1>o, <2>1 DEF OrderInv
    <3> QED BY <2>1, <3>1, <3>2, <3>3, <3>4, ResearchNullAssumption DEF Request
  <2>4. pid'[s] = v /\ \A t \in Studies : t # s => pid'[t] = pid[t]
    BY <1>t, <2>1
  <2>5. \A t \in Studies : pid'[t] \notin {"gone", "api"}
    BY <1>o, <2>1, <2>4, ResearchNullAssumption DEF OrderInv
  <2>6. InFlight(r)'
    BY <1>w, <2>1, <2>2, <2>3, <2>4, ResearchNullAssumption DEF InFlight
  <2>7. \A w \in Workers : Alive(w)' => state'[Study(w)'] \in Running /\ w = v
    BY <1>o, <1>w, <2>1, <2>2 DEF OrderInv
  <2>8. \A t \in Studies : handles'[t] # Null => workers'[handles'[t]].pc # "none" /\ workers'[handles'[t]].study = t
    BY <1>o, <2>1 DEF OrderInv, Study
  <2>9. /\ reaper' = Null
        /\ \A t, u \in Studies : state'[t] \in Running /\ state'[u] \in Running => t = u
    BY <1>o, <2>1 DEF OrderInv
  <2>10. \A q \in Starters : starts'[q] # Null => q = r
    BY <2>3
  <2> QED BY <2>3, <2>5, <2>6, <2>7, <2>8, <2>9, <2>10 DEF OrderInv, Study
<1>9. ASSUME NEW r \in Starters, RecordChild(r) PROVE OrderInv'
  <2>1. PICK s \in Studies : /\ starts[r] # Null /\ starts[r].study = s /\ starts[r].stored
                             /\ starts[r].child \in Workers \cup {Null}
                             /\ UNCHANGED <<state, pid, reaper, workers>>
                             /\ handles' = [handles EXCEPT ![s] = starts[r].child]
    BY <1>t, <1>9 DEF RecordChild, Requests
  <2>2. PICK v \in Workers : /\ starts[r].child = v /\ workers[v].pc # "none" /\ Study(v) = s /\ pid[s] = v
                             /\ \A w \in Workers : Alive(w) => w = v
    BY <1>o, <2>1, ResearchNullAssumption DEF OrderInv, InFlight
  <2>3. \A q \in Starters : starts'[q] = Null
    BY <1>o, <1>t, <1>9, <2>1 DEF RecordChild, OrderInv
  <2>4. handles'[s] = v /\ \A t \in Studies : t # s => handles'[t] = handles[t]
    BY <1>t, <2>1, <2>2
  <2>5. \A t \in Studies : pid'[t] \notin {"gone", "api"}
    BY <1>o, <2>1, <2>2, ResearchNullAssumption DEF OrderInv
  <2> QED BY <1>o, <1>w, <2>1, <2>2, <2>3, <2>4, <2>5 DEF OrderInv, Study
<1>6. ASSUME ReapWrite PROVE FALSE
  BY <1>o, <1>6 DEF ReapWrite, OrderInv
<1>7. ASSUME (\E r \in Starters : StartFails(r)) \/ (\E s \in Studies : ReapLook(s)) PROVE FALSE
  BY <1>7 DEF StartFails, ReapLook
<1>8. ASSUME ApiRestart PROVE OrderInv'
  <2>1. \A r \in Starters : starts[r] = Null
    BY <1>8 DEF ApiRestart
  <2>2. \A s \in Studies : pid[s] \notin {"api", "gone"}
    BY <1>o, <2>1 DEF OrderInv
  <2>3. /\ UNCHANGED <<state, workers>> /\ reaper' = Null
        /\ \A s \in Studies : pid'[s] = pid[s] /\ handles'[s] = Null
        /\ \A r \in Starters : starts'[r] = Null
    BY <1>8, <2>2 DEF ApiRestart
  <2> QED BY <1>o, <1>t, <1>w, <2>1, <2>2, <2>3 DEF OrderInv
<1> QED BY <1>1, <1>2, <1>3, <1>4, <1>5, <1>6, <1>7, <1>8, <1>9 DEF Start

LEMMA OrderNext == TypeInv /\ LaneInv /\ OrderInv /\ [Next]_vars => OrderInv'
<1> SUFFICES ASSUME TypeInv, LaneInv, OrderInv, [Next]_vars, orderly' PROVE OrderInv'
  BY DEF OrderInv
<1>1. CASE \E w \in Workers : Work(w) \/ WorkerFails(w) \/ Crash(w)
  BY <1>1, WorkerSteps, WorkerKeepsOrder
<1>2. CASE UNCHANGED vars
  BY <1>2 DEF vars, OrderInv, InFlight, Alive, Study
<1> QED BY <1>1, <1>2, RequestKeepsOrder DEF Next

\* What ended the order never comes back.
LEMMA OrderlyBefore ==
  ASSUME [Next]_vars, orderly'
  PROVE  orderly
<1>1. ASSUME NEW s \in Studies, Reap(s) \/ ReapLook(s) \/ Pause(s) \/ \E r \in Starters : Claim(r, s) PROVE orderly
  BY <1>1 DEF Reap, ReapLook, Pause, Claim
<1>2. ReapWrite \/ ApiRestart \/ UNCHANGED vars => orderly
  BY DEF ReapWrite, ApiRestart, vars
<1>3. ASSUME NEW r \in Starters, Start(r) PROVE orderly
  BY <1>3 DEF Start, RecordPid, RecordChild, StartFails, Spawn
<1>4. ASSUME NEW w \in Workers, \/ Activate(w) \/ Load(w) \/ Reset(w) \/ GoLive(w) \/ Count(w) \/ Conclude(w)
                               \/ Interrupt(w) \/ WorkerFails(w) \/ Crash(w)
      PROVE  orderly
  BY <1>4 DEF Activate, Load, Reset, GoLive, Count, Conclude, Interrupt, WorkerFails, Crash
<1>5. ASSUME NEW w \in Workers, NEW l \in Lanes, LaneStep(w, l) PROVE orderly
  BY <1>5 DEF LaneStep, Take, Mark, SolverTrial, Look, Insert, Settle, Save, Halt
<1> QED BY <1>1, <1>2, <1>3, <1>4, <1>5 DEF Next, Work

\* In an orderly state a case row is written by a live worker in its reset or its two phases, and
\* no other worker is alive.
LEMMA CaseWriters ==
  ASSUME TypeInv, LaneInv, OrderInv, orderly, [Next]_vars, NEW w \in Workers, Alive(w)
  PROVE  \/ cases'[Study(w)] = cases[Study(w)]
         \/ workers[w].pc = "resetting" /\ Reset(w)
         \/ workers[w].pc \in {"solver", "live"} /\ \E l \in Lanes : Mark(w, l) \/ Save(w, l)
<1>0. cases \in [Studies -> [Cases -> {"pending", "running", "finished"}]]
  BY DEF TypeInv, TypeOK
<1>1. ASSUME NEW v \in Workers, Reset(v) \/ \E l \in Lanes : Mark(v, l) \/ Save(v, l)
      PROVE  v = w
  <2>1. Alive(v)
    BY <1>1 DEF Reset, Mark, Save, Alive
  <2> QED BY <2>1, OneAlive
<1>2. Reset(w) => workers[w].pc = "resetting"
  BY DEF Reset
<1>3. ASSUME NEW l \in Lanes, Mark(w, l) \/ Save(w, l) PROVE workers[w].pc \in {"solver", "live"}
  BY <1>3 DEF Mark, Save, LaneInv
<1> QED BY <1>0, <1>1, <1>2, <1>3, StepKinds

\* A queue only ever holds unfinished cases: a reload queues those, a lane takes its case out
\* before it runs, and no other worker is there to finish one of them.
LEMMA QueueNext == TypeInv /\ LaneInv /\ OrderInv /\ QueueInv /\ [Next]_vars => QueueInv'
<1> SUFFICES ASSUME TypeInv, LaneInv, OrderInv, QueueInv, [Next]_vars, orderly', NEW w \in Workers
             PROVE  (/\ workers[w].pc \in {"resetting", "solver", "live"} => \A c \in workers[w].queue : Unfinished(w, c)
                     /\ workers[w].pc = "resetting" => workers[w].reset \subseteq workers[w].queue
                     /\ \A l \in Lanes : Job(w, l).step = "start" => Unfinished(w, Job(w, l).case))'
  BY DEF QueueInv
<1> DEFINE pc == workers'[w].pc
           row == cases'[workers'[w].study]
           Kept == /\ pc \in {"resetting", "solver", "live"} => \A c \in workers'[w].queue : row[c] # "finished"
                   /\ pc = "resetting" => workers'[w].reset \subseteq workers'[w].queue
                   /\ \A l \in Lanes : workers'[w].lanes[l].step = "start" => row[workers'[w].lanes[l].case] # "finished"
<1> SUFFICES Kept
  BY DEF Unfinished, Job, Study
<1>o. orderly
  BY OrderlyBefore
<1>t. /\ workers \in [Workers -> Worker] /\ Lanes = {1, 2}
      /\ cases \in [Studies -> [Cases -> {"pending", "running", "finished"}]]
      /\ workers[w].queue \subseteq Cases /\ workers[w].reset \subseteq Cases
      /\ Alive(w) => Study(w) \in Studies
  BY DEF TypeInv, TypeOK, Worker, WorkerInv, Alive, Lanes
<1>0. /\ workers[w].pc \in {"resetting", "solver", "live"} => \A c \in workers[w].queue : cases[Study(w)][c] # "finished"
      /\ workers[w].pc = "resetting" => workers[w].reset \subseteq workers[w].queue
      /\ \A l \in Lanes : Job(w, l).step = "start" => cases[Study(w)][Job(w, l).case] # "finished"
  BY <1>o DEF QueueInv, Unfinished
<1>l. pc \notin {"solver", "live"} => \A l \in Lanes : workers'[w].lanes[l].step # "start"
  BY LaneNext DEF LaneInv, Job
<1>x. ASSUME pc \notin {"resetting", "solver", "live"} PROVE Kept
  BY <1>l, <1>x
<1>k. ASSUME workers[w].pc \in {"resetting", "solver", "live"}, cases'[Study(w)] = cases[Study(w)],
             pc \in {workers[w].pc, "solver", "live"},
             workers'[w].study = workers[w].study, workers'[w].queue \subseteq workers[w].queue,
             pc = "resetting" => workers'[w].reset \subseteq workers'[w].queue,
             \A l \in Lanes : workers'[w].lanes[l].step = "start" =>
               workers'[w].lanes[l] = workers[w].lanes[l] \/ workers'[w].lanes[l].case \in workers[w].queue
      PROVE  Kept
  BY <1>0, <1>k DEF Study, Job
<1>1. ASSUME NEW l \in Lanes, Mark(w, l), workers[w].pc \in {"solver", "live"} PROVE Kept
  <2>1. cases' = [cases EXCEPT ![Study(w)][Job(w, l).case] = "running"]
    BY <1>1 DEF Mark
  <2>2. \A c : cases[Study(w)][c] # "finished" => cases'[Study(w)][c] # "finished"
    BY <1>t, <1>1, <2>1 DEF Alive
  <2>3. PICK lane : SetLane(w, l, lane) /\ lane.step # "start"
    BY <1>1, OnWithCase
  <2>4. /\ pc = workers[w].pc /\ workers'[w].study = Study(w) /\ workers'[w].queue = workers[w].queue
        /\ workers'[w].lanes[l].step # "start"
        /\ \A m \in Lanes \ {l} : workers'[w].lanes[m] = Job(w, m)
    BY <2>3, LaneWent DEF Study, Job
  <2> QED BY <1>0, <1>1, <2>2, <2>4
<1>2. ASSUME NEW l \in Lanes, Save(w, l), workers[w].pc \in {"solver", "live"} PROVE Kept
  <2>1. cases' = [cases EXCEPT ![Study(w)][Job(w, l).case] = "finished"] /\ Job(w, l).step = "save" /\ ~Held(w, l)
    BY <1>2 DEF Save
  <2>2. Job(w, l).case \notin workers[w].queue
    BY <2>1 DEF LaneInv
  <2>3. \A c : c # Job(w, l).case => cases'[Study(w)][c] = cases[Study(w)][c]
    BY <1>t, <1>2, <2>1 DEF Alive
  <2>4. /\ pc = workers[w].pc /\ workers'[w].study = Study(w) /\ workers'[w].queue = workers[w].queue
        /\ workers'[w].lanes[l].step # "start"
        /\ \A m \in Lanes \ {l} : workers'[w].lanes[m] = Job(w, m)
    BY <1>2, Saved DEF Study, Job
  <2>5. \A m \in Lanes \ {l} : workers'[w].lanes[m].step # "start"
    BY <2>1, <2>4 DEF Held
  <2> QED BY <1>0, <1>2, <2>2, <2>3, <2>4, <2>5
<1>3. ASSUME Reset(w) PROVE Kept
  <2>1. ASSUME NEW c \in workers[w].reset, cases' = [cases EXCEPT ![Study(w)][c] = "pending"],
               workers' = [workers EXCEPT ![w].reset = @ \ {c}]
        PROVE  Kept
    <3>1. \A d : cases[Study(w)][d] # "finished" => cases'[Study(w)][d] # "finished"
      BY <1>t, <1>3, <2>1 DEF Reset, Alive
    <3>2. /\ pc = "resetting" /\ workers'[w].study = Study(w) /\ workers'[w].queue = workers[w].queue
          /\ workers'[w].reset \subseteq workers[w].reset
      BY <1>t, <1>3, <2>1 DEF Reset, Worker, Study
    <3> QED BY <1>0, <1>3, <1>l, <3>1, <3>2 DEF Reset
  <2>2. CASE Goto(w, "solver") /\ UNCHANGED cases
    BY <1>3, <1>k, <2>2, Went DEF Reset
  <2> QED BY <1>3, <2>1, <2>2 DEF Reset
<1>4. CASE Load(w)
  <2>1. UNCHANGED cases
    BY <1>4 DEF Load
  <2> QED BY <1>4, <1>l, <2>1, Loaded DEF Study
<1> HIDE DEF Kept
<1>u. CASE cases'[Study(w)] = cases[Study(w)]
  <2>1. ASSUME NEW l \in Lanes, LaneStep(w, l) PROVE Kept
    <3>0. workers[w].pc \in {"solver", "live"}
      BY <2>1 DEF LaneStep, LaneInv, Take, Open, Mark, SolverTrial, Look, Insert, Settle, Save, Halt
    <3>1. CASE Take(w, l)
      <4>1. PICK c \in workers[w].queue, lane \in Lane :
              /\ pc = workers[w].pc /\ workers'[w].study = workers[w].study
              /\ workers'[w].queue = workers[w].queue \ {c} /\ workers'[w].lanes[l] = lane
              /\ \A m \in Lanes \ {l} : workers'[w].lanes[m] = workers[w].lanes[m]
              /\ lane.step = "returned" \/ (lane.step = "start" /\ lane.case = c)
        BY <3>1, Taken
      <4> QED BY <1>k, <1>u, <3>0, <4>1
    <3>2. CASE Save(w, l)
      BY <1>2, <3>0, <3>2
    <3>3. CASE ~Take(w, l) /\ ~Save(w, l)
      <4>1. PICK lane : SetLane(w, l, lane) /\ lane.step # "start"
        BY <2>1, <3>3, OnWithCase DEF LaneStep
      <4> QED BY <1>k, <1>u, <3>0, <4>1, LaneWent
    <3> QED BY <3>1, <3>2, <3>3
  <2>2. CASE GoLive(w)
    <3>1. workers' = [workers EXCEPT ![w].pc = "live", ![w].lanes = [m \in Lanes |-> IdleLane]] /\ workers[w].pc = "solver"
      BY <2>2 DEF GoLive
    <3>2. /\ pc = "live" /\ workers'[w].study = workers[w].study /\ workers'[w].queue = workers[w].queue
          /\ \A l \in Lanes : workers'[w].lanes[l].step = "idle"
      BY <1>t, <3>1 DEF Worker, IdleLane
    <3> QED BY <1>k, <1>u, <3>1, <3>2
  <2>3. CASE workers'[w] = workers[w]
    <3>1. CASE workers[w].pc \in {"resetting", "solver", "live"}
      BY <1>0, <1>k, <1>u, <2>3, <3>1
    <3>2. CASE workers[w].pc \notin {"resetting", "solver", "live"}
      BY <1>x, <2>3, <3>2
    <3> QED BY <3>1, <3>2
  <2>4. ASSUME NEW r \in Starters, Spawn(r, w) PROVE Kept
    <3>1. pc = "spawned"
      BY <1>t, <2>4 DEF Spawn, Worker
    <3> QED BY <1>x, <3>1
  <2>5. CASE Exit(w)
    BY <1>t, <1>x, <2>5, Left
  <2>6. CASE Activate(w) \/ Count(w)
    <3>1. Exit(w) \/ Goto(w, "loading") \/ Goto(w, "open") \/ Goto(w, "done")
      BY <2>6 DEF Activate, Count
    <3> QED BY <1>x, <2>5, <3>1, Went
  <2>7. CASE WorkerFails(w)
    <3>1. pc = "failing"
      BY <1>t, <2>7 DEF WorkerFails, Worker
    <3> QED BY <1>x, <3>1
  <2>8. Conclude(w) \/ Interrupt(w) \/ Crash(w) => Exit(w)
    BY DEF Conclude, Interrupt, Crash
  <2> QED BY <1>3, <1>4, <2>1, <2>2, <2>3, <2>4, <2>5, <2>6, <2>7, <2>8, OwnStep DEF Work
<1>n. CASE ~Alive(w)
  <2>1. workers[w].pc \in {"none", "exited"}
    BY <1>n DEF Alive
  <2>2. pc \in {"none", "spawned", "exited"}
    <3>1. (\E r \in Starters : Spawn(r, w)) \/ workers'[w] = workers[w]
      BY <1>n, <2>1, WorkerSteps, OwnStep DEF WorkerStep
    <3>2. ASSUME NEW r \in Starters, Spawn(r, w) PROVE pc = "spawned"
      BY <1>t, <3>2 DEF Spawn, Worker
    <3> QED BY <2>1, <3>1, <3>2
  <2> QED BY <1>x, <2>2
<1> QED BY <1>o, <1>1, <1>2, <1>3, <1>u, <1>n, CaseWriters

\* Between a worker's count and its last write nobody is there to start a case again.
LEMMA DoneNext == TypeInv /\ LaneInv /\ OrderInv /\ DoneInv /\ [Next]_vars => DoneInv'
<1> SUFFICES ASSUME TypeInv, LaneInv, OrderInv, DoneInv, [Next]_vars, orderly',
                    NEW w \in Workers, workers'[w].pc = "done", NEW c \in Cases
             PROVE  cases'[workers'[w].study][c] = "finished"
  BY DEF DoneInv, Unfinished, Study
<1>t. workers \in [Workers -> Worker]
  BY DEF TypeInv, TypeOK
<1>o. orderly
  BY OrderlyBefore
<1>1. CASE Count(w)
  <2>1. Goto(w, IF \E d \in Cases : cases[Study(w)][d] # "finished" THEN "open" ELSE "done") /\ UNCHANGED cases
    BY <1>1 DEF Count
  <2>2. workers'[w].study = Study(w) /\ \A d \in Cases : cases[Study(w)][d] = "finished"
    BY <2>1, Went DEF Study
  <2> QED BY <2>1, <2>2
<1>2. CASE workers'[w] = workers[w]
  <2>1. workers[w].pc = "done" /\ workers'[w].study = Study(w)
    BY <1>2 DEF Study
  <2>2. cases'[Study(w)] = cases[Study(w)]
    BY <1>o, <2>1, CaseWriters DEF Alive
  <2> QED BY <1>o, <2>1, <2>2 DEF DoneInv, Unfinished
<1>3. ASSUME NEW r \in Starters, Spawn(r, w) PROVE FALSE
  BY <1>t, <1>3 DEF Spawn, Worker
<1>4. CASE Exit(w)
  BY <1>t, <1>4, Left
<1>5. ASSUME NEW l \in Lanes, LaneStep(w, l) PROVE FALSE
  <2>1. workers[w].pc \in {"solver", "live"}
    BY <1>5 DEF LaneStep, LaneInv, Take, Open, Mark, SolverTrial, Look, Insert, Settle, Save, Halt
  <2>2. workers'[w].pc = workers[w].pc
    BY <1>5, Taken, Saved, OnWithCase, LaneWent DEF LaneStep
  <2> QED BY <2>1, <2>2
<1>6. CASE Reset(w)
  <2>1. ASSUME NEW d \in workers[w].reset, workers' = [workers EXCEPT ![w].reset = @ \ {d}] PROVE FALSE
    BY <1>t, <1>6, <2>1 DEF Reset, Worker
  <2> QED BY <1>6, <2>1, Went DEF Reset
<1>7. Load(w) => FALSE
  BY Loaded
<1>8. GoLive(w) \/ WorkerFails(w) => FALSE
  BY <1>t DEF GoLive, WorkerFails, Worker
<1>9. Activate(w) => Exit(w) \/ Goto(w, "loading")
  BY DEF Activate
<1>10. Conclude(w) \/ Interrupt(w) \/ Crash(w) => Exit(w)
  BY DEF Conclude, Interrupt, Crash
<1> QED BY <1>1, <1>2, <1>3, <1>4, <1>5, <1>6, <1>7, <1>8, <1>9, <1>10, OwnStep, Went DEF Work

\* From the first state on, lanes, starts and queues are in order.
LEMMA Ordered == Spec => [](TypeInv /\ LaneInv /\ OrderInv /\ QueueInv /\ DoneInv)
<1>1. Init => LaneInv /\ OrderInv /\ QueueInv /\ DoneInv
  <2> SUFFICES ASSUME Init PROVE LaneInv /\ OrderInv /\ QueueInv /\ DoneInv
    OBVIOUS
  <2>1. \A w \in Workers : ~Alive(w) /\ workers[w].pc = "none" /\ \A l \in Lanes : Job(w, l).step = "idle"
    BY DEF Init, NoWorker, IdleLane, Alive, Job
  <2>2. /\ reaper = Null
        /\ \A s \in Studies : state[s] \notin Running /\ pid[s] = Null /\ handles[s] = Null
        /\ \A r \in Starters : starts[r] = Null
    BY DEF Init, Running
  <2> QED BY <2>1, <2>2, ResearchNullAssumption DEF LaneInv, OrderInv, QueueInv, DoneInv
<1>2. Spec => []TypeInv
  BY Typed
<1> QED BY <1>1, <1>2, LaneNext, OrderNext, QueueNext, DoneNext, PTL DEF Spec

\* docs/studio-research.md, "one study may execute at a time": true for any number of studies,
\* workers and requests as long as starts are orderly, whatever dies or is paused meanwhile
\* (the claim's transaction, the recorded child and the polls of studio_research.py).
THEOREM OrderlyStudies == Spec => []OrderlyStartsExecuteOne
<1> DEFINE Busy == {w \in Workers : workers[w].pc \in Executing}
<1>1. TypeInv /\ OrderInv => OrderlyStartsExecuteOne
  <2> SUFFICES ASSUME TypeInv, OrderInv, orderly PROVE Cardinality(Busy) <= 1
    BY DEF OrderlyStartsExecuteOne, OneStudyExecutes
  <2>1. \A v \in Busy : v \in Workers /\ Alive(v)
    BY DEF Executing, Alive
  <2> HIDE DEF Busy
  <2>2. CASE Busy = {}
    BY <2>2, FS_EmptySet
  <2>3. ASSUME NEW w \in Busy PROVE Cardinality(Busy) <= 1
    <3>1. Busy = {w}
      BY <2>1, <2>3, OneAlive
    <3>2. Cardinality({w}) = 1
      BY FS_Singleton
    <3> QED BY <3>1, <3>2
  <2> QED BY <2>2, <2>3
<1> QED BY <1>1, Ordered, PTL

\* "Resume never repeats finished cases": in an orderly state no step takes up a case that has
\* a stored result (load's query and resets, the lanes' queue and save's transaction in worker.py).
THEOREM ResumeRepeatsNothing == Spec => FinishedStaysFinished
<1> DEFINE Stays == orderly => \A s \in Studies : \A c \in Cases :
                      cases[s][c] = "finished" => cases'[s][c] = "finished"
<1>1. TypeInv /\ LaneInv /\ OrderInv /\ QueueInv /\ [Next]_vars => Stays
  <2> SUFFICES ASSUME TypeInv, OrderInv, QueueInv, [Next]_vars, orderly,
                      NEW s \in Studies, NEW c \in Cases, cases[s][c] = "finished"
               PROVE  cases'[s][c] = "finished"
    OBVIOUS
  <2>t. cases \in [Studies -> [Cases -> {"pending", "running", "finished"}]]
    BY DEF TypeInv, TypeOK
  <2>1. ASSUME NEW w \in Workers, Reset(w) PROVE cases'[s][c] = "finished"
    <3>1. ASSUME NEW d \in workers[w].reset, cases' = [cases EXCEPT ![Study(w)][d] = "pending"]
          PROVE  cases'[s][c] = "finished"
      <4>1. cases[Study(w)][d] # "finished"
        BY <2>1, <3>1 DEF Reset, QueueInv, Unfinished
      <4> QED BY <2>t, <3>1, <4>1
    <3> QED BY <2>1, <3>1 DEF Reset
  <2>2. ASSUME NEW w \in Workers, NEW l \in Lanes, Mark(w, l) PROVE cases'[s][c] = "finished"
    <3>1. /\ cases' = [cases EXCEPT ![Study(w)][Job(w, l).case] = "running"]
          /\ cases[Study(w)][Job(w, l).case] # "finished"
      BY <2>2 DEF Mark, QueueInv, Unfinished
    <3> QED BY <2>t, <3>1
  <2>3. ASSUME NEW w \in Workers, NEW l \in Lanes, Save(w, l) PROVE cases'[s][c] = "finished"
    BY <2>t, <2>3 DEF Save
  <2> QED BY <2>1, <2>2, <2>3, StepKinds
<1>2. TypeInv /\ LaneInv /\ OrderInv /\ QueueInv /\ DoneInv /\ [Next]_vars => [Stays]_vars
  BY <1>1
<1> QED BY <1>2, Ordered, PTL DEF Spec, FinishedStaysFinished

\* Only a worker whose count found every case finished completes its study, and a complete study has no
\* live worker.
LEMMA CompleteNext ==
  TypeInv /\ LaneInv /\ OrderInv /\ DoneInv /\ CompleteIsComplete /\ [Next]_vars => CompleteIsComplete'
<1> SUFFICES ASSUME TypeInv, LaneInv, OrderInv, DoneInv, CompleteIsComplete, [Next]_vars, orderly',
                    NEW s \in Studies, state'[s] = "complete", NEW c \in Cases
             PROVE  cases'[s][c] = "finished"
  BY DEF CompleteIsComplete
<1>t. /\ state \in [Studies -> States]
      /\ cases \in [Studies -> [Cases -> {"pending", "running", "finished"}]]
      /\ \A w \in Workers : Alive(w) => Study(w) \in Studies
  BY DEF TypeInv, TypeOK, WorkerInv, Alive
<1>o. orderly
  BY OrderlyBefore
<1>1. CASE UNCHANGED cases /\ state[s] = "complete"
  BY <1>o, <1>1 DEF CompleteIsComplete
<1>2. ASSUME NEW w \in Workers, Conclude(w) PROVE cases'[s][c] = "finished"
  <2>1. /\ state' = [state EXCEPT ![Study(w)] = IF workers[w].pc = "open" THEN "paused" ELSE "complete"]
        /\ workers[w].pc \in {"open", "done"} /\ UNCHANGED cases
    BY <1>2 DEF Conclude
  <2>2. CASE s = Study(w)
    <3>1. workers[w].pc = "done"
      BY <1>t, <2>1, <2>2
    <3> QED BY <1>o, <2>1, <2>2, <3>1 DEF DoneInv, Unfinished
  <2>3. CASE s # Study(w)
    <3>1. state'[s] = state[s]
      BY <1>t, <2>1, <2>3
    <3> QED BY <1>1, <2>1, <3>1
  <2> QED BY <2>2, <2>3
<1>3. ASSUME NEW w \in Workers, (\E l \in Lanes : Mark(w, l) \/ Save(w, l)) \/ Reset(w)
      PROVE  cases'[s][c] = "finished"
  <2>1. Alive(w) /\ UNCHANGED state
    BY <1>3 DEF Mark, Save, Reset, Alive
  <2>4. PICK d, to : cases' = [cases EXCEPT ![Study(w)][d] = to] \/ UNCHANGED cases
    BY <1>3 DEF Mark, Save, Reset
  <2>2. s # Study(w)
    BY <1>o, <2>1 DEF OrderInv, Running
  <2>3. cases'[s] = cases[s]
    BY <1>t, <2>2, <2>4
  <2> QED BY <1>o, <2>1, <2>3 DEF CompleteIsComplete
<1>4. ASSUME NEW t \in Studies, Reap(t) \/ Pause(t) \/ \E r \in Starters : Claim(r, t) PROVE state[s] = "complete"
  BY <1>t, <1>4 DEF Reap, Pause, Claim
<1>5. ReapWrite => state[s] = "complete"
  BY <1>t DEF ReapWrite
<1>6. ASSUME NEW r \in Starters, StartFails(r) PROVE state[s] = "complete"
  BY <1>t, <1>6 DEF StartFails
<1>7. ASSUME NEW w \in Workers, Activate(w) \/ Interrupt(w) \/ \E l \in Lanes : Halt(w, l) PROVE state[s] = "complete"
  BY <1>t, <1>7 DEF Activate, Interrupt, Halt
<1> QED BY <1>1, <1>2, <1>3, <1>4, <1>5, <1>6, <1>7, StepKinds

\* A study is complete only when every case has a stored result: with orderly starts nobody starts a case between
\* the count and the last write of its worker (worker.py:161, :162), or takes a complete study up.
THEOREM CompleteIsTrue == Spec => []CompleteIsComplete
<1>1. Init => CompleteIsComplete
  BY DEF Init, CompleteIsComplete
<1> QED BY <1>1, CompleteNext, Ordered, PTL DEF Spec
=============================================================================
