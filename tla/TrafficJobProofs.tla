-------------------------- MODULE TrafficJobProofs --------------------------
(***************************************************************************)
(* Proofs about TrafficJob for every number of jobs, UEs, requests served  *)
(* side by side, and faults.                                               *)
(***************************************************************************)
EXTENDS TrafficJob, TLAPS

\* The records and functions from which the actions build new values are in
\* their domains.
LEMMA ValueTypes ==
    /\ IdleHandler \in [pc : HandlerPcs, ues : SUBSET UEs, jobs : SUBSET Jobs]
    /\ Served \in [pc : HandlerPcs, ues : SUBSET UEs, jobs : SUBSET Jobs]
    /\ Served.pc = "served" /\ Served.jobs = {}
    /\ NoWorker \in [pc : WorkerPcs, seen : Statuses]
    /\ [pc |-> "begin", seen |-> "NONE"] \in [pc : WorkerPcs, seen : Statuses]
    /\ \A S : WithStatus(S) \in SUBSET Jobs
BY DEF IdleHandler, Served, NoWorker, HandlerPcs, WorkerPcs, Statuses, WithStatus

\* A bulk change of rows to a known status keeps the rows in their domain.
LEMMA MovedTyped ==
    ASSUME TypeOK, NEW J, NEW status \in Statuses
    PROVE  Moved(J, status) \in [Jobs -> Statuses]
BY DEF TypeOK, Moved

\* A signal leaves a helper that is not alive as it is, and never revives one.
LEMMA InterruptedTyped ==
    ASSUME NEW state \in {"none"} \cup Alive \cup Dead
    PROVE  /\ Interrupted(state) \in {"none"} \cup Alive \cup Dead
           /\ Interrupted(state) \in Alive => state \in Alive
           /\ Interrupted(state) = "none" <=> state = "none"
BY DEF Interrupted, Alive, Dead

\* The same of signals to a set of jobs.
LEMMA SignalledTyped ==
    ASSUME TypeOK, NEW J
    PROVE  /\ Signalled(J) \in [Jobs -> {"none"} \cup Alive \cup Dead]
           /\ \A j \in Jobs : Signalled(J)[j] \in Alive => helper[j] \in Alive
           /\ \A j \in Jobs : Signalled(J)[j] = "none" <=> helper[j] = "none"
<1> SUFFICES ASSUME NEW j \in Jobs
             PROVE  /\ Signalled(J)[j] \in {"none"} \cup Alive \cup Dead
                    /\ Signalled(J)[j] \in Alive => helper[j] \in Alive
                    /\ Signalled(J)[j] = "none" <=> helper[j] = "none"
    BY DEF Signalled
<1>1. helper[j] \in {"none"} \cup Alive \cup Dead
    BY DEF TypeOK
<1>2. CASE j \in J
    BY <1>1, <1>2, InterruptedTyped DEF Signalled
<1>3. CASE j \notin J
    BY <1>1, <1>3 DEF Signalled
<1>4. QED
    BY <1>2, <1>3

\* And of one loop of send_signal, with what it records.
LEMMA SendTyped ==
    ASSUME TypeOK, NEW J, NEW S, SendSignals(J, S)
    PROVE  /\ helper' \in [Jobs -> {"none"} \cup Alive \cup Dead]
           /\ \A j \in Jobs : helper'[j] \in Alive => helper[j] \in Alive
           /\ \A j \in Jobs : helper'[j] = "none" <=> helper[j] = "none"
           /\ missed \subseteq missed' /\ missed' \in SUBSET Jobs
           /\ faults' \in 0 .. MaxFaults
<1>1. helper' = Signalled(S)
    BY DEF SendSignals
<1>2. missed \subseteq missed' /\ missed' \in SUBSET Jobs
    BY DEF SendSignals, TypeOK
<1>3. faults' \in 0 .. MaxFaults
    BY MaxFaultsIsNat DEF SendSignals, TypeOK
<1>4. QED
    BY <1>1, <1>2, <1>3, SignalledTyped

------------------------------------------------------------------------------
(* Type correctness.                                                        *)

\* The request handlers keep every variable in its domain.
LEMMA RequestTyped ==
    ASSUME TypeOK, NEW h \in Handlers, RequestStep(h)
    PROVE  TypeOK'
<1> USE DEF stops, races
<1>1. ASSUME NEW ues \in SUBSET UEs, PostTraffic(h, ues)
      PROVE  TypeOK'
    BY <1>1 DEF PostTraffic, Arrives, TypeOK, HandlerPcs
<1>2. CASE CheckDuplicates(h)
    <2>1. handler' \in [Handlers -> [pc : HandlerPcs, ues : SUBSET UEs, jobs : SUBSET Jobs]]
        BY <1>2, ValueTypes DEF CheckDuplicates, TypeOK, HandlerPcs
    <2>2. QED
        BY <1>2, <2>1 DEF CheckDuplicates, TypeOK
<1>3. ASSUME NEW J \in SUBSET Jobs, InsertJobs(h, J)
      PROVE  TypeOK'
    <2>1. "QUEUED" \in Statuses
        BY DEF Statuses, Active
    <2>2. job' \in [Jobs -> Statuses]
        BY <1>3, <2>1, MovedTyped DEF InsertJobs
    <2>3. batch' \in [Jobs -> SUBSET Jobs]
        BY <1>3 DEF InsertJobs, TypeOK
    <2>4. worker' \in [Jobs -> [pc : WorkerPcs, seen : Statuses]]
        BY <1>3, ValueTypes DEF InsertJobs, TypeOK
    <2>5. handler' \in [Handlers -> [pc : HandlerPcs, ues : SUBSET UEs, jobs : SUBSET Jobs]]
        BY <1>3, ValueTypes DEF InsertJobs, TypeOK
    <2>6. since' \in [Handlers -> SUBSET Jobs] /\ raced' \in SUBSET Jobs
        BY <1>3 DEF InsertJobs, TypeOK
    <2>7. QED
        BY <1>3, <2>2, <2>3, <2>4, <2>5, <2>6 DEF InsertJobs, TypeOK
<1>4. ASSUME NEW j \in Jobs, PostStop(h, j)
      PROVE  TypeOK'
    BY <1>4 DEF PostStop, Arrives, TypeOK, HandlerPcs
<1>5. CASE PostStopAll(h)
    BY <1>5, ValueTypes DEF PostStopAll, Arrives, TypeOK, HandlerPcs
<1>6. CASE RequestStop(h)
    <2>1. "STOP_REQUESTED" \in Statuses
        BY DEF Statuses, Active
    <2>2. job' \in [Jobs -> Statuses]
        BY <1>6, <2>1, MovedTyped DEF RequestStop
    <2>3. handler[h].jobs \in SUBSET Jobs
        BY DEF TypeOK
    <2>4. QED
        BY <1>6, <2>2, <2>3 DEF RequestStop, TypeOK, HandlerPcs
<1>7. CASE SignalStop(h)
    <2>1. PICK S \in SUBSET handler[h].jobs : SendSignals(handler[h].jobs, S)
        BY <1>7 DEF SignalStop
    <2>2. QED
        BY <1>7, <2>1, SendTyped, ValueTypes DEF SignalStop, TypeOK
<1>8. QED
    BY <1>1, <1>2, <1>3, <1>4, <1>5, <1>6, <1>7 DEF RequestStep

\* The worker threads keep every variable in its domain.
LEMMA WorkerTyped ==
    ASSUME TypeOK, NEW j \in Jobs, WorkerStep(j)
    PROVE  TypeOK'
<1> USE DEF stops, races
<1>1. CASE LoadRow(j)
    <2>1. job[j] \in Statuses
        BY DEF TypeOK
    <2>2. worker' \in [Jobs -> [pc : WorkerPcs, seen : Statuses]]
        BY <1>1, <2>1 DEF LoadRow, TypeOK, WorkerPcs
    <2>3. QED
        BY <1>1, <2>2 DEF LoadRow, TypeOK
<1>2. CASE StopUnstarted(j)
    BY <1>2, ValueTypes DEF StopUnstarted, TypeOK, Statuses, Finished
<1>3. CASE MarkRunning(j)
    BY <1>3 DEF MarkRunning, WorkerAt, TypeOK, WorkerPcs, Statuses, Active
<1>4. CASE SpawnHelper(j)
    BY <1>4 DEF SpawnHelper, WorkerAt, TypeOK, WorkerPcs, Alive
<1>5. CASE RegisterProcess(j)
    BY <1>5 DEF RegisterProcess, WorkerAt, TypeOK, WorkerPcs
<1>6. CASE WritePayload(j)
    <2>1. worker' \in [Jobs -> [pc : WorkerPcs, seen : Statuses]]
        BY <1>6 DEF WritePayload, WorkerAt, TypeOK, WorkerPcs
    <2>2. QED
        BY <1>6, <2>1 DEF WritePayload, TypeOK
<1>7. CASE Reap(j)
    BY <1>7 DEF Reap, WorkerAt, TypeOK, WorkerPcs
<1>8. CASE FinishJob(j)
    <2>1. PICK status \in Statuses : job' = [job EXCEPT ![j] = status]
        BY <1>8 DEF FinishJob, Statuses, Finished
    <2>2. job' \in [Jobs -> Statuses]
        BY <2>1 DEF TypeOK
    <2>3. QED
        BY <1>8, <2>2, ValueTypes DEF FinishJob, TypeOK
<1>9. QED
    BY <1>1, <1>2, <1>3, <1>4, <1>5, <1>6, <1>7, <1>8 DEF WorkerStep

\* The helpers, the stop of the run and a restart keep every variable in its domain.
LEMMA OtherTyped ==
    ASSUME TypeOK, (\E j \in Jobs : HelperStep(j)) \/ RunStep \/ ManagerRestarts
    PROVE  TypeOK'
<1> USE DEF stops, races
<1>1. ASSUME NEW j \in Jobs, HelperStep(j)
      PROVE  TypeOK'
    <2>1. ASSUME NEW from, NEW to \in Alive \cup Dead, HelperMoves(j, from, to), UNCHANGED faults
          PROVE  TypeOK'
        BY <2>1 DEF HelperMoves, TypeOK
    <2>2. CASE SudoRefuses(j)
        <3>1. faults' \in 0 .. MaxFaults
            BY <2>2, MaxFaultsIsNat DEF SudoRefuses, TypeOK
        <3>2. QED
            BY <2>2, <3>1 DEF SudoRefuses, HelperMoves, TypeOK, Dead
    <2>3. CASE ClientEnds(j)
        BY <2>1, <2>3 DEF ClientEnds, Dead
    <2>4. CASE StartClient(j)
        BY <2>1, <2>4 DEF StartClient, Dead, Alive
    <2>5. CASE InstallSignals(j)
        BY <2>1, <2>5 DEF InstallSignals, Alive
    <2>6. CASE BadRequest(j)
        BY <2>1, <2>6 DEF BadRequest, Dead
    <2>7. QED
        BY <1>1, <2>2, <2>3, <2>4, <2>5, <2>6 DEF HelperStep
<1>2. CASE SweepRequest
    <2>1. "STOP_REQUESTED" \in Statuses
        BY DEF Statuses, Active
    <2>2. job' \in [Jobs -> Statuses]
        BY <1>2, <2>1, MovedTyped DEF SweepRequest
    <2>3. QED
        BY <1>2, <2>2, ValueTypes DEF SweepRequest, TypeOK
<1>3. CASE SweepSignal
    <2>1. PICK S \in SUBSET processes : SendSignals(Jobs, S)
        BY <1>3 DEF SweepSignal
    <2>2. run' \in {run, "STOP_FAILED"} /\ stopper' \in {"invoke", "idle"}
        BY <1>3 DEF SweepSignal
    <2>3. QED
        BY <1>3, <2>1, <2>2, SendTyped DEF SweepSignal, TypeOK
<1>4. CASE StackStopped
    BY <1>4 DEF StackStopped, TypeOK
<1>5. CASE ManagerRestarts
    <2>1. "INTERRUPTED" \in Statuses
        BY DEF Statuses
    <2>2. job' \in [Jobs -> Statuses]
        BY <1>5, <2>1, MovedTyped DEF ManagerRestarts
    <2>3. helper' \in [Jobs -> {"none"} \cup Alive \cup Dead]
        BY <1>5, SignalledTyped DEF ManagerRestarts, TypeOK
    <2>4. faults' \in 0 .. MaxFaults
        BY <1>5, MaxFaultsIsNat DEF ManagerRestarts, TypeOK
    <2>5. run' \in {"RUNNING", "STOPPING", "STOPPED", "STOP_FAILED", "LOST"}
        BY <1>5 DEF ManagerRestarts, TypeOK
    <2>6. /\ worker' \in [Jobs -> [pc : WorkerPcs, seen : Statuses]]
          /\ handler' \in [Handlers -> [pc : HandlerPcs, ues : SUBSET UEs, jobs : SUBSET Jobs]]
        BY <1>5, ValueTypes DEF ManagerRestarts
    <2>7. /\ processes' \in SUBSET Jobs /\ stopper' = "idle" /\ UNCHANGED <<batch, fed>>
          /\ asked' \in SUBSET Jobs /\ missed' \in SUBSET Jobs /\ raced' \in SUBSET Jobs
          /\ revived' \in SUBSET Jobs /\ since' \in [Handlers -> SUBSET Jobs]
        BY <1>5 DEF ManagerRestarts
    <2>8. QED
        BY <2>2, <2>3, <2>4, <2>5, <2>6, <2>7 DEF TypeOK
<1>6. CASE StopRun
    BY <1>6 DEF StopRun, TypeOK
<1>7. CASE LoseRun
    <2>1. "INTERRUPTED" \in Statuses
        BY DEF Statuses
    <2>2. job' \in [Jobs -> Statuses]
        BY <1>7, <2>1, MovedTyped DEF LoseRun
    <2>3. faults' \in 0 .. MaxFaults
        BY <1>7, MaxFaultsIsNat DEF LoseRun, TypeOK
    <2>4. QED
        BY <1>7, <2>2, <2>3 DEF LoseRun, TypeOK
<1>8. QED
    BY <1>1, <1>2, <1>3, <1>4, <1>5, <1>6, <1>7 DEF RunStep

\* Every step keeps every variable in its domain.
LEMMA StepTyped == TypeOK /\ [Next]_vars => TypeOK'
<1> USE DEF stops, races
<1> SUFFICES ASSUME TypeOK, [Next]_vars
             PROVE  TypeOK'
    OBVIOUS
<1>1. CASE UNCHANGED vars
    BY <1>1 DEF vars, TypeOK
<1>2. CASE Next
    BY <1>2, RequestTyped, WorkerTyped, OtherTyped DEF Next
<1>3. QED
    BY <1>1, <1>2

\* The initial state is well typed.
LEMMA InitTyped == Init => TypeOK
BY ValueTypes, MaxFaultsIsNat DEF Init, TypeOK, Statuses

\* Rows, threads, helpers and the registry are always in their domains.
THEOREM TypeCorrect == Spec => []TypeOK
BY InitTyped, StepTyped, PTL DEF Spec

------------------------------------------------------------------------------
(* A reported outcome is true, and every helper can be reached.             *)

\* The facts about one job that a step needs, without the types of the others.
LEMMA AgreesFrame ==
    ASSUME NEW j \in Jobs, JobAgrees(j),
           job'[j] = job[j], worker'[j] = worker[j], helper'[j] = helper[j],
           j \in processes => j \in processes', j \in asked' => j \in asked,
           \A h \in Handlers : j \in handler'[h].jobs => j \in handler[h].jobs
    PROVE  JobAgrees(j)'
BY DEF JobAgrees

\* The request handlers keep each job's row, thread and helper in agreement.
LEMMA RequestAgrees ==
    ASSUME JobInv, NEW h \in Handlers, RequestStep(h), NEW j \in Jobs
    PROVE  JobAgrees(j)'
<1> USE DEF stops, races
<1>1. JobAgrees(j) /\ TypeOK
    BY DEF JobInv
<1>2. ASSUME NEW ues \in SUBSET UEs, PostTraffic(h, ues)
      PROVE  JobAgrees(j)'
    BY <1>1, <1>2, AgreesFrame DEF PostTraffic, Arrives, TypeOK
<1>3. CASE CheckDuplicates(h)
    BY <1>1, <1>3, AgreesFrame DEF CheckDuplicates, TypeOK, IdleHandler, Served
<1>4. ASSUME NEW J \in SUBSET Jobs, InsertJobs(h, J)
      PROVE  JobAgrees(j)'
    <2>1. CASE j \in J
        <3>1. job[j] = "NONE" /\ job'[j] = "QUEUED" /\ worker'[j].pc = "begin"
            BY <1>4, <2>1, <1>1 DEF InsertJobs, WithStatus, Moved, TypeOK
        <3>2. helper'[j] = "none"
            BY <1>1, <1>4, <3>1 DEF InsertJobs, JobAgrees
        <3>3. QED
            BY <3>1, <3>2 DEF JobAgrees, Active, Alive
    <2>2. CASE j \notin J
        <3>1. job'[j] = job[j] /\ worker'[j] = worker[j]
            BY <1>4, <2>2, <1>1 DEF InsertJobs, Moved, TypeOK
        <3>2. QED
            BY <1>1, <1>4, <3>1, AgreesFrame DEF InsertJobs, TypeOK, IdleHandler, Served
    <2>3. QED
        BY <2>1, <2>2
<1>5. ASSUME NEW i \in Jobs, PostStop(h, i)
      PROVE  JobAgrees(j)'
    <2>1. CASE i = j
        BY <1>1, <1>5, <2>1 DEF PostStop, JobAgrees, TypeOK, Active
    <2>2. CASE i # j
        BY <1>1, <1>5, <2>2, AgreesFrame DEF PostStop, Arrives, TypeOK
    <2>3. QED
        BY <2>1, <2>2
<1>6. CASE PostStopAll(h)
    <2>1. CASE job[j] \in {"QUEUED", "RUNNING"}
        BY <1>1, <1>6, <2>1 DEF PostStopAll, JobAgrees, TypeOK, Active
    <2>2. CASE job[j] \notin {"QUEUED", "RUNNING"}
        BY <1>1, <1>6, <2>2, AgreesFrame DEF PostStopAll, Arrives, TypeOK, WithStatus
    <2>3. QED
        BY <2>1, <2>2
<1>7. CASE RequestStop(h)
    <2>1. /\ UNCHANGED <<worker, helper, processes>> /\ asked' = asked \cup handler[h].jobs
          /\ \A g \in Handlers : handler'[g].jobs = handler[g].jobs
        BY <1>1, <1>7 DEF RequestStop, TypeOK
    <2>2. CASE j \in handler[h].jobs
        <3>1. job'[j] = "STOP_REQUESTED"
            BY <1>7, <2>2 DEF RequestStop, Moved
        <3>2. QED
            BY <1>1, <2>1, <2>2, <3>1 DEF JobAgrees, Active
    <2>3. CASE j \notin handler[h].jobs
        <3>1. job'[j] = job[j]
            BY <1>7, <2>3 DEF RequestStop, Moved
        <3>2. QED
            BY <1>1, <2>1, <2>3, <3>1, AgreesFrame
    <2>4. QED
        BY <2>2, <2>3
<1>8. CASE SignalStop(h)
    <2>1. PICK S \in SUBSET handler[h].jobs : SendSignals(handler[h].jobs, S)
        BY <1>8 DEF SignalStop
    <2>2. /\ helper'[j] \in Alive => helper[j] \in Alive
          /\ helper'[j] = "none" <=> helper[j] = "none"
        BY <1>1, <2>1, SendTyped
    <2>3. UNCHANGED <<job, worker, processes, asked>>
          /\ \A g \in Handlers : j \in handler'[g].jobs => j \in handler[g].jobs
        BY <1>1, <1>8 DEF SignalStop, TypeOK, IdleHandler, Served
    <2>4. QED
        BY <1>1, <2>1, <2>2, <2>3 DEF JobAgrees
<1>9. QED
    BY <1>2, <1>3, <1>4, <1>5, <1>6, <1>7, <1>8 DEF RequestStep

\* So do the worker threads.
LEMMA WorkerAgreesStep ==
    ASSUME JobInv, NEW i \in Jobs, WorkerStep(i), NEW j \in Jobs
    PROVE  JobAgrees(j)'
<1> USE DEF stops, races
<1>1. JobAgrees(j) /\ TypeOK
    BY DEF JobInv
<1>2. CASE i # j
    <2>1. /\ job'[j] = job[j] /\ worker'[j] = worker[j] /\ helper'[j] = helper[j]
          /\ j \in processes => j \in processes'
          /\ UNCHANGED <<handler, asked>>
        BY <1>1, <1>2 DEF WorkerStep, TypeOK, WorkerAt, LoadRow, StopUnstarted, MarkRunning,
               SpawnHelper, RegisterProcess, WritePayload, Reap, FinishJob
    <2>2. QED
        BY <1>1, <2>1, AgreesFrame
<1>3. CASE i = j
    <2> USE <1>1, <1>3 DEF JobAgrees, TypeOK
    <2>1. CASE LoadRow(i)
        BY <2>1 DEF LoadRow
    <2>2. CASE StopUnstarted(i)
        BY <2>2 DEF StopUnstarted, NoWorker, Alive
    <2>3. CASE MarkRunning(i)
        BY <2>3 DEF MarkRunning, WorkerAt, Active
    <2>4. CASE SpawnHelper(i)
        BY <2>4 DEF SpawnHelper, WorkerAt, Active
    <2>5. CASE RegisterProcess(i)
        BY <2>5 DEF RegisterProcess, WorkerAt
    <2>6. CASE WritePayload(i)
        BY <2>6 DEF WritePayload, WorkerAt, Alive, Dead, Active
    <2>7. CASE Reap(i)
        BY <2>7 DEF Reap, WorkerAt, Alive, Dead
    <2>8. CASE FinishJob(i)
        BY <2>8 DEF FinishJob, NoWorker
    <2>9. QED
        BY <2>1, <2>2, <2>3, <2>4, <2>5, <2>6, <2>7, <2>8 DEF WorkerStep
<1>4. QED
    BY <1>2, <1>3

\* So do the helpers, the stop of the run and a restart.
LEMMA OtherAgrees ==
    ASSUME JobInv, NEW j \in Jobs,
           (\E i \in Jobs : HelperStep(i)) \/ RunStep \/ ManagerRestarts
    PROVE  JobAgrees(j)'
<1> USE DEF stops, races
<1>1. JobAgrees(j) /\ TypeOK
    BY DEF JobInv
<1>2. ASSUME NEW i \in Jobs, HelperStep(i)
      PROVE  JobAgrees(j)'
    <2>1. /\ helper'[j] \in Alive => helper[j] \in Alive
          /\ helper[j] = "none" => helper'[j] = "none"
          /\ helper'[j] = "none" => helper[j] = "none"
        BY <1>1, <1>2 DEF HelperStep, InstallSignals, BadRequest, StartClient, ClientEnds,
               SudoRefuses, HelperMoves, TypeOK, Alive
    <2>2. UNCHANGED <<job, worker, processes, handler, asked>>
        BY <1>2 DEF HelperStep, InstallSignals, BadRequest, StartClient, ClientEnds,
               SudoRefuses, HelperMoves
    <2>3. QED
        BY <1>1, <2>1, <2>2 DEF JobAgrees
<1>3. CASE SweepRequest
    <2>1. job'[j] = IF job[j] \in {"QUEUED", "RUNNING"} THEN "STOP_REQUESTED" ELSE job[j]
        BY <1>3 DEF SweepRequest, Moved, WithStatus
    <2>2. j \in asked' <=> j \in asked \/ job[j] \in {"QUEUED", "RUNNING"}
        BY <1>3 DEF SweepRequest, WithStatus
    <2>3. QED
        BY <1>1, <1>3, <2>1, <2>2 DEF SweepRequest, JobAgrees, Active
<1>4. CASE SweepSignal
    <2>1. PICK S \in SUBSET processes : SendSignals(Jobs, S)
        BY <1>4 DEF SweepSignal
    <2>2. /\ helper'[j] \in Alive => helper[j] \in Alive
          /\ helper'[j] = "none" <=> helper[j] = "none"
        BY <1>1, <2>1, SendTyped
    <2>3. QED
        BY <1>1, <1>4, <2>2 DEF SweepSignal, JobAgrees
<1>5. CASE StackStopped
    BY <1>1, <1>5, AgreesFrame DEF StackStopped
<1>6. CASE ManagerRestarts
    <2>1. /\ helper'[j] \in Alive => helper[j] \in Alive
          /\ helper[j] = "none" => helper'[j] = "none"
        BY <1>1, <1>6, SignalledTyped DEF ManagerRestarts
    <2>2. job'[j] = IF job[j] \in Active THEN "INTERRUPTED" ELSE job[j]
        BY <1>6 DEF ManagerRestarts, Moved, WithStatus
    <2>3. worker'[j].pc = "none" /\ asked' = {} /\ \A h \in Handlers : handler'[h].jobs = {}
        BY <1>6 DEF ManagerRestarts, NoWorker, IdleHandler, Served
    <2>4. QED
        BY <1>1, <2>1, <2>2, <2>3 DEF JobAgrees, Active
<1>7. CASE StopRun
    BY <1>1, <1>7, AgreesFrame DEF StopRun
<1>8. CASE LoseRun
    <2>1. UNCHANGED <<worker, helper, processes, asked, handler>>
        BY <1>8 DEF LoseRun
    <2>2. job'[j] = IF job[j] \in Active THEN "INTERRUPTED" ELSE job[j]
        BY <1>8 DEF LoseRun, Moved, WithStatus
    <2>3. QED
        BY <1>1, <2>1, <2>2 DEF JobAgrees, Active
<1>9. QED
    BY <1>2, <1>3, <1>4, <1>5, <1>6, <1>7, <1>8 DEF RunStep

\* JobInv is inductive.
LEMMA JobInvStep == JobInv /\ [Next]_vars => JobInv'
<1> SUFFICES ASSUME JobInv, [Next]_vars
             PROVE  JobInv'
    OBVIOUS
<1>1. TypeOK'
    BY StepTyped DEF JobInv
<1>2. ASSUME NEW j \in Jobs
      PROVE  JobAgrees(j)'
    <2>1. CASE UNCHANGED vars
        BY <2>1, AgreesFrame DEF vars, stops, JobInv
    <2>2. CASE Next
        BY <2>2, RequestAgrees, WorkerAgreesStep, OtherAgrees DEF Next
    <2>3. QED
        BY <2>1, <2>2
<1>3. QED
    BY <1>1, <1>2 DEF JobInv

\* It holds initially.
LEMMA JobInvInit == Init => JobInv
BY InitTyped DEF Init, JobInv, JobAgrees, NoWorker, IdleHandler, Alive

\* It implies both invariants the runs check.
LEMMA JobInvImplies == JobInv => FinalMeansNoHelper /\ HelperOwned
<1> SUFFICES ASSUME JobInv, NEW j \in Jobs, helper[j] \in Alive
             PROVE  /\ job[j] \notin Finished
                    /\ \/ worker[j].pc = "register"
                       \/ worker[j].pc \in {"write", "read"} /\ j \in processes
                       \/ worker[j].pc = "none" /\ job[j] = "INTERRUPTED"
    BY DEF FinalMeansNoHelper, HelperOwned, WithStatus
<1>1. JobAgrees(j) /\ worker[j].pc \in WorkerPcs
    BY DEF JobInv, TypeOK
<1>2. helper[j] # "none"
    BY DEF Alive
<1>3. worker[j].pc \in {"none", "register", "write", "read"}
    BY <1>1, <1>2 DEF JobAgrees, WorkerPcs
<1>4. QED
    BY <1>1, <1>3 DEF JobAgrees, Active, Finished

\* A reported outcome is true, and every helper that runs can be reached or is
\* reported INTERRUPTED, whatever stops, sweeps and restarts interleave.
THEOREM HelpersAccountedFor == Spec => [](FinalMeansNoHelper /\ HelperOwned)
<1>1. Spec => []JobInv
    BY JobInvInit, JobInvStep, PTL DEF Spec
<1>2. QED
    BY <1>1, JobInvImplies, PTL

\* Every helper that runs has a thread that will end it, or a row that says it
\* was interrupted.
THEOREM HelpersAreOwned == Spec => []HelperOwned
BY HelpersAccountedFor, PTL

------------------------------------------------------------------------------
(* Two batches of one UE.                                                   *)

\* Apart from an INSERT and a restart, a step makes no row active but those it
\* puts on record, and a handler about to insert has just seen that it may.
LEMMA ActiveStep ==
    ASSUME TypeOK, NEW h \in Handlers, RequestStep(h), \A J \in SUBSET Jobs : ~InsertJobs(h, J)
    PROVE  /\ UNCHANGED <<batch, since, raced>> /\ revived \subseteq revived'
           /\ \A j \in Jobs : job'[j] \in Active => job[j] \in Active \/ j \in revived'
           /\ \A g \in Handlers : handler'[g].pc = "insert" =>
                  \/ handler[g].pc = "insert" /\ handler'[g].ues = handler[g].ues
                  \/ UNCHANGED job /\ handler'[g].ues \cap UsedBy(WithStatus(Active)) = {}
<1> USE DEF stops, races
<1>1. CASE (\E ues \in SUBSET UEs \ {{}} : PostTraffic(h, ues)) \/ (\E j \in Jobs : PostStop(h, j))
           \/ PostStopAll(h)
    BY <1>1 DEF PostTraffic, PostStop, PostStopAll, TypeOK
<1>2. CASE CheckDuplicates(h)
    <2>1. UNCHANGED <<job, batch, since, raced, revived>>
        BY <1>2 DEF CheckDuplicates
    <2>2. \A g \in Handlers : g # h => handler'[g] = handler[g]
        BY <1>2 DEF CheckDuplicates, TypeOK
    <2>3. handler'[h].pc = "insert" => handler'[h].ues \cap UsedBy(WithStatus(Active)) = {}
        BY <1>2, ValueTypes DEF CheckDuplicates, TypeOK
    <2>4. QED
        BY <2>1, <2>2, <2>3
<1>3. CASE RequestStop(h)
    <2>1. /\ UNCHANGED <<batch, since, raced>>
          /\ revived' = revived \cup (handler[h].jobs \ WithStatus(Active))
        BY <1>3 DEF RequestStop
    <2>2. \A j \in Jobs : job'[j] = IF j \in handler[h].jobs THEN "STOP_REQUESTED" ELSE job[j]
        BY <1>3 DEF RequestStop, Moved
    <2>3. \A g \in Handlers : handler'[g].pc = "insert" => handler'[g] = handler[g]
        BY <1>3 DEF RequestStop, TypeOK
    <2>4. QED
        BY <2>1, <2>2, <2>3 DEF WithStatus
<1>4. CASE SignalStop(h)
    <2>1. UNCHANGED <<job, batch, since, raced, revived>>
        BY <1>4 DEF SignalStop
    <2>2. \A g \in Handlers : handler'[g].pc = "insert" => handler'[g] = handler[g]
        BY <1>4, ValueTypes DEF SignalStop, TypeOK
    <2>3. QED
        BY <2>1, <2>2
<1>5. QED
    BY <1>1, <1>2, <1>3, <1>4 DEF RequestStep

\* The same of the workers, the helpers and the stop of the run.
LEMMA ActiveOtherStep ==
    ASSUME TypeOK, (\E j \in Jobs : WorkerStep(j) \/ HelperStep(j)) \/ RunStep
    PROVE  /\ UNCHANGED <<batch, since, raced, handler>> /\ revived \subseteq revived'
           /\ \A j \in Jobs : job'[j] \in Active => job[j] \in Active \/ j \in revived'
<1> USE DEF stops, races
<1>1. ASSUME NEW i \in Jobs, WorkerStep(i)
      PROVE  /\ UNCHANGED <<batch, since, raced, handler>> /\ revived \subseteq revived'
             /\ \A j \in Jobs : job'[j] \in Active => job[j] \in Active \/ j \in revived'
    <2>1. CASE MarkRunning(i)
        BY <2>1 DEF MarkRunning, WithStatus, TypeOK
    <2>2. CASE StopUnstarted(i) \/ FinishJob(i)
        <3>1. UNCHANGED <<batch, since, raced, handler, revived>>
            BY <2>2 DEF StopUnstarted, FinishJob
        <3>2. \A j \in Jobs : job'[j] = job[j] \/ job'[j] \in Finished
            BY <2>2 DEF StopUnstarted, FinishJob, TypeOK, Finished
        <3>3. QED
            BY <3>1, <3>2 DEF Active, Finished
    <2>3. CASE LoadRow(i) \/ SpawnHelper(i) \/ RegisterProcess(i) \/ WritePayload(i) \/ Reap(i)
        BY <2>3 DEF LoadRow, SpawnHelper, RegisterProcess, WritePayload, Reap
    <2>4. QED
        BY <1>1, <2>1, <2>2, <2>3 DEF WorkerStep
<1>2. ASSUME NEW i \in Jobs, HelperStep(i)
      PROVE  UNCHANGED <<job, batch, since, raced, revived, handler>>
    BY <1>2 DEF HelperStep, InstallSignals, BadRequest, StartClient, ClientEnds, SudoRefuses,
           HelperMoves
<1>3. CASE RunStep
    <2>1. UNCHANGED <<batch, since, raced, revived, handler>>
        BY <1>3 DEF RunStep, StopRun, SweepRequest, SweepSignal, StackStopped, LoseRun
    <2>2. \A j \in Jobs : job'[j] = job[j] \/ job[j] \in Active
        BY <1>3 DEF RunStep, StopRun, SweepRequest, SweepSignal, StackStopped, LoseRun, Moved,
               WithStatus, Active
    <2>3. QED
        BY <2>1, <2>2 DEF Active
<1>4. QED
    BY <1>1, <1>2, <1>3

\* An INSERT keeps BatchInv: an active job of the UE that is not of the batch has
\* come since the check, or was brought back.
LEMMA InsertKeepsBatches ==
    ASSUME BatchInv, NEW h \in Handlers, NEW J \in SUBSET Jobs, InsertJobs(h, J), TypeOK'
    PROVE  BatchInv'
<1> USE DEF stops, races
<1>1. /\ handler[h].pc = "insert" /\ UsedBy(J) = handler[h].ues /\ revived' = revived
      /\ raced' = IF UsedBy(since[h]) \cap UsedBy(J) = {} THEN raced ELSE raced \cup J
      /\ since[h] \in SUBSET Jobs
    BY DEF InsertJobs, BatchInv, TypeOK
<1>2. \A j \in Jobs : /\ j \in J => UeOf[j] \in handler[h].ues /\ batch'[j] = J
                      /\ j \notin J => batch'[j] = batch[j] /\ job'[j] = job[j]
    BY <1>1 DEF InsertJobs, UsedBy, Moved, BatchInv, TypeOK
<1>3. ASSUME NEW i \in J, NEW j \in Jobs \ J, job[j] \in Active, UeOf[i] = UeOf[j]
      PROVE  i \in raced' \/ j \in revived'
    <2>1. j \in since[h] \cup revived
        BY <1>1, <1>2, <1>3 DEF BatchInv, WithStatus
    <2>2. CASE j \in since[h]
        <3>1. UeOf[i] \in UsedBy(since[h]) \cap UsedBy(J)
            BY <1>3, <2>2 DEF UsedBy
        <3>2. QED
            BY <1>1, <1>3, <3>1
    <2>3. QED
        BY <1>1, <2>1, <2>2
<1>4. OneBatchUnlessRaced'
    <2>1. SUFFICES ASSUME NEW i \in Jobs, NEW j \in Jobs, job'[i] \in Active, job'[j] \in Active,
                          UeOf[i] = UeOf[j]
                   PROVE  j \in batch'[i] \/ {i, j} \cap (raced' \cup revived') # {}
        BY DEF OneBatchUnlessRaced, WithStatus
    <2>2. CASE i \in J /\ j \in J
        BY <1>2, <2>2
    <2>3. CASE i \notin J /\ j \notin J
        BY <1>1, <1>2, <2>1, <2>3 DEF BatchInv, OneBatchUnlessRaced, WithStatus
    <2>4. CASE i \in J /\ j \notin J
        BY <1>2, <1>3, <2>1, <2>4
    <2>5. CASE i \notin J /\ j \in J
        BY <1>2, <1>3, <2>1, <2>5
    <2>6. QED
        BY <2>2, <2>3, <2>4, <2>5
<1>5. ASSUME NEW g \in Handlers, handler'[g].pc = "insert",
             NEW j \in Jobs, job'[j] \in Active, UeOf[j] \in handler'[g].ues
      PROVE  j \in since'[g] \cup revived'
    <2>1. g # h /\ handler'[g] = handler[g]
        BY <1>5, ValueTypes DEF InsertJobs, BatchInv, TypeOK
    <2>2. since'[g] = since[g] \cup J
        BY <1>5, <2>1 DEF InsertJobs
    <2>3. CASE j \in J
        BY <2>2, <2>3
    <2>4. CASE j \notin J
        BY <1>1, <1>2, <1>5, <2>1, <2>2, <2>4 DEF BatchInv, WithStatus
    <2>5. QED
        BY <2>3, <2>4
<1>6. QED
    BY <1>4, <1>5 DEF BatchInv, WithStatus

\* BatchInv is inductive, however many requests are served at once.
LEMMA BatchInvStep == BatchInv /\ [Next]_vars => BatchInv'
<1> SUFFICES ASSUME BatchInv, [Next]_vars
             PROVE  BatchInv'
    OBVIOUS
<1> USE DEF stops, races
<1>1. TypeOK /\ TypeOK'
    BY StepTyped DEF BatchInv
<1>2. CASE ManagerRestarts
    <2>1. \A j \in Jobs : job'[j] \notin Active
        BY <1>2 DEF ManagerRestarts, Moved, WithStatus, Active
    <2>2. \A h \in Handlers : handler'[h].pc # "insert"
        BY <1>2, ValueTypes DEF ManagerRestarts, IdleHandler
    <2>3. QED
        BY <1>1, <2>1, <2>2 DEF BatchInv, OneBatchUnlessRaced, WithStatus
<1>3. ASSUME UNCHANGED <<batch, since, raced>>, revived \subseteq revived',
             \A j \in Jobs : job'[j] \in Active => job[j] \in Active \/ j \in revived',
             \A g \in Handlers : handler'[g].pc = "insert" =>
                 \/ handler[g].pc = "insert" /\ handler'[g].ues = handler[g].ues
                 \/ UNCHANGED job /\ handler'[g].ues \cap UsedBy(WithStatus(Active)) = {}
      PROVE  BatchInv'
    <2>1. OneBatchUnlessRaced'
        BY <1>3 DEF BatchInv, OneBatchUnlessRaced, WithStatus
    <2>2. ASSUME NEW g \in Handlers, handler'[g].pc = "insert",
                 NEW j \in Jobs, job'[j] \in Active, UeOf[j] \in handler'[g].ues
          PROVE  j \in since'[g] \cup revived'
        <3>1. CASE handler[g].pc = "insert" /\ handler'[g].ues = handler[g].ues
            BY <1>3, <2>2, <3>1 DEF BatchInv, WithStatus
        <3>2. CASE UNCHANGED job /\ handler'[g].ues \cap UsedBy(WithStatus(Active)) = {}
            <4>1. UeOf[j] \in UsedBy(WithStatus(Active))
                BY <2>2, <3>2 DEF UsedBy, WithStatus
            <4>2. QED
                BY <2>2, <3>2, <4>1
        <3>3. QED
            BY <1>3, <2>2, <3>1, <3>2
    <2>3. QED
        BY <1>1, <2>1, <2>2 DEF BatchInv, WithStatus
<1>4. CASE UNCHANGED vars
    BY <1>3, <1>4 DEF vars
<1>5. ASSUME NEW h \in Handlers, RequestStep(h)
      PROVE  BatchInv'
    <2>1. CASE \E J \in SUBSET Jobs : InsertJobs(h, J)
        BY <1>1, <2>1, InsertKeepsBatches
    <2>2. CASE \A J \in SUBSET Jobs : ~InsertJobs(h, J)
        BY <1>1, <1>3, <1>5, <2>2, ActiveStep
    <2>3. QED
        BY <2>1, <2>2
<1>6. CASE (\E j \in Jobs : WorkerStep(j) \/ HelperStep(j)) \/ RunStep
    BY <1>1, <1>3, <1>6, ActiveOtherStep
<1>7. QED
    BY <1>2, <1>4, <1>5, <1>6 DEF Next

\* Two batches of a UE are active only if both requests were past the duplicate
\* check before either inserted, or a row was written back over its end.
THEOREM OneBatch == Spec => []OneBatchUnlessRaced
<1>1. Init => BatchInv
    BY InitTyped, ValueTypes DEF Init, BatchInv, OneBatchUnlessRaced, WithStatus, Active, IdleHandler
<1>2. BatchInv => OneBatchUnlessRaced
    BY DEF BatchInv
<1>3. QED
    BY <1>1, <1>2, BatchInvStep, PTL DEF Spec
------------------------------------------------------------------------------
(* Stops reach the helpers.                                                 *)

Unheard == {"early", "ready", "client"}

\* A job that a step leaves alone stays as it was.
LEMMA StopFrame ==
    ASSUME NEW j \in Jobs, StopAgrees(j), worker'[j] = worker[j],
           helper'[j] \in Unheard => helper[j] \in Unheard,
           worker[j].pc = "begin" /\ job[j] = "STOP_REQUESTED" =>
               job'[j] = "STOP_REQUESTED" \/ j \in missed',
           j \in missed =>
               \/ j \in missed'
               \/ Pending(j)' /\ (worker[j].pc = "begin" => job'[j] = "STOP_REQUESTED"),
           Pending(j) /\ worker[j].pc # "begin" =>
               \/ Pending(j)' \/ j \in missed'
               \/ /\ worker[j].pc \notin {"mark", "spawn", "register"}
                  /\ helper'[j] \notin Unheard
    PROVE  StopAgrees(j)'
BY DEF StopAgrees, Unheard

\* A signal leaves no helper unheard.
LEMMA SignalsAreHeard ==
    ASSUME NEW J, NEW S, SendSignals(J, S), NEW j \in Jobs
    PROVE  /\ helper'[j] \in Unheard => helper[j] \in Unheard /\ j \notin S
           /\ j \in J /\ j \in asked /\ worker[j].pc \in {"mark", "spawn", "register"} => j \in missed'
           /\ j \in J /\ j \in asked /\ j \in processes => j \in S \/ j \in missed'
BY DEF SendSignals, Signalled, Interrupted, Unheard

\* Behind both kinds of stop: when the signals have been sent, a stopped job is
\* on its way out, or on record as missed.
LEMMA SentAgrees ==
    ASSUME JobInv, NEW J, NEW S, SendSignals(J, S), NEW j \in asked, j \in J, StopAgrees(j),
           UNCHANGED <<worker, job>>
    PROVE  StopAgrees(j)'
<1>1. j \in Jobs /\ JobAgrees(j) /\ worker[j].pc \in WorkerPcs
    BY DEF JobInv, TypeOK
<1>2. missed \subseteq missed'
    BY DEF SendSignals
<1>3. CASE j \in missed'
    BY <1>3 DEF StopAgrees
<1>4. CASE worker[j].pc \in {"begin", "mark", "spawn", "register"} /\ j \notin missed'
    BY <1>1, <1>2, <1>4, SignalsAreHeard DEF StopAgrees
<1>5. CASE worker[j].pc \in {"write", "read"} /\ j \notin missed'
    <2>1. j \in S
        BY <1>1, <1>5, SignalsAreHeard DEF JobAgrees
    <2>2. helper'[j] \notin Unheard
        BY <1>1, <2>1, SignalsAreHeard
    <2>3. QED
        BY <1>5, <2>2 DEF StopAgrees, Unheard
<1>6. CASE worker[j].pc \in {"none", "reload", "finish"}
    <2>1. helper[j] \notin Alive
        BY <1>1, <1>6 DEF JobAgrees
    <2>2. helper'[j] \notin Unheard
        BY <1>1, <2>1, SignalsAreHeard DEF Unheard, Alive
    <2>3. QED
        BY <1>6, <2>2 DEF StopAgrees, Unheard
<1>7. QED
    BY <1>1, <1>3, <1>4, <1>5, <1>6 DEF WorkerPcs

\* The request handlers keep every stop on its way.
LEMMA RequestStops ==
    ASSUME StopInv, JobInv', NEW h \in Handlers, RequestStep(h), NEW j \in asked'
    PROVE  StopAgrees(j)'
<1> USE DEF stops, races
<1>1. /\ JobInv /\ TypeOK /\ j \in Jobs /\ (j \in asked => StopAgrees(j))
      /\ JobAgrees(j) /\ worker[j].pc \in WorkerPcs
    BY DEF StopInv, JobInv, TypeOK
<1>2. ASSUME UNCHANGED <<worker, helper, job, stops, stopper>>, handler[h].pc # "signal",
             \A g \in Handlers : g # h => handler'[g] = handler[g]
      PROVE  StopAgrees(j)'
    <2>1. j \in asked
        BY <1>2
    <2>2. Pending(j) => Pending(j)'
        BY <1>2 DEF Pending
    <2>3. QED
        BY <1>1, <1>2, <2>1, <2>2, StopFrame
<1>3. CASE (\E ues \in SUBSET UEs \ {{}} : PostTraffic(h, ues)) \/ CheckDuplicates(h)
           \/ (\E i \in Jobs : PostStop(h, i)) \/ PostStopAll(h)
    <2>1. /\ UNCHANGED <<worker, helper, job, stops, stopper>> /\ handler[h].pc # "signal"
          /\ \A g \in Handlers : g # h => handler'[g] = handler[g]
        BY <1>1, <1>3 DEF PostTraffic, CheckDuplicates, PostStop, PostStopAll, Arrives, TypeOK
    <2>2. QED
        BY <1>2, <2>1
<1>4. ASSUME NEW J \in SUBSET Jobs, InsertJobs(h, J)
      PROVE  StopAgrees(j)'
    <2>1. j \in asked /\ j \notin J
        BY <1>1, <1>4 DEF InsertJobs, WithStatus, JobAgrees
    <2>2. worker'[j] = worker[j] /\ job'[j] = job[j]
        BY <1>1, <1>4, <2>1 DEF InsertJobs, Moved, TypeOK
    <2>3. UNCHANGED <<helper, missed>> /\ (Pending(j) => Pending(j)')
        BY <1>1, <1>4 DEF InsertJobs, Pending, TypeOK
    <2>4. QED
        BY <1>1, <2>1, <2>2, <2>3, StopFrame
<1>5. CASE RequestStop(h)
    <2>1. /\ UNCHANGED <<worker, helper, stopper>> /\ handler[h].pc = "request"
          /\ handler'[h].pc = "signal" /\ handler'[h].jobs = handler[h].jobs
          /\ asked' = asked \cup handler[h].jobs /\ missed' = missed \ handler[h].jobs
          /\ \A g \in Handlers : g # h => handler'[g] = handler[g]
        BY <1>1, <1>5 DEF RequestStop, TypeOK
    <2>2. CASE j \in handler[h].jobs
        <3>1. job'[j] = "STOP_REQUESTED"
            BY <1>1, <1>5, <2>2 DEF RequestStop, Moved
        <3>2. Pending(j)'
            BY <2>1, <2>2 DEF Pending
        <3>3. QED
            BY <3>1, <3>2 DEF StopAgrees
    <2>3. CASE j \notin handler[h].jobs
        <3>1. j \in asked /\ job'[j] = job[j] /\ (j \in missed => j \in missed')
            BY <1>1, <1>5, <2>1, <2>3 DEF RequestStop, Moved
        <3>2. Pending(j) => Pending(j)'
            BY <2>1 DEF Pending
        <3>3. QED
            BY <1>1, <2>1, <3>1, <3>2, StopFrame
    <2>4. QED
        BY <2>2, <2>3
<1>6. CASE SignalStop(h)
    <2>1. PICK S \in SUBSET handler[h].jobs : SendSignals(handler[h].jobs, S)
        BY <1>6 DEF SignalStop
    <2>2. UNCHANGED <<worker, job, asked, stopper>> /\ missed \subseteq missed'
          /\ \A g \in Handlers : g # h => handler'[g] = handler[g]
        BY <1>1, <1>6, <2>1 DEF SignalStop, SendSignals, TypeOK
    <2>3. CASE j \in handler[h].jobs
        BY <1>1, <2>1, <2>2, <2>3, SentAgrees
    <2>4. CASE j \notin handler[h].jobs
        <3>1. Pending(j) => Pending(j)'
            BY <2>2, <2>4 DEF Pending
        <3>2. QED
            BY <1>1, <2>1, <2>2, <3>1, SignalsAreHeard, StopFrame
    <2>5. QED
        BY <2>3, <2>4
<1>7. QED
    BY <1>3, <1>4, <1>5, <1>6 DEF RequestStep

\* So do the worker threads.
LEMMA WorkerStops ==
    ASSUME StopInv, JobInv', NEW i \in Jobs, WorkerStep(i), NEW j \in asked'
    PROVE  StopAgrees(j)'
<1> USE DEF stops, races
<1>1. /\ JobInv /\ TypeOK /\ j \in Jobs /\ StopAgrees(j) /\ JobAgrees(j)
      /\ UNCHANGED <<asked, missed, handler, stopper>> /\ (Pending(j) <=> Pending(j)')
    BY DEF StopInv, JobInv, TypeOK, Pending, WorkerStep, LoadRow, StopUnstarted, MarkRunning,
           SpawnHelper, RegisterProcess, WritePayload, Reap, FinishJob
<1>2. CASE i # j
    <2>1. job'[j] = job[j] /\ worker'[j] = worker[j] /\ helper'[j] = helper[j]
        BY <1>1, <1>2 DEF WorkerStep, TypeOK, WorkerAt, LoadRow, StopUnstarted, MarkRunning,
               SpawnHelper, RegisterProcess, WritePayload, Reap, FinishJob
    <2>2. QED
        BY <1>1, <2>1, StopFrame
<1>3. CASE i = j /\ j \notin missed
    <2> USE <1>1, <1>3
    <2>1. CASE LoadRow(i)
        BY <2>1 DEF LoadRow, TypeOK, StopAgrees
    <2>2. CASE StopUnstarted(i) \/ FinishJob(i)
        <3>1. worker'[j].pc = "none" /\ helper'[j] = helper[j] /\ helper[j] \notin Alive
            BY <2>2 DEF StopUnstarted, FinishJob, TypeOK, NoWorker, JobAgrees, Alive
        <3>2. QED
            BY <3>1 DEF StopAgrees, Alive
    <2>3. CASE MarkRunning(i)
        BY <2>3 DEF MarkRunning, WorkerAt, TypeOK, StopAgrees
    <2>4. CASE SpawnHelper(i) \/ RegisterProcess(i)
        <3>1. worker[j].pc \in {"spawn", "register"} /\ worker'[j].pc \in {"register", "write"}
            BY <2>4 DEF SpawnHelper, RegisterProcess, WorkerAt, TypeOK
        <3>2. Pending(j)
            BY <3>1 DEF StopAgrees
        <3>3. QED
            BY <3>1, <3>2 DEF StopAgrees
    <2>5. CASE WritePayload(i) \/ Reap(i)
        <3>1. /\ worker[j].pc \in {"write", "read"} /\ worker'[j].pc \in {"read", "none", "reload"}
              /\ helper'[j] = helper[j]
            BY <2>5 DEF WritePayload, Reap, WorkerAt, TypeOK
        <3>2. QED
            BY <3>1 DEF StopAgrees
    <2>6. QED
        BY <2>1, <2>2, <2>3, <2>4, <2>5 DEF WorkerStep
<1>4. CASE j \in missed
    BY <1>1, <1>4 DEF StopAgrees
<1>5. QED
    BY <1>2, <1>3, <1>4

\* So do the helpers and the stop of the run; a restart forgets the stops.
LEMMA OtherStops ==
    ASSUME StopInv, JobInv', (\E i \in Jobs : HelperStep(i)) \/ RunStep \/ ManagerRestarts,
           NEW j \in asked'
    PROVE  StopAgrees(j)'
<1> USE DEF stops, races
<1>1. JobInv /\ TypeOK /\ (j \in asked => j \in Jobs /\ StopAgrees(j))
    BY DEF StopInv, JobInv, TypeOK
<1>2. ASSUME NEW i \in Jobs, HelperStep(i)
      PROVE  StopAgrees(j)'
    <2>1. UNCHANGED <<job, worker, handler, asked, missed, stopper>>
        BY <1>2 DEF HelperStep, InstallSignals, BadRequest, StartClient, ClientEnds,
               SudoRefuses, HelperMoves
    <2>2. j \in Jobs /\ (helper'[j] \in Unheard => helper[j] \in Unheard)
        BY <1>1, <1>2, <2>1 DEF HelperStep, InstallSignals, BadRequest, StartClient, ClientEnds,
               SudoRefuses, HelperMoves, Unheard, TypeOK
    <2>3. Pending(j) => Pending(j)'
        BY <2>1 DEF Pending
    <2>4. QED
        BY <1>1, <2>1, <2>2, <2>3, StopFrame
<1>3. CASE SweepRequest
    <2>1. /\ UNCHANGED <<worker, helper>> /\ stopper' = "signal"
          /\ asked' = asked \cup WithStatus({"QUEUED", "RUNNING"})
          /\ missed' = missed \ WithStatus({"QUEUED", "RUNNING"})
        BY <1>3 DEF SweepRequest
    <2>2. j \in Jobs /\ Pending(j)'
        BY <1>1, <2>1 DEF Pending, WithStatus
    <2>3. job'[j] = IF job[j] \in {"QUEUED", "RUNNING"} THEN "STOP_REQUESTED" ELSE job[j]
        BY <1>3, <2>2 DEF SweepRequest, Moved, WithStatus
    <2>4. CASE worker[j].pc # "begin"
        BY <2>1, <2>2, <2>4 DEF StopAgrees
    <2>5. CASE job[j] \in {"QUEUED", "RUNNING"}
        BY <2>1, <2>2, <2>3, <2>5 DEF StopAgrees
    <2>6. CASE worker[j].pc = "begin" /\ job[j] \notin {"QUEUED", "RUNNING"}
        BY <1>1, <2>1, <2>3, <2>6 DEF StopAgrees, WithStatus
    <2>7. QED
        BY <2>4, <2>5, <2>6
<1>4. CASE SweepSignal
    <2>1. PICK S \in SUBSET processes : SendSignals(Jobs, S)
        BY <1>4 DEF SweepSignal
    <2>2. UNCHANGED <<worker, job, asked>>
        BY <1>4 DEF SweepSignal
    <2>3. QED
        BY <1>1, <2>1, <2>2, SentAgrees
<1>5. CASE StackStopped
    <2>1. UNCHANGED <<job, worker, helper, handler, asked, missed>> /\ stopper = "invoke"
        BY <1>5 DEF StackStopped
    <2>2. Pending(j) => Pending(j)'
        BY <2>1 DEF Pending
    <2>3. QED
        BY <1>1, <2>1, <2>2, StopFrame
<1>6. CASE ManagerRestarts
    BY <1>6 DEF ManagerRestarts
<1>7. CASE StopRun
    <2>1. UNCHANGED <<worker, helper, job, handler, asked, missed>> /\ stopper = "idle"
        BY <1>7 DEF StopRun, StopInv, SweepsWhileStopping
    <2>2. Pending(j) => Pending(j)'
        BY <2>1 DEF Pending
    <2>3. QED
        BY <1>1, <2>1, <2>2, StopFrame
<1>8. CASE LoseRun
    <2>1. /\ UNCHANGED <<worker, helper, handler, asked, stopper>>
          /\ missed' = missed \cup {i \in asked : worker[i].pc = "begin"}
        BY <1>8 DEF LoseRun
    <2>2. Pending(j) => Pending(j)'
        BY <2>1 DEF Pending
    <2>3. QED
        BY <1>1, <2>1, <2>2, StopFrame
<1>9. QED
    BY <1>2, <1>3, <1>4, <1>5, <1>6, <1>7, <1>8 DEF RunStep

\* StopInv is inductive.
LEMMA StopInvStep == StopInv /\ [Next]_vars => StopInv'
<1> SUFFICES ASSUME StopInv, [Next]_vars
             PROVE  StopInv'
    OBVIOUS
<1> USE DEF stops, races
<1>1. JobInv'
    BY JobInvStep DEF StopInv
<1>2. SweepsWhileStopping'
    <2>1. CASE UNCHANGED vars
        BY <2>1 DEF vars, StopInv, SweepsWhileStopping
    <2>2. ASSUME NEW h \in Handlers, RequestStep(h)
          PROVE  SweepsWhileStopping'
        BY <2>2 DEF RequestStep, PostTraffic, CheckDuplicates, InsertJobs, PostStop, PostStopAll,
               RequestStop, SignalStop, StopInv, SweepsWhileStopping
    <2>3. ASSUME NEW j \in Jobs, WorkerStep(j) \/ HelperStep(j)
          PROVE  SweepsWhileStopping'
        BY <2>3 DEF WorkerStep, LoadRow, StopUnstarted, MarkRunning, SpawnHelper, RegisterProcess,
               WritePayload, Reap, FinishJob, HelperStep, InstallSignals, BadRequest, StartClient,
               ClientEnds, SudoRefuses, HelperMoves, StopInv, SweepsWhileStopping
    <2>4. CASE RunStep \/ ManagerRestarts
        BY <2>4 DEF RunStep, StopRun, SweepRequest, SweepSignal, StackStopped, LoseRun,
               ManagerRestarts, StopInv, SweepsWhileStopping
    <2>5. QED
        BY <2>1, <2>2, <2>3, <2>4 DEF Next
<1>3. ASSUME NEW j \in asked'
      PROVE  StopAgrees(j)'
    <2>1. CASE UNCHANGED vars
        BY <1>3, <2>1 DEF vars, StopInv, StopAgrees, Pending
    <2>2. CASE Next
        BY <1>1, <2>2, RequestStops, WorkerStops, OtherStops DEF Next
    <2>3. QED
        BY <2>1, <2>2
<1>4. QED
    BY <1>1, <1>2, <1>3 DEF StopInv

\* However requests, the stop of the run, stale rows and the life of the thread
\* interleave, a committed stop reaches the helper, will reach it, or came before
\* its registration or against a refusal of the operating system.
THEOREM StopsArrive == Spec => []StopsTakeEffect
<1>1. Init => StopInv
    BY JobInvInit DEF Init, StopInv, SweepsWhileStopping
<1>2. StopInv => StopsTakeEffect
    <2>1. SUFFICES ASSUME StopInv, NEW j \in asked, helper[j] \in Unheard
                   PROVE  Pending(j) \/ j \in missed
        BY DEF StopsTakeEffect, Unheard
    <2>2. StopAgrees(j) /\ JobAgrees(j)
        BY <2>1 DEF StopInv, JobInv, TypeOK
    <2>3. worker[j].pc \notin {"begin", "mark"}
        BY <2>1, <2>2 DEF JobAgrees, Unheard
    <2>4. QED
        BY <2>1, <2>2, <2>3 DEF StopAgrees, Unheard
<1>3. QED
    BY <1>1, <1>2, StopInvStep, PTL DEF Spec
==============================================================================
