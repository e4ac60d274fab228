----------------------------- MODULE TrafficJob -----------------------------
(***************************************************************************)
(* The traffic jobs of one run: the rows of traffic_jobs, the request      *)
(* handlers that create and stop them, the thread and the root helper      *)
(* process (oranlab-traffic.py run) each of them gets, the in-memory       *)
(* traffic_processes registry through which a stop finds the helper, and   *)
(* the sweeps of the run: stop of the run, loss of its radio stack,        *)
(* restart of the Manager.                                                 *)
(*                                                                         *)
(* The ORM loads a row, lets the code look at it, and writes the changed   *)
(* columns at COMMIT with nothing but the primary key in the WHERE clause: *)
(* whoever commits last wins.  A transaction that writes before it reads   *)
(* (the autoflush of run_stop_worker and of reconcile_lost_runs) holds     *)
(* SQLite's write lock from then on and is one step here.                  *)
(***************************************************************************)
EXTENDS Naturals, FiniteSets

CONSTANTS
    Jobs,           \* traffic job identifiers
    UEs,            \* UE namespaces
    UeOf,           \* the UE a job is for
    Continuous,     \* jobs with run_mode continuous
    Http,           \* jobs whose helper runs http_job, which polls stop_requested
    MaxRequests,    \* bound: how many requests create or stop jobs
    FaultKinds,     \* which faults of {"restart", "lost", "refused", "denied"} occur
    MaxFaults       \* bound: how many faults occur

ASSUME JobsHaveUEs == UeOf \in [Jobs -> UEs]
ASSUME MaxFaultsIsNat == MaxFaults \in Nat
ASSUME MaxRequestsIsNat == MaxRequests \in Nat

VARIABLES
    run,        \* ExperimentRun.state
    job,        \* TrafficJob.status of each job
    batch,      \* the jobs created with each job (its batch_id)
    worker,     \* traffic_worker threads
    helper,     \* helper processes
    fed,        \* jobs whose helper was sent its payload
    processes,  \* traffic_processes: the jobs it has a handle for
    handler,    \* request handlers, each serves one request
    stopper,    \* run_stop_worker
    faults,     \* faults so far
    asked,      \* jobs whose stop this Manager process has committed
    missed,     \* those of them that it had no handle for, or could not signal
    since,      \* jobs inserted since the duplicate check of a handler
    raced,      \* jobs inserted although a job of their UE had been since the check
    revived     \* jobs that a stale row made active again

stops == <<asked, missed>>
races == <<since, raced, revived>>
vars == <<run, job, batch, worker, helper, fed, processes, handler, stopper, faults, stops, races>>

------------------------------------------------------------------------------
\* Requests are numbered as they arrive; the thread pool serves them all at once.
Handlers == 1 .. MaxRequests

Active == {"QUEUED", "RUNNING", "STOP_REQUESTED"}
Finished == {"STOPPED", "COMPLETED", "FAILED"}
Statuses == {"NONE", "INTERRUPTED"} \cup Active \cup Finished

WithStatus(S) == {j \in Jobs : job[j] \in S}
UsedBy(J) == {UeOf[j] : j \in J}

\* A helper is "early" until run_job has installed its signal handlers, "ready"
\* until it starts the client program ("told" if a signal came meanwhile), then
\* "client", or "deaf" if the client was started in spite of the signal;
\* "ending" once the client itself got the signal.
Alive == {"early", "ready", "told", "client", "deaf", "ending"}
Dead == {"ok", "failed", "killed"}

IdleHandler == [pc |-> "idle", ues |-> {}, jobs |-> {}]
Served == [IdleHandler EXCEPT !.pc = "served"]
NoWorker == [pc |-> "none", seen |-> "NONE"]

\* What SIGINT does to a helper: terminate() once installed, death before.
Interrupted(state) ==
    CASE state = "early"            -> "killed"
      [] state = "ready"            -> "told"
      [] state \in {"client", "deaf"} -> "ending"
      [] OTHER                      -> state

Signalled(J) == [j \in Jobs |-> IF j \in J THEN Interrupted(helper[j]) ELSE helper[j]]
Moved(J, status) == [j \in Jobs |-> IF j \in J THEN status ELSE job[j]]

Init ==
    /\ run = "RUNNING"
    /\ job = [j \in Jobs |-> "NONE"]
    /\ batch = [j \in Jobs |-> {}]
    /\ worker = [j \in Jobs |-> NoWorker]
    /\ helper = [j \in Jobs |-> "none"]
    /\ fed = {}
    /\ processes = {}
    /\ handler = [h \in Handlers |-> IdleHandler]
    /\ stopper = "idle"
    /\ faults = 0
    /\ asked = {} /\ missed = {}
    /\ since = [h \in Handlers |-> {}] /\ raced = {} /\ revived = {}

------------------------------------------------------------------------------
(* POST .../traffic and .../traffic/batch: one transaction for all the UEs  *)
(* of the request, with no lock before the first INSERT.                    *)

Arrives(h) == handler[h].pc = "idle" /\ \A g \in 1 .. h - 1 : handler[g].pc # "idle"

PostTraffic(h, ues) ==
    /\ Arrives(h)
    /\ run = "RUNNING"
    /\ handler' = [handler EXCEPT ![h].pc = "duplicates", ![h].ues = ues]
    /\ UNCHANGED <<run, job, batch, worker, helper, fed, processes, stopper, faults, stops, races>>

\* Mutant of CheckDuplicates: a job that is being stopped no longer counts.
CheckDuplicatesNotStopping(h) ==
    /\ handler[h].pc = "duplicates"
    /\ handler' = [handler EXCEPT ![h] =
           IF handler[h].ues \cap UsedBy(WithStatus({"QUEUED", "RUNNING"})) = {}
           THEN [handler[h] EXCEPT !.pc = "insert"] ELSE Served]
    /\ UNCHANGED <<run, job, batch, worker, helper, fed, processes, stopper, faults, stops, races>>

\* 409 if a requested UE has an active job.
CheckDuplicates(h) ==
    /\ handler[h].pc = "duplicates"
    /\ handler' = [handler EXCEPT ![h] =
           IF handler[h].ues \cap UsedBy(WithStatus(Active)) = {}
           THEN [handler[h] EXCEPT !.pc = "insert"] ELSE Served]
    /\ UNCHANGED <<run, job, batch, worker, helper, fed, processes, stopper, faults, stops, races>>

\* One job per flow of each requested UE, COMMIT, one thread per job.  Nothing
\* is checked again: another handler may have inserted jobs of the UE meanwhile.
InsertJobs(h, J) ==
    /\ handler[h].pc = "insert"
    /\ J \subseteq WithStatus({"NONE"})
    /\ UsedBy(J) = handler[h].ues
    /\ job' = Moved(J, "QUEUED")
    /\ batch' = [j \in Jobs |-> IF j \in J THEN J ELSE batch[j]]
    /\ worker' = [j \in Jobs |-> IF j \in J THEN [pc |-> "begin", seen |-> "NONE"]
                                 ELSE worker[j]]
    /\ handler' = [handler EXCEPT ![h] = Served]
    /\ since' = [g \in Handlers |->
           IF g # h /\ handler[g].pc = "insert" THEN since[g] \cup J ELSE {}]
    /\ raced' = IF UsedBy(since[h]) \cap UsedBy(J) = {} THEN raced ELSE raced \cup J
    /\ UNCHANGED <<run, helper, fed, processes, stopper, faults, stops, revived>>

(* DELETE .../traffic/{job} and .../traffic: the rows are read, then        *)
(* written, then the helpers that are registered by now get SIGINT.         *)

PostStop(h, j) ==
    /\ Arrives(h)
    /\ job[j] \in {"QUEUED", "RUNNING"}
    /\ handler' = [handler EXCEPT ![h].pc = "request", ![h].jobs = {j}]
    /\ UNCHANGED <<run, job, batch, worker, helper, fed, processes, stopper, faults, stops, races>>

PostStopAll(h) ==
    /\ Arrives(h)
    /\ WithStatus({"QUEUED", "RUNNING"}) # {}
    /\ handler' = [handler EXCEPT ![h].pc = "request",
                                  ![h].jobs = WithStatus({"QUEUED", "RUNNING"})]
    /\ UNCHANGED <<run, job, batch, worker, helper, fed, processes, stopper, faults, stops, races>>

\* Mutant of RequestStop: the handles are looked up before the COMMIT.
RequestStopHandlesFirst(h) ==
    /\ handler[h].pc = "request"
    /\ job' = Moved(handler[h].jobs, "STOP_REQUESTED")
    /\ handler' = [handler EXCEPT ![h].pc = "signal", ![h].jobs = @ \cap processes]
    /\ asked' = asked \cup handler[h].jobs
    /\ missed' = missed \ handler[h].jobs
    /\ revived' = revived \cup (handler[h].jobs \ WithStatus(Active))
    /\ UNCHANGED <<run, batch, worker, helper, fed, processes, stopper, faults, since, raced>>

RequestStop(h) ==
    /\ handler[h].pc = "request"
    /\ job' = Moved(handler[h].jobs, "STOP_REQUESTED")
    /\ handler' = [handler EXCEPT ![h].pc = "signal"]
    /\ asked' = asked \cup handler[h].jobs
    /\ missed' = missed \ handler[h].jobs
    /\ revived' = revived \cup (handler[h].jobs \ WithStatus(Active))
    /\ UNCHANGED <<run, batch, worker, helper, fed, processes, stopper, faults, since, raced>>

\* One send_signal after another to the helpers of J that are registered.  Some
\* of them, S, get it before one raises: the helper is root's, and os.kill may be
\* refused.  What has no handle yet is passed over.
SendSignals(J, S) ==
    LET unreached == (J \cap processes) \ S
    IN  /\ S \subseteq J \cap processes
        /\ helper' = Signalled(S)
        /\ missed' = missed \cup {j \in asked \cap J :
               j \in unreached \/ worker[j].pc \in {"mark", "spawn", "register"}}
        /\ IF unreached = {} THEN UNCHANGED faults
           ELSE /\ "denied" \in FaultKinds /\ faults < MaxFaults
                /\ \E j \in unreached : helper[j] \in Alive
                /\ faults' = faults + 1

\* The exception is an HTTP 500, after the COMMIT.
SignalStop(h) ==
    /\ handler[h].pc = "signal"
    /\ \E S \in SUBSET handler[h].jobs : SendSignals(handler[h].jobs, S)
    /\ handler' = [handler EXCEPT ![h] = Served]
    /\ UNCHANGED <<run, job, batch, worker, fed, processes, stopper, asked, races>>

------------------------------------------------------------------------------
(* traffic_worker.                                                          *)

WorkerAt(j, from, to) ==
    /\ worker[j].pc = from
    /\ worker' = [worker EXCEPT ![j].pc = to]

\* database.get: the row as it is now, to be looked at and written later.
LoadRow(j) ==
    /\ \/ /\ worker[j].pc = "begin"
          /\ worker' = [worker EXCEPT ![j] = [pc |-> "mark", seen |-> job[j]]]
       \/ /\ worker[j].pc = "reload"
          /\ worker' = [worker EXCEPT ![j] = [pc |-> "finish", seen |-> job[j]]]
    /\ UNCHANGED <<run, job, batch, helper, fed, processes, handler, stopper, faults, stops, races>>

\* A job stopped while QUEUED is never started.
StopUnstarted(j) ==
    /\ worker[j].pc = "mark" /\ worker[j].seen = "STOP_REQUESTED"
    /\ job' = [job EXCEPT ![j] = "STOPPED"]
    /\ worker' = [worker EXCEPT ![j] = NoWorker]
    /\ UNCHANGED <<run, batch, helper, fed, processes, handler, stopper, faults, stops, races>>

MarkRunning(j) ==
    /\ worker[j].seen # "STOP_REQUESTED"
    /\ WorkerAt(j, "mark", "spawn")
    /\ job' = [job EXCEPT ![j] = "RUNNING"]
    /\ revived' = revived \cup ({j} \ WithStatus(Active))
    /\ UNCHANGED <<run, batch, helper, fed, processes, handler, stopper, faults, stops,
                   since, raced>>

\* Popen, before the handle is registered.
SpawnHelper(j) ==
    /\ WorkerAt(j, "spawn", "register")
    /\ helper' = [helper EXCEPT ![j] = "early"]
    /\ UNCHANGED <<run, job, batch, fed, processes, handler, stopper, faults, stops, races>>

RegisterProcess(j) ==
    /\ WorkerAt(j, "register", "write")
    /\ processes' = processes \cup {j}
    /\ UNCHANGED <<run, job, batch, helper, fed, handler, stopper, faults, stops, races>>

\* Mutant of WritePayload: stdin is written but not closed.
PayloadNotClosed(j) ==
    /\ WorkerAt(j, "write", "read")
    /\ UNCHANGED <<run, job, batch, helper, fed, processes, handler, stopper, faults, stops, races>>

\* If the helper is already dead, closing its stdin raises BrokenPipeError and
\* the thread ends there: its row and its handle stay as they are.
WritePayload(j) ==
    /\ \/ /\ helper[j] \in Alive
          /\ WorkerAt(j, "write", "read")
          /\ fed' = fed \cup {j}
       \/ /\ helper[j] \in Dead
          /\ WorkerAt(j, "write", "none")
          /\ UNCHANGED fed
    /\ UNCHANGED <<run, job, batch, helper, processes, handler, stopper, faults, stops, races>>

\* Mutant of Reap: the end of the helper is not waited for.
ReapUnwaited(j) ==
    /\ WorkerAt(j, "read", "reload")
    /\ processes' = processes \ {j}
    /\ UNCHANGED <<run, job, batch, helper, fed, handler, stopper, faults, stops, races>>

\* End of stdout, process.wait(), traffic_processes.pop.
Reap(j) ==
    /\ helper[j] \in Dead
    /\ WorkerAt(j, "read", "reload")
    /\ processes' = processes \ {j}
    /\ UNCHANGED <<run, job, batch, helper, fed, handler, stopper, faults, stops, races>>

\* The outcome overwrites whatever the row says by now.
FinishJob(j) ==
    /\ worker[j].pc = "finish"
    /\ job' = [job EXCEPT ![j] = IF worker[j].seen = "STOP_REQUESTED" THEN "STOPPED"
                                 ELSE IF helper[j] = "ok" THEN "COMPLETED" ELSE "FAILED"]
    /\ worker' = [worker EXCEPT ![j] = NoWorker]
    /\ UNCHANGED <<run, batch, helper, fed, processes, handler, stopper, faults, stops, races>>

------------------------------------------------------------------------------
(* The helper.                                                              *)

HelperMoves(j, from, to) ==
    /\ helper[j] \in from
    /\ helper' = [helper EXCEPT ![j] = to]
    /\ UNCHANGED <<run, job, batch, worker, fed, processes, handler, stopper, stops, races>>

\* run_job installs terminate(), then reads its payload from stdin.
InstallSignals(j) == HelperMoves(j, {"early"}, "ready") /\ UNCHANGED faults

\* The request is invalid, or the Manager died before it wrote one.
BadRequest(j) ==
    /\ j \in fed \/ worker[j].pc = "none"
    /\ HelperMoves(j, {"ready", "told"}, "failed")
    /\ UNCHANGED faults

\* ping, iperf and RTP start their client without looking at stop_requested;
\* http_job looks at it before every request.
StartClient(j) ==
    /\ j \in fed
    /\ \/ HelperMoves(j, {"ready"}, "client")
       \/ HelperMoves(j, {"told"}, IF j \in Http THEN "ok" ELSE "deaf")
    /\ UNCHANGED faults

\* The client ends by itself (a continuous one only on an error) or because it
\* was signalled; a helper that was told to stop always answers ok.
ClientEnds(j) ==
    /\ \/ \E answer \in {"ok", "failed"} : HelperMoves(j, {"client"}, answer)
       \/ HelperMoves(j, {"deaf", "ending"}, "ok")
    /\ UNCHANGED faults

\* sudo refuses to run the helper.
SudoRefuses(j) ==
    /\ "refused" \in FaultKinds /\ faults < MaxFaults
    /\ HelperMoves(j, {"early"}, "failed")
    /\ faults' = faults + 1

------------------------------------------------------------------------------
(* Sweeps.                                                                  *)

\* stop_run itself changes no job.
StopRun ==
    /\ run = "RUNNING"
    /\ run' = "STOPPING"
    /\ stopper' = "sweep"
    /\ UNCHANGED <<job, batch, worker, helper, fed, processes, handler, faults, stops, races>>

\* run_stop_worker: the event it adds is flushed before the jobs are selected.
SweepRequest ==
    /\ stopper = "sweep"
    /\ job' = Moved(WithStatus({"QUEUED", "RUNNING"}), "STOP_REQUESTED")
    /\ stopper' = "signal"
    /\ asked' = asked \cup WithStatus({"QUEUED", "RUNNING"})
    /\ missed' = missed \ WithStatus({"QUEUED", "RUNNING"})
    /\ UNCHANGED <<run, batch, worker, helper, fed, processes, handler, faults, races>>

\* Every registered helper is signalled, whichever job it belongs to.  If one
\* cannot be, the rest of the stop is skipped with it.
SweepSignal ==
    /\ stopper = "signal"
    /\ \E S \in SUBSET processes :
           /\ SendSignals(Jobs, S)
           /\ IF S = processes THEN stopper' = "invoke" /\ UNCHANGED run
              ELSE stopper' = "idle" /\ run' = "STOP_FAILED"
    /\ UNCHANGED <<job, batch, worker, fed, processes, handler, asked, races>>

StackStopped ==
    /\ stopper = "invoke"
    /\ run' \in {"STOPPED", "STOP_FAILED"}
    /\ stopper' = "idle"
    /\ UNCHANGED <<job, batch, worker, helper, fed, processes, handler, faults, stops, races>>

\* reconcile_lost_runs, called by a start of another run, finds the stack of
\* this one gone.  No helper is signalled, and a thread that has not looked at
\* its row yet no longer finds there that it is to stop.
LoseRun ==
    /\ "lost" \in FaultKinds /\ faults < MaxFaults
    /\ run = "RUNNING"
    /\ run' = "LOST"
    /\ job' = Moved(WithStatus(Active), "INTERRUPTED")
    /\ faults' = faults + 1
    /\ missed' = missed \cup {j \in asked : worker[j].pc = "begin"}
    /\ UNCHANGED <<batch, worker, helper, fed, processes, handler, stopper, asked, races>>

\* Mutant of ManagerRestarts: jobs being stopped are left as they are.
RestartKeepsStopping ==
    /\ "restart" \in FaultKinds /\ faults < MaxFaults
    /\ \E S \in SUBSET processes : helper' = Signalled(S)
    /\ job' = Moved(WithStatus({"QUEUED", "RUNNING"}), "INTERRUPTED")
    /\ run' \in {run, IF run \in {"RUNNING", "STOPPING"} THEN "LOST" ELSE run}
    /\ worker' = [j \in Jobs |-> NoWorker]
    /\ processes' = {}
    /\ handler' = [h \in Handlers |-> IF handler[h].pc = "idle" THEN IdleHandler ELSE Served]
    /\ stopper' = "idle"
    /\ faults' = faults + 1
    /\ asked' = {} /\ missed' = {}
    /\ since' = [h \in Handlers |-> {}] /\ raced' = {} /\ revived' = {}
    /\ UNCHANGED <<batch, fed>>

\* An orderly shutdown signals the registered helpers, until one cannot be; a
\* crash signals none; they survive both.  The next process starts without
\* threads and handles, marks every active job INTERRUPTED, and the run LOST if
\* its stack is gone.
ManagerRestarts ==
    /\ "restart" \in FaultKinds /\ faults < MaxFaults
    /\ \E S \in SUBSET processes : helper' = Signalled(S)
    /\ job' = Moved(WithStatus(Active), "INTERRUPTED")
    /\ run' \in {run, IF run \in {"RUNNING", "STOPPING"} THEN "LOST" ELSE run}
    /\ worker' = [j \in Jobs |-> NoWorker]
    /\ processes' = {}
    /\ handler' = [h \in Handlers |-> IF handler[h].pc = "idle" THEN IdleHandler ELSE Served]
    /\ stopper' = "idle"
    /\ faults' = faults + 1
    /\ asked' = {} /\ missed' = {}
    /\ since' = [h \in Handlers |-> {}] /\ raced' = {} /\ revived' = {}
    /\ UNCHANGED <<batch, fed>>

------------------------------------------------------------------------------
RequestStep(h) ==
    \/ \E ues \in SUBSET UEs \ {{}} : PostTraffic(h, ues)
    \/ CheckDuplicates(h)
    \/ \E J \in SUBSET Jobs : InsertJobs(h, J)
    \/ \E j \in Jobs : PostStop(h, j)
    \/ PostStopAll(h) \/ RequestStop(h) \/ SignalStop(h)

WorkerStep(j) ==
    \/ LoadRow(j) \/ StopUnstarted(j) \/ MarkRunning(j) \/ SpawnHelper(j)
    \/ RegisterProcess(j) \/ WritePayload(j) \/ Reap(j) \/ FinishJob(j)

HelperStep(j) ==
    InstallSignals(j) \/ BadRequest(j) \/ StartClient(j) \/ ClientEnds(j) \/ SudoRefuses(j)

RunStep == StopRun \/ SweepRequest \/ SweepSignal \/ StackStopped \/ LoseRun

Next ==
    \/ \E h \in Handlers : RequestStep(h)
    \/ \E j \in Jobs : WorkerStep(j) \/ HelperStep(j)
    \/ RunStep
    \/ ManagerRestarts

Spec == Init /\ [][Next]_vars

\* The worker of a job of limited duration goes on when it can, and so do its
\* helper and its client.  Nothing makes an operator send requests or a fault
\* happen, and nothing here waits for a request handler or a continuous job.
HelperContinues(j) == InstallSignals(j) \/ BadRequest(j) \/ StartClient(j) \/ ClientEnds(j)

Fairness ==
    \A j \in Jobs \ Continuous : WF_vars(WorkerStep(j)) /\ WF_vars(HelperContinues(j))

FairSpec == Spec /\ Fairness

------------------------------------------------------------------------------
(* Properties.                                                              *)

HandlerPcs == {"idle", "duplicates", "insert", "request", "signal", "served"}
WorkerPcs == {"none", "begin", "mark", "spawn", "register", "write", "read", "reload",
              "finish"}

\* Rows, threads, helpers and the registry stay in their domains.
TypeOK ==
    /\ run \in {"RUNNING", "STOPPING", "STOPPED", "STOP_FAILED", "LOST"}
    /\ job \in [Jobs -> Statuses]
    /\ batch \in [Jobs -> SUBSET Jobs]
    /\ worker \in [Jobs -> [pc : WorkerPcs, seen : Statuses]]
    /\ helper \in [Jobs -> {"none"} \cup Alive \cup Dead]
    /\ fed \in SUBSET Jobs
    /\ processes \in SUBSET Jobs
    /\ handler \in [Handlers -> [pc : HandlerPcs, ues : SUBSET UEs, jobs : SUBSET Jobs]]
    /\ stopper \in {"idle", "sweep", "signal", "invoke"}
    /\ faults \in 0 .. MaxFaults
    /\ asked \in SUBSET Jobs /\ missed \in SUBSET Jobs
    /\ since \in [Handlers -> SUBSET Jobs] /\ raced \in SUBSET Jobs /\ revived \in SUBSET Jobs

\* A row that reports an outcome is right that the traffic is over: the worker
\* wrote it after it reaped the helper, and no sweep writes one.
FinalMeansNoHelper == \A j \in WithStatus(Finished) : helper[j] \notin Alive

\* Every helper that runs can be reached: its thread is about to register it or
\* has, or else the Manager was restarted and the row says INTERRUPTED.
HelperOwned ==
    \A j \in Jobs : helper[j] \in Alive =>
        \/ worker[j].pc = "register"
        \/ worker[j].pc \in {"write", "read"} /\ j \in processes
        \/ worker[j].pc = "none" /\ job[j] = "INTERRUPTED"

\* Two active jobs of one UE are flows of the same batch, unless both handlers
\* had passed the duplicate check or a stale row brought one of the jobs back.
OneBatchUnlessRaced ==
    \A i, j \in WithStatus(Active) :
        UeOf[i] = UeOf[j] => j \in batch[i] \/ {i, j} \cap (raced \cup revived) # {}

\* A stop that was committed reaches the helper, however the handler, the stop
\* of the run, the worker and its stale row interleave: the helper is signalled
\* or still will be, or it was not registered by then or could not be signalled.
Pending(j) ==
    stopper = "signal" \/ \E h \in Handlers : handler[h].pc = "signal" /\ j \in handler[h].jobs

StopsTakeEffect ==
    \A j \in asked : helper[j] \in {"early", "ready", "client"} => Pending(j) \/ j \in missed

\* The thread of a job of limited duration ends.
WorkersEnd == \A j \in Jobs \ Continuous : worker[j].pc # "none" ~> worker[j].pc = "none"

------------------------------------------------------------------------------
(* Inductive strengthenings, used by TrafficJobProofs.                      *)

\* What a job's row, thread, helper and registry entry say of each other.
JobAgrees(j) ==
    /\ worker[j].pc # "none" => job[j] \in Active \cup {"INTERRUPTED"}
    /\ worker[j].pc \in {"begin", "mark", "spawn"} => helper[j] = "none"
    /\ worker[j].pc \in {"write", "read"} => j \in processes
    /\ worker[j].pc \in {"reload", "finish"} => helper[j] \notin Alive
    /\ job[j] = "NONE" => worker[j].pc = "none" /\ helper[j] = "none" /\ j \notin asked
    /\ worker[j].pc = "none" /\ helper[j] \in Alive =>
           /\ job[j] = "INTERRUPTED"
           /\ j \notin asked /\ \A h \in Handlers : j \notin handler[h].jobs

JobInv == TypeOK /\ \A j \in Jobs : JobAgrees(j)

\* Behind OneBatchUnlessRaced: what a handler that is about to insert has not seen.
BatchInv ==
    /\ TypeOK
    /\ OneBatchUnlessRaced
    /\ \A h \in Handlers : handler[h].pc = "insert" =>
           \A j \in WithStatus(Active) : UeOf[j] \in handler[h].ues => j \in since[h] \cup revived

\* Behind StopsTakeEffect: what stands between a stopped job and its signal,
\* wherever its thread is.
StopAgrees(j) ==
    \/ j \in missed
    \/ worker[j].pc = "begin" /\ job[j] = "STOP_REQUESTED"
    \/ worker[j].pc = "mark" /\ worker[j].seen = "STOP_REQUESTED"
    \/ worker[j].pc # "begin" /\ Pending(j)
    \/ /\ worker[j].pc \notin {"begin", "mark", "spawn", "register"}
       /\ helper[j] \notin {"early", "ready", "client"}

SweepsWhileStopping == stopper # "idle" => run = "STOPPING"

StopInv == JobInv /\ SweepsWhileStopping /\ \A j \in asked : StopAgrees(j)
==============================================================================
