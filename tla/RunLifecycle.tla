---------------------------- MODULE RunLifecycle ----------------------------
(***************************************************************************)
(* The life of an experiment run: the rows of experiment_runs, the         *)
(* threads of the Experiment Manager that move them (request handlers and  *)
(* start/stop workers), the root controller processes those workers invoke *)
(* (oranlabctl start / stop), the files that controllers and Manager share *)
(* (active-run.json and processes.json) and the radio stack itself.        *)
(*                                                                         *)
(* A radio stack is named by the configuration it was launched from: the   *)
(* snapshot of a run, or Baseline when active-run.json was missing.        *)
(* Sources: experiment-manager/backend/app/main.py and controller.py,      *)
(* scripts/oranlabctl.py, systemd/oran-experiment-manager.service.         *)
(* The traffic jobs these handlers also sweep are modelled in TrafficJob.  *)
(***************************************************************************)
EXTENDS Naturals, FiniteSets

CONSTANTS
    Runs,           \* run identifiers (uuid primary keys)
    Handlers,       \* threads of the request thread pool
    Workers,        \* run_start_worker / run_stop_worker threads
    Controllers,    \* oranlabctl processes
    Baseline,       \* the configuration used when active-run.json is missing
    None,           \* no run, no configuration, no controller
    FaultKinds,     \* which faults of {"restart", "reboot", "crash", "timeout"} occur
    MaxFaults       \* bound: how many faults occur

ASSUME ThreadsAreDistinct ==
    /\ Handlers \cap Workers = {}
    /\ Handlers \cap Controllers = {}
    /\ Workers \cap Controllers = {}

ASSUME NamesAreDistinct ==
    /\ Baseline \notin Runs
    /\ None \notin Runs \cup {Baseline} \cup Controllers

ASSUME MaxFaultsIsNat == MaxFaults \in Nat

VARIABLES
    row,        \* ExperimentRun.state of each run
    active,     \* experiments/runs/active-run.json: the run it names
    registry,   \* run/manager/processes.json: the stack whose pids it lists
    alive,      \* the stacks that have live processes
    handler,    \* request handlers in progress
    worker,     \* start/stop worker threads
    ctl,        \* controller processes
    faults,     \* faults so far
    restarts,   \* what restarts left behind: rows in transition that start-up
                \* skipped, runs whose controller was still launching
    since,      \* history: the rows other requests wrote since a handler's read
    raced       \* history: the rows written on a read that had been overtaken

\* since and raced record the overlaps of requests; no step depends on them.
races == <<since, raced>>

vars == <<row, active, registry, alive, handler, worker, ctl, faults, restarts, races>>

------------------------------------------------------------------------------
Stacks == Runs \cup {Baseline}

\* "ABORTED" marks an identifier whose INSERT was rolled back: it names no row
\* and is never used again.
RowStates == {"NONE", "ABORTED", "STARTING", "RUNNING", "STOPPING", "STOPPED",
              "START_FAILED", "STOP_FAILED", "LOST"}

\* The states in which start_run refuses with 409.
Occupying == {"STARTING", "RUNNING", "STOPPING"}

\* Mutant of Stoppable: a run that is still starting may be stopped.
StoppableWhileStarting == {"STARTING", "RUNNING", "START_FAILED"}

\* The states stop_run accepts (DEGRADED is accepted too, but nothing sets it).
Stoppable == {"RUNNING", "START_FAILED"}

InState(S) == {r \in Runs : row[r] \in S}

IdleHandler == [pc |-> "idle", run |-> None, cand |-> {}]
IdleWorker  == [pc |-> "idle", run |-> None, kind |-> "start", ctl |-> None]
NewWorker(kind, r) == [pc |-> "begin", run |-> r, kind |-> kind, ctl |-> None]
IdleCtl     == [pc |-> "idle", kind |-> "start", cfg |-> None, target |-> None]

\* platform_status: some registered process still has its command line.
StatusRunning == registry \in alive

\* The manager still waits for the controller it invoked.
Awaited(c) == \E w \in Workers : worker[w].pc = "wait" /\ worker[w].ctl = c

Init ==
    /\ row = [r \in Runs |-> "NONE"]
    /\ active = None
    /\ registry = None
    /\ alive = {}
    /\ handler = [h \in Handlers |-> IdleHandler]
    /\ worker = [w \in Workers |-> IdleWorker]
    /\ ctl = [c \in Controllers |-> IdleCtl]
    /\ faults = 0
    /\ restarts = [skipped |-> {}, orphaned |-> {}]
    /\ since = [h \in Handlers |-> {}]
    /\ raced = {}

\* Bookkeeping of the overlaps: a request reads (again), or writes these rows
\* while other requests at pcs still go by what they read before.
ReadsAgain(h) == since' = [since EXCEPT ![h] = {}]

Overtakes(h, rows, pcs) ==
    since' = [g \in Handlers |-> IF g = h THEN {}
                                 ELSE IF handler[g].pc \in pcs THEN since[g] \cup rows
                                 ELSE since[g]]

------------------------------------------------------------------------------
(* POST /api/experiments/{id}/runs.  The handler holds no lock from its     *)
(* first SELECT to its INSERT.                                              *)

PostRun(h) ==
    /\ handler[h].pc = "idle"
    /\ LET cand == InState({"RUNNING"})
       IN  handler' = [handler EXCEPT ![h].pc = IF cand = {} THEN "select" ELSE "status",
                                      ![h].cand = cand]
    /\ ReadsAgain(h)
    /\ UNCHANGED <<row, active, registry, alive, worker, ctl, faults, restarts, raced>>

\* Mutant of ReconcileStatus: the status is asked for but its answer not looked at.
ReconcileStatusIgnored(h) ==
    /\ handler[h].pc = "status"
    /\ handler' = [handler EXCEPT ![h].pc = "lost"]
    /\ UNCHANGED <<row, active, registry, alive, worker, ctl, faults, restarts, races>>

\* reconcile_lost_runs asks the controller for the platform status; an error
\* or a running component leaves every row alone.
ReconcileStatus(h) ==
    /\ handler[h].pc = "status"
    /\ \/ handler' = [handler EXCEPT ![h].pc = "select", ![h].cand = {}]
       \/ /\ ~StatusRunning
          /\ handler' = [handler EXCEPT ![h].pc = "lost"]
    /\ UNCHANGED <<row, active, registry, alive, worker, ctl, faults, restarts, races>>

\* It then writes LOST into every row it had selected before the status call.
ReconcileLost(h) ==
    /\ handler[h].pc = "lost"
    /\ row' = [r \in Runs |-> IF r \in handler[h].cand THEN "LOST" ELSE row[r]]
    /\ handler' = [handler EXCEPT ![h].pc = "select", ![h].cand = {}]
    /\ Overtakes(h, handler[h].cand, {"status", "lost", "stop"})
    /\ raced' = raced \cup (since[h] \cap handler[h].cand)
    /\ UNCHANGED <<active, registry, alive, worker, ctl, faults, restarts>>

\* Mutant of SelectActive: a run that is only starting does not refuse another.
SelectActiveOnceRunning(h) ==
    /\ handler[h].pc = "select"
    /\ handler' = [handler EXCEPT ![h].pc =
           IF InState({"RUNNING", "STOPPING"}) = {} THEN "insert" ELSE "idle"]
    /\ ReadsAgain(h)
    /\ UNCHANGED <<row, active, registry, alive, worker, ctl, faults, restarts, raced>>

SelectActive(h) ==
    /\ handler[h].pc = "select"
    /\ handler' = [handler EXCEPT ![h].pc =
           IF InState(Occupying) = {} THEN "insert" ELSE "idle"]
    /\ ReadsAgain(h)
    /\ UNCHANGED <<row, active, registry, alive, worker, ctl, faults, restarts, raced>>

\* INSERT, snapshot, active-run.json, COMMIT and Thread.start.  Only the file
\* is visible before the COMMIT, and no process reads both the file and the row.
InsertRun(h, r, w) ==
    /\ handler[h].pc = "insert"
    /\ row[r] = "NONE"
    /\ worker[w].pc = "idle"
    /\ row' = [row EXCEPT ![r] = "STARTING"]
    /\ active' = r
    /\ handler' = [handler EXCEPT ![h] = IdleHandler]
    /\ worker' = [worker EXCEPT ![w] = NewWorker("start", r)]
    /\ Overtakes(h, {r}, {"insert"})
    /\ raced' = IF since[h] = {} THEN raced ELSE raced \cup {r}
    /\ UNCHANGED <<registry, alive, ctl, faults, restarts>>

\* An OSError rolls the row back; a later exception leaves it uncommitted.
\* active-run.json may already have been replaced.
InsertFails(h, r) ==
    /\ handler[h].pc = "insert"
    /\ row[r] = "NONE"
    /\ row' = [row EXCEPT ![r] = "ABORTED"]
    /\ active' \in {active, r}
    /\ handler' = [handler EXCEPT ![h] = IdleHandler]
    /\ ReadsAgain(h)
    /\ UNCHANGED <<registry, alive, worker, ctl, faults, restarts, raced>>

(* POST /api/runs/{id}/stop: the state is checked, then written.            *)

PostStop(h, r) ==
    /\ handler[h].pc = "idle"
    /\ row[r] \in Stoppable
    /\ handler' = [handler EXCEPT ![h].pc = "stop", ![h].run = r]
    /\ ReadsAgain(h)
    /\ UNCHANGED <<row, active, registry, alive, worker, ctl, faults, restarts, raced>>

CommitStop(h, w) ==
    /\ handler[h].pc = "stop"
    /\ worker[w].pc = "idle"
    /\ row' = [row EXCEPT ![handler[h].run] = "STOPPING"]
    /\ worker' = [worker EXCEPT ![w] = NewWorker("stop", handler[h].run)]
    /\ handler' = [handler EXCEPT ![h] = IdleHandler]
    /\ Overtakes(h, {handler[h].run}, {"status", "lost", "stop"})
    /\ raced' = raced \cup (since[h] \cap {handler[h].run})
    /\ UNCHANGED <<active, registry, alive, ctl, faults, restarts>>

------------------------------------------------------------------------------
(* run_start_worker and run_stop_worker.  Each writes its outcome into the  *)
(* row without looking at the row again.                                    *)

OutcomeRow(kind, ok) ==
    CASE kind = "start" /\ ok  -> "RUNNING"
      [] kind = "start" /\ ~ok -> "START_FAILED"
      [] kind = "stop" /\ ok   -> "STOPPED"
      [] kind = "stop" /\ ~ok  -> "STOP_FAILED"

Finish(w, ok) ==
    /\ row' = [row EXCEPT ![worker[w].run] = OutcomeRow(worker[w].kind, ok)]
    /\ worker' = [worker EXCEPT ![w] = IdleWorker]

\* invoke(): sudo -n oranlabctl start|stop --json
Invoke(w, c) ==
    /\ worker[w].pc = "begin"
    /\ ctl[c].pc = "idle"
    /\ worker' = [worker EXCEPT ![w].pc = "wait", ![w].ctl = c]
    /\ ctl' = [ctl EXCEPT ![c].kind = worker[w].kind,
                          ![c].pc = IF worker[w].kind = "start" THEN "load" ELSE "read"]
    /\ UNCHANGED <<row, active, registry, alive, handler, faults, restarts, races>>

\* sudo refuses, or the command cannot be run at all; or a stop cannot signal one
\* of the traffic helpers, and never gets to the command.
InvokeFails(w) ==
    /\ worker[w].pc = "begin"
    /\ Finish(w, FALSE)
    /\ UNCHANGED <<active, registry, alive, handler, ctl, faults, restarts, races>>

\* Mutant of InvokeReturns: an error answer of the controller is not taken.
InvokeReturnsOnlyOk(w) ==
    /\ worker[w].pc = "wait"
    /\ ctl[worker[w].ctl].pc = "ok"
    /\ Finish(w, TRUE)
    /\ ctl' = [ctl EXCEPT ![worker[w].ctl] = IdleCtl]
    /\ UNCHANGED <<active, registry, alive, handler, faults, restarts, races>>

InvokeReturns(w) ==
    /\ worker[w].pc = "wait"
    /\ ctl[worker[w].ctl].pc \in {"ok", "err"}
    /\ Finish(w, ctl[worker[w].ctl].pc = "ok")
    /\ ctl' = [ctl EXCEPT ![worker[w].ctl] = IdleCtl]
    /\ UNCHANGED <<active, registry, alive, handler, faults, restarts, races>>

\* subprocess.run gives up after 120 s.  It kills sudo, not the root process
\* sudo started, which carries on with nobody waiting for it.
InvokeTimesOut(w) ==
    /\ "timeout" \in FaultKinds /\ faults < MaxFaults
    /\ worker[w].pc = "wait"
    /\ ctl[worker[w].ctl].pc \notin {"ok", "err"}
    /\ Finish(w, FALSE)
    /\ faults' = faults + 1
    /\ UNCHANGED <<active, registry, alive, handler, ctl, restarts, races>>

------------------------------------------------------------------------------
(* oranlabctl start: load_runtime_config, preflight, one start_component    *)
(* after another, attach of the UEs; any exception runs stop().             *)

CtlMoves(c, from, to) ==
    /\ ctl[c].pc = from
    /\ ctl' = [ctl EXCEPT ![c].pc = to]

\* A file that cannot be read or has no valid content ends the command at once.
CtlLoad(c) ==
    /\ ctl[c].pc = "load"
    /\ \/ ctl' = [ctl EXCEPT ![c].pc = "preflight",
                             ![c].cfg = IF active = None THEN Baseline ELSE active]
       \/ CtlMoves(c, "load", "err")
    /\ UNCHANGED <<row, active, registry, alive, handler, worker, faults, restarts, races>>

\* Mutant of CtlPreflight: no manager-not-running check.
PreflightUnchecked(c) ==
    /\ CtlMoves(c, "preflight", "launch") \/ CtlMoves(c, "preflight", "err")
    /\ UNCHANGED <<row, active, registry, alive, handler, worker, faults, restarts, races>>

\* manager-not-running is the only check on other stacks that always bites;
\* the other checks (services, ports, files, disk) may fail at any time.  A
\* failed preflight raises outside the try block: nothing is cleaned up.
CtlPreflight(c) ==
    /\ \/ ~StatusRunning /\ CtlMoves(c, "preflight", "launch")
       \/ CtlMoves(c, "preflight", "err")
    /\ UNCHANGED <<row, active, registry, alive, handler, worker, faults, restarts, races>>

\* start_component: the process is started, then the controller's own
\* registry replaces the file.  From then on a stop that had already read the
\* file no longer takes the whole of that stack down.
CtlLaunch(c) ==
    /\ ctl[c].pc = "launch"
    /\ \E next \in {"launch", "attach"} :
           ctl' = [d \in Controllers |->
               IF d = c THEN [ctl[d] EXCEPT !.pc = next]
               ELSE IF ctl[d].target = ctl[c].cfg THEN [ctl[d] EXCEPT !.target = None]
               ELSE ctl[d]]
    /\ alive' = alive \cup {ctl[c].cfg}
    /\ registry' = ctl[c].cfg
    /\ UNCHANGED <<row, active, handler, worker, faults, restarts, races>>

CtlAttached(c) ==
    /\ CtlMoves(c, "attach", "ok")
    /\ UNCHANGED <<row, active, registry, alive, handler, worker, faults, restarts, races>>

CtlGivesUp(c) ==
    /\ CtlMoves(c, "launch", "read") \/ CtlMoves(c, "attach", "read")
    /\ UNCHANGED <<row, active, registry, alive, handler, worker, faults, restarts, races>>

(* oranlabctl stop, and the clean-up of a failed start.                     *)

CtlReadRegistry(c) ==
    /\ ctl[c].pc = "read"
    /\ ctl' = [ctl EXCEPT ![c].pc = "kill",
                          ![c].target = IF StatusRunning THEN registry ELSE None]
    /\ UNCHANGED <<row, active, registry, alive, handler, worker, faults, restarts, races>>

\* Mutant of CtlTerminate: the signals go to whatever active-run.json names.
TerminateActive(c) ==
    /\ ctl[c].pc = "kill"
    /\ ctl' = [ctl EXCEPT ![c].pc = "unlink", ![c].target = None]
    /\ alive' = alive \ {active}
    /\ UNCHANGED <<row, active, registry, handler, worker, faults, restarts, races>>

CtlTerminate(c) ==
    /\ ctl[c].pc = "kill"
    /\ ctl' = [ctl EXCEPT ![c].pc = "unlink", ![c].target = None]
    /\ alive' = alive \ {ctl[c].target}
    /\ UNCHANGED <<row, active, registry, handler, worker, faults, restarts, races>>

CtlUnlink(c) ==
    /\ CtlMoves(c, "unlink", IF ctl[c].kind = "start" THEN "err" ELSE "ok")
    /\ registry' = None
    /\ active' = None
    /\ UNCHANGED <<row, alive, handler, worker, faults, restarts, races>>

\* A finished controller nobody waits for just exits.
CtlExits(c) ==
    /\ ctl[c].pc \in {"ok", "err"}
    /\ ~Awaited(c)
    /\ ctl' = [ctl EXCEPT ![c] = IdleCtl]
    /\ UNCHANGED <<row, active, registry, alive, handler, worker, faults, restarts, races>>

CtlStep(c) ==
    \/ CtlLoad(c) \/ CtlPreflight(c) \/ CtlLaunch(c) \/ CtlAttached(c) \/ CtlGivesUp(c)
    \/ CtlReadRegistry(c) \/ CtlTerminate(c) \/ CtlUnlink(c) \/ CtlExits(c)

------------------------------------------------------------------------------
(* Faults.                                                                  *)

Transitional == {"STARTING", "STOPPING"}

\* Mutant of StartupRows: start-up looks at the RUNNING rows only.
StartupRowsOnlyRunning(leave) ==
    [r \in Runs |-> IF ~leave /\ row[r] = "RUNNING" THEN "LOST" ELSE row[r]]

\* lifespan startup: reconcile_lost_runs(include_transitional=True).  It leaves
\* every row alone when the status command fails or shows a running component.
StartupRows(leave) ==
    [r \in Runs |-> IF ~leave /\ row[r] \in Occupying THEN "LOST" ELSE row[r]]

Skipped(leave) == IF leave THEN InState(Transitional) ELSE {}

\* The pcs of a controller that has yet to launch a component.
Launching == {"load", "preflight", "launch"}

\* The runs whose controller still launches.
Orphans ==
    {r \in Runs : \E c \in Controllers :
        /\ ctl[c].kind = "start" /\ ctl[c].pc \in Launching
        /\ r = IF ctl[c].pc = "load" THEN active ELSE ctl[c].cfg}

\* The threads of the Manager are gone; its rows go through the start-up.
ThreadsLost(leave, orphans) ==
    /\ row' = StartupRows(leave)
    /\ handler' = [h \in Handlers |-> IdleHandler]
    /\ worker' = [w \in Workers |-> IdleWorker]
    /\ faults' = faults + 1
    /\ restarts' = [skipped |-> restarts.skipped \cup Skipped(leave),
                    orphaned |-> restarts.orphaned \cup orphans]
    /\ since' = [h \in Handlers |-> {}]
    /\ UNCHANGED raced

\* The Manager process ends and systemd starts it again.  KillMode=process leaves
\* the controllers and the stack running.
ManagerRestarts ==
    /\ "restart" \in FaultKinds /\ faults < MaxFaults
    /\ \E statusFails \in BOOLEAN : ThreadsLost(StatusRunning \/ statusFails, Orphans)
    /\ UNCHANGED <<active, registry, alive, ctl>>

\* After a reboot the files still name pids, but no process matches them.
HostReboots ==
    /\ "reboot" \in FaultKinds /\ faults < MaxFaults
    /\ \E statusFails \in BOOLEAN : ThreadsLost(statusFails, {})
    /\ ctl' = [c \in Controllers |-> IdleCtl]
    /\ alive' = {}
    /\ UNCHANGED <<active, registry>>

StackCrashes(s) ==
    /\ "crash" \in FaultKinds /\ faults < MaxFaults
    /\ s \in alive
    /\ alive' = alive \ {s}
    /\ faults' = faults + 1
    /\ UNCHANGED <<row, active, registry, handler, worker, ctl, restarts, races>>

------------------------------------------------------------------------------
RequestStep(h) ==
    \/ PostRun(h) \/ ReconcileStatus(h) \/ ReconcileLost(h) \/ SelectActive(h)
    \/ \E r \in Runs : InsertFails(h, r) \/ PostStop(h, r)
    \/ \E r \in Runs, w \in Workers : InsertRun(h, r, w)
    \/ \E w \in Workers : CommitStop(h, w)

WorkerStep(w) ==
    \/ InvokeFails(w) \/ InvokeReturns(w) \/ InvokeTimesOut(w)
    \/ \E c \in Controllers : Invoke(w, c)

Next ==
    \/ \E h \in Handlers : RequestStep(h)
    \/ \E w \in Workers : WorkerStep(w)
    \/ \E c \in Controllers : CtlStep(c)
    \/ ManagerRestarts
    \/ HostReboots
    \/ \E s \in Stacks : StackCrashes(s)

Spec == Init /\ [][Next]_vars

\* Every wait of the workers and of the controller has a deadline, so a thread
\* or process that can take a step eventually takes one, and the list of
\* components to launch ends.  Nothing makes an operator send requests or a
\* fault happen.
CtlLaunchEnds(c) == CtlLaunch(c) /\ ctl'[c].pc = "attach"

Fairness ==
    /\ \A w \in Workers : WF_vars(WorkerStep(w))
    /\ \A c \in Controllers : WF_vars(CtlStep(c)) /\ SF_vars(CtlLaunchEnds(c))

FairSpec == Spec /\ Fairness

(* Operations that do not overlap: no second start or stop is under way     *)
(* while a first one, or a controller it left behind, is.                   *)
Busy ==
    {h \in Handlers : handler[h].pc \in {"insert", "stop"}}
        \cup {w \in Workers : worker[w].pc # "idle"}
        \cup {c \in Controllers : ctl[c].pc # "idle" /\ ~Awaited(c)}

Serial == \A a, b \in Busy : a = b

SerialSpec == Init /\ [][Next /\ Serial']_vars

------------------------------------------------------------------------------
(* Properties.                                                              *)

HandlerPcs == {"idle", "status", "lost", "select", "insert", "stop"}
WorkerPcs == {"idle", "begin", "wait"}
CtlPcs == {"idle", "load", "preflight", "launch", "attach", "read", "kill", "unlink",
           "ok", "err"}

HandlerType == [pc : HandlerPcs, run : Runs \cup {None}, cand : SUBSET Runs]
WorkerType == [pc : WorkerPcs, run : Runs \cup {None}, kind : {"start", "stop"},
               ctl : Controllers \cup {None}]
CtlType == [pc : CtlPcs, kind : {"start", "stop"},
            cfg : Stacks \cup {None}, target : Stacks \cup {None}]

\* Every row, file, thread and process stays in its domain, and a controller that
\* checks or launches a stack has loaded a configuration.
TypeOK ==
    /\ row \in [Runs -> RowStates]
    /\ active \in Runs \cup {None}
    /\ registry \in Stacks \cup {None}
    /\ alive \in SUBSET Stacks
    /\ handler \in [Handlers -> HandlerType]
    /\ worker \in [Workers -> WorkerType]
    /\ ctl \in [Controllers -> CtlType]
    /\ \A c \in Controllers :
           ctl[c].pc \in {"preflight", "launch", "attach"} => ctl[c].cfg # None
    /\ faults \in 0 .. MaxFaults
    /\ restarts \in [skipped : SUBSET Runs, orphaned : SUBSET Runs]

\* The processes on the host while a run is RUNNING are the ones launched from
\* that run's own snapshot, whatever the controller found in active-run.json.
RunningOwnsStack == \A r \in InState({"RUNNING"}) : alive \subseteq {r}

\* A run that is STOPPED has no process left: stop() found it in the registry.
StoppedIsDown == InState({"STOPPED"}) \cap alive = {}

\* Every live stack is in processes.json, the only place stop() and status
\* look: nothing runs that the controller cannot see.
RegistryCoversStack == alive \subseteq {registry}

\* LOST is final for the operator (it can be neither stopped nor restarted), so
\* the stack of a LOST run must never be up: it was gone for good when LOST was
\* written.  The one way out is a run whose controller was still launching when
\* the Manager restarted: start-up finds no component and writes LOST under it.
LostMeansGone == InState({"LOST"}) \cap alive \subseteq restarts.orphaned

\* A STARTING or STOPPING row blocks every start and refuses every stop, so a
\* worker must be on its way to resolve it, even after a restart of the Manager
\* or the host, unless start-up skipped the row: its status command failed or
\* found a component running.
HasWorkerUnlessSkipped ==
    \A r \in InState(Transitional) \ restarts.skipped :
        \E w \in Workers : worker[w].pc # "idle" /\ worker[w].run = r

\* A start or a stop that was accepted is eventually decided, over timeouts,
\* failures and restarts, unless a start-up skipped its row.
Resolves ==
    \A r \in Runs : row[r] \in Transitional
                      ~> r \in restarts.skipped \/ row[r] \notin Transitional

\* With any number of overlapping requests the rows implement RunContract: only
\* a row written on a read that another request had overtaken leaves it.
Contract == INSTANCE RunContract WITH Runs <- Runs, row <- row, raced <- raced
ImplementsContract == Contract!Spec

\* The 409 of start_run, a SELECT followed much later by an INSERT, keeps the
\* stack to one run in every case but one: of two runs that are starting or
\* running, one was inserted after another request's INSERT had overtaken its
\* SELECT.
OneLiveUnlessRaced ==
    \A r, q \in InState({"STARTING", "RUNNING"}) : r = q \/ {r, q} \cap raced # {}

\* The life of a run, in order: created, starting, decided, being ended.  An
\* aborted identifier is spent at once.
Closing == {"STOPPING", "STOPPED", "STOP_FAILED", "LOST"}

Phase(state) ==
    CASE state = "NONE" -> 0
      [] state = "STARTING" -> 1
      [] state \in {"RUNNING", "START_FAILED"} -> 2
      [] state \in Closing -> 3
      [] state = "ABORTED" -> 4

\* However many requests overlap, a row never goes back: once a stop or a
\* reconciliation has taken it, no worker makes it RUNNING again, and an outcome
\* of a start is never replaced by another.  Only the states that end a run may
\* still overwrite each other, because a worker writes its outcome without
\* looking at the row, and so does a reconciliation that selected it earlier.
OnlyForward ==
    [][\A r \in Runs :
           row'[r] # row[r] => \/ Phase(row[r]) < Phase(row'[r])
                               \/ {row[r], row'[r]} \subseteq Closing]_row

------------------------------------------------------------------------------
(* Inductive strengthenings, used by RunLifecycleProofs.                    *)

\* Behind OnlyForward: a row that is starting belongs to one worker alone, and
\* what a stop, a stop worker or a reconciliation has in hand has been started.
ForwardInv ==
    /\ \A h \in Handlers :
           /\ handler[h].pc = "stop" => /\ handler[h].run \in Runs
                                       /\ row[handler[h].run] \in Stoppable \cup Closing
           /\ \A r \in handler[h].cand : row[r] \in {"RUNNING"} \cup Closing
    /\ \A w \in Workers : worker[w].pc # "idle" =>
           /\ worker[w].run \in Runs
           /\ worker[w].kind = "start" => row[worker[w].run] = "STARTING"
           /\ worker[w].kind = "stop" => row[worker[w].run] \in Closing
    /\ \A v, w \in Workers :
           /\ worker[v].pc # "idle" /\ worker[w].pc # "idle"
           /\ worker[v].run = worker[w].run /\ worker[v].kind = "start"
           => v = w

\* Behind ImplementsContract and OneLiveUnlessRaced: what a request has read still
\* holds of every row that no other request has written since, and the row of an
\* unraced stop waits for the one worker of that stop.
RaceInv ==
    /\ ForwardInv
    /\ since \in [Handlers -> SUBSET Runs]
    /\ raced \in SUBSET Runs
    /\ OneLiveUnlessRaced
    /\ \A h \in Handlers :
           /\ handler[h].pc = "insert" /\ since[h] = {} =>
                  InState({"STARTING", "RUNNING"}) = {}
           /\ handler[h].pc = "stop" /\ handler[h].run \notin since[h] =>
                  row[handler[h].run] \in Stoppable
           /\ handler[h].pc \in {"status", "lost"} \/ handler[h].cand = {}
           /\ \A r \in handler[h].cand \ since[h] : row[r] = "RUNNING"
    /\ \A v, w \in Workers :
           /\ worker[w].pc # "idle" /\ worker[w].kind = "stop" /\ worker[w].run \notin raced
           => /\ row[worker[w].run] = "STOPPING"
              /\ worker[v].pc # "idle" /\ worker[v].run = worker[w].run => v = w

Attempted == {"STARTING", "START_FAILED", "LOST"}
NoneRunning == InState({"RUNNING"}) = {}

\* A worker and the controller it waits for agree on the run.
WorkerAgrees(w) ==
    worker[w].pc # "idle" =>
        /\ worker[w].run \in Runs
        /\ worker[w].kind = "start" => NoneRunning
        /\ worker[w].kind = "start" /\ worker[w].pc = "begin" =>
               active = worker[w].run /\ row[active] \in Attempted
        /\ worker[w].pc = "wait" =>
               /\ worker[w].ctl \in Controllers
               /\ ctl[worker[w].ctl].pc # "idle"
               /\ ctl[worker[w].ctl].kind = worker[w].kind
               /\ worker[w].kind = "start" =>
                      /\ ctl[worker[w].ctl].pc = "load" => active = worker[w].run
                      /\ ctl[worker[w].ctl].pc \in {"preflight", "launch", "attach", "ok"}
                            => ctl[worker[w].ctl].cfg = worker[w].run

\* What a controller may still do to the stack, by where it is.
CtlAgrees(c) ==
    /\ ctl[c].kind = "start" /\ ctl[c].pc # "idle" => NoneRunning
    /\ ctl[c].kind = "stop" => ctl[c].pc \in {"idle", "read", "kill", "unlink", "ok"}
    /\ ctl[c].pc = "load" => active \in Runs /\ row[active] \in Attempted
    /\ ctl[c].kind = "start" /\ ctl[c].pc \in {"preflight", "launch", "attach", "ok"} =>
           ctl[c].cfg \in Runs /\ row[ctl[c].cfg] \in Attempted
    /\ ctl[c].kind = "start" /\ ctl[c].pc \in {"launch", "attach", "ok"} =>
           alive \subseteq {ctl[c].cfg}
    /\ ctl[c].pc = "kill" => alive \subseteq {ctl[c].target}
    /\ ctl[c].pc = "unlink" => alive = {}
    /\ ctl[c].pc = "ok" /\ ctl[c].kind = "stop" => alive = {}

\* Behind the safety of operations that do not overlap.
SerialInv ==
    /\ TypeOK
    /\ Serial
    /\ RunningOwnsStack
    /\ StoppedIsDown
    /\ RegistryCoversStack
    /\ \A h \in Handlers : /\ handler[h].pc = "insert" => NoneRunning
                           /\ handler[h].pc = "stop" => handler[h].run \in Runs
    /\ \A w \in Workers : WorkerAgrees(w)
    /\ \A c \in Controllers : CtlAgrees(c)
==============================================================================
