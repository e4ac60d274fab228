# A formal model of the O-RAN lab

The lab runs a software radio network (gNB, broker, UEs) on one host. An
Experiment Manager (FastAPI, SQLite) starts and stops *runs* of it through a
root controller (`scripts/oranlabctl.py`), starts *traffic jobs* inside the
namespaces of the UEs through a helper (`scripts/oranlab-traffic.py`), and hosts
the *VoiceGuard* xApps, which pace video traffic while a voice call suffers. A
collector tries pacing policies in a grid of scenarios to train one of them.

What is hard in it is not computation but concurrency: request threads, worker
threads, root processes that outlive the Manager, files and a database that they
all write without a common lock, signals that may come too early, radio and RC
commands that may half succeed, and campaigns of hours that are interrupted. This
directory models those parts in TLA+, checks them with TLC and proves every
safety property with TLAPS.

## 1. Inventory

| Part | State | Operations | Hard behaviour | What makes it correct | Module |
|---|---|---|---|---|---|
| Run lifecycle (`main.py`, `controller.py`, `oranlabctl.py` from outside) | `experiment_runs.state`, `active-run.json`, `processes.json`, the live stack | start, stop, reconcile, the two workers, `invoke`, start-up | check-then-insert without a lock, 120 s timeout of a root process that goes on, restart of the Manager alone, reboot, crash of the stack | rows move only forward and one run holds the stack unless requests race, a RUNNING run owns the stack, STOPPED is down, LOST is gone, every request is decided | `RunLifecycle`, `RunContract` |
| Lab controller (`oranlabctl.py` from inside) | process groups, their registry, the commands in progress | `start`, `stop`, `recover-ue`, component by component | a crash between spawn and registry write, a write that fails, wrappers that die before their child, pids of another boot, overlapping commands | no process escapes the registry, no foreign pid is signalled, recovery rebuilds the same run, it implements the controller of `RunLifecycle` | `LabController` |
| Traffic jobs (`main.py`, `oranlab-traffic.py`) | `traffic_jobs.status`, `traffic_processes`, helper processes | create a batch, stop one, stop all, worker, sweeps of a stopped or lost run, restart | requests served at once, blind UPDATEs over newer outcomes, signals that are refused or come before registration or before the handler is installed, a helper that dies before its payload | an outcome means the helper is gone, every helper is owned, a stop reaches its helper, one batch per UE unless requests race, threads end | `TrafficJob` (without ports) |
| VoiceGuard processes in the Manager | `voiceguard_processes`, state file, pids, pacing file | start, stop, status, the signals of stop worker and shutdown | restart of the Manager, two starts, SIGTERM before Python has handlers, kills | one xApp per run and the Manager knows it, unpaced without one, none outlives its run | `VoiceGuardProcess` |
| VoiceGuard Rule V1 (`xapps/voiceguard`) | pacing file, RC grant limits, counters of the loop | sample, protect, roll back, restore, clean-up | RC calls that fail, apply in part or answer what cannot be decoded, exceptions and signals anywhere, reads that fail | ends unpaced, reports a reduction, protects on evidence of more than one sample, releases a whole cooldown after the last call and eventually | `VoiceGuardRules` |
| VoiceGuard RF V2, both topologies (`xapps/voiceguard_rf`, `voiceguard_rf_3ue`) | pacing file, decision state | sample, infer, strengthen, restore, clean-up | combinations of calls that change, inference and writes that fail | only strengthens a decided protection, releases level by level, reports what it does, reaches the strongest level, releases in the end | `VoiceGuardRF` |
| Radio broker and admission (`multi_ue_scenario.py`, `oranlabctl.py`) | stage file, stage of the broker, UE logs, F1AP identifiers | stages 1 to n, attach, loss of link | a broker that lags, files and logs of an earlier start | one new UE on the air at a time, a start that succeeds has brought every UE | `Admission` |
| KPM exporter (`kpm_exporter.py`) | identifiers reported, their age | collector loop, report, age, name | names inferred from the order of attachment, a collector that exits | a report carries the name of its UE, an attached UE is reported | `Admission` |
| RF data collection (`voiceguard_rf_3ue/collect.py`) | rows in memory, three files, pacing file | scenario, window, label, checkpoint, resume, clean-up | interruption or kill between any two writes | a completed scenario is whole, labelled right, kept; the clean-up restores and saves | `Collector` |
| RF labelling (`relabel.py`) | the same files | read, rewrite two of them | races and alternates with the collector | the same | `Collector` |
| Ten-UE collector, training, analysis | CSV files | | the loop of the collector again; offline statistics | | not modelled |
| Configuration generator, experiment editor | files and rows | CRUD | sequential | | not modelled: data |
| Traffic measurement, UE exporter, frontend, Prometheus, deployment, configuration | | | | | not modelled: pure I/O or data |
| RC bridge and C xApps | | one E2 control per call | its failures are inputs of `VoiceGuardRules` | | not modelled |
| FlexRIC, OCUDU, Open5GS, srsRAN | | | | | not modelled: vendored |

Interaction: a request handler writes a row and `active-run.json` and starts a
thread; the thread invokes a root process through `sudo`; that process reads
`active-run.json`, starts the components and writes `processes.json` after each;
it then admits the UEs one by one through a stage file that the broker polls, and
reads their logs. A restart of the Manager loses handlers and threads but neither
root processes nor stack (`KillMode=process`). Stopping or losing a run sweeps its
traffic jobs, and stopping signals its xApp. The VoiceGuard processes read the jobs
over HTTP and act through the pacing file that the short-video helpers read every
second, and through the RC bridge.

The hazards this leads to are listed, each at its line, under `hazards` in
`PROJECT.json`, with the properties that cover them.

## 2. Modules

| | Module | Models | Theorems |
|---|---|---|---|
| 1 | `RunContract` | abstract: how the row of a run may move and that one run holds the stack, for rows no two requests raced for | |
| 2 | `RunLifecycle` | `main.py` run endpoints and workers, `controller.py`, the controller processes; implements 1 | `RunLifecycleProofs` |
| 3 | `LabController` | `oranlabctl.py`, process by process; implements the controllers of 2 | `LabControllerProofs` |
| 4 | `TrafficJob` | jobs, worker threads and helpers of one run | `TrafficJobProofs` |
| 5 | `XappContract` | abstract: what an xApp does with the pacing file | |
| 6 | `VoiceGuardProcess` | the xApps as processes of the Manager, which take the steps of 5 | `VoiceGuardProcessProofs` |
| 7 | `VoiceGuardRules` | the Rule V1 loop; implements 5 | `VoiceGuardRulesProofs` |
| 8 | `VoiceGuardRF` | the RF loop of both topologies; implements 5 | `VoiceGuardRFProofs` |
| 9 | `Admission` | admission of the UEs, broker, gNB identifiers and KPM exporter | `AdmissionProofs` |
| 10 | `Collector` | the three-UE data collection and its relabelling | `CollectorProofs` |

Each `MC*` module instantiates its module for TLC (`Admission`, `Collector` and
`VoiceGuardProcess` need no definitions of their own and are checked directly); each
`*Proofs` module holds the theorems. No module declares a RECURSIVE operator. An
operator whose comment begins with "Mutant of" is not part of a model: it is what
a plausible bug would make of the definition after it, and `PROJECT.json` names the
property that notices the exchange.

Modules compose what interacts rather than one process each. `LabController` is
checked and proved to implement the controllers of `RunLifecycle`, so that what is
shown there about runs and rows also stands on the processes below.
`VoiceGuardProcess` has xApps that take the steps of `XappContract`, and both loops
are checked and proved to implement that contract, so that what is shown there about
pacing holds of either xApp. `Admission` has controller, broker, gNB, UEs and exporter
in one; `Collector` has collector and `relabel.py`.

## 3. How the models correspond to the code

### RunLifecycle

`row` is `ExperimentRun.state`; `active` is the run that
`experiments/runs/active-run.json` names; `registry` is the stack whose pids
`run/manager/processes.json` lists; `alive` the stacks with processes. A stack is
named by the configuration it was launched from, `Baseline` when the file was
missing. `handler`, `worker` and `ctl` are the request threads, the start/stop
threads and the controller processes, each at its next point of interaction with
the others.

- `start_run` is `PostRun`, `ReconcileStatus`, `ReconcileLost` (only when a
  RUNNING row exists), `SelectActive`, then `InsertRun` or `InsertFails`.
  No lock is held from the SELECT to the INSERT, so each is a step.
- `stop_run` is `PostStop` (the check) and `CommitStop` (the write).
- `run_start_worker` and `run_stop_worker` are `Invoke` and one of
  `InvokeReturns`, `InvokeFails`, `InvokeTimesOut`; they write the outcome without
  reading the row again. `InvokeFails` is also a stop that raises at the signals
  of its traffic helpers (`main.py:845`), before it invokes anything.
- `oranlabctl start` is `CtlLoad`, `CtlPreflight`, `CtlLaunch` (once per
  component), `CtlAttached` or `CtlGivesUp`; `stop`, and the clean-up of a failed
  start, is `CtlReadRegistry`, `CtlTerminate`, `CtlUnlink`.
- Faults: `ManagerRestarts` (threads lost, controllers and stack go on, then the
  start-up reconciliation), `HostReboots`, `StackCrashes`, and the time-out.
- History, on which no step depends: `restarts` has the rows in transition that a
  start-up skipped and the runs whose controller was still launching when the
  Manager restarted; `since` and `raced` have the rows that were written while a
  request went by an older read, and those that such a request then wrote itself.

### LabController

A process group is named by the command that started it and its component; a
component started through `runuser` is a leader (whose pid is registered) and a
child. `file` is what `processes.json` lists; `foreign` are listed pids that name
other programs since a reboot; `cmd` holds, per command, where it is, the
configuration it loaded, its next component and what it read from the registry.

- `start()` is `Load`, `Preflight`, then `Spawn` and `Register` for each component
  (`start_component` and `write_registry`, between which the process is in no file),
  `Attached`, or `GivesUp` into the clean-up.
- `stop()` is `ReadRegistry`, `EndBatch` for the KPM exporter, `EndBatch` for the
  rest, `Unlink`; `Ends` lets leader and child end one by one before the deadline.
- `recover_ue()` is `RecoverLoads` followed by a stop that keeps `active-run.json`
  and a start. Both load the configuration first, and `LoadRaises` ends either there:
  `recover_ue()` before it has stopped anything, its second load after.
- Faults: `ComponentCrashes`, `WrapperDies`, `RegisterFails`, `HostReboots`.

`ImplementsController` instantiates `RunLifecycle` with a refinement mapping:
`AbsRegistry` and `AbsAlive` are the configurations the listed and the live groups
were launched from, `AbsCtl` folds spawn and register into `launch` and the two
batches into `kill`. Every step is then a controller step of `RunLifecycle`, one of
its environment, or invisible.

### TrafficJob

One run and its jobs. A job has the status of its row, the program counter of its
worker thread, and the state of its helper process; requests are threads, numbered
as they arrive and all served at once, that read, check and write in separate
transactions. `traffic_worker` is `LoadRow`,
`StopUnstarted` or `MarkRunning`, `SpawnHelper`, `RegisterProcess`,
`WritePayload`, `Reap`, `FinishJob`; the helper is `InstallSignals`,
`BadRequest`, `StartClient`, `ClientEnds`. Where SQLAlchemy turns an attribute
assignment into an UPDATE by primary key, the model writes whatever the row holds
by then. Where a SELECT and the UPDATE happen inside one write transaction
(`run_stop_worker`, `reconcile_lost_runs`), the model takes them together.
`SendSignals` is the loop of `send_signal` in both stops and in the stop of the run:
helpers without a handle are passed over, and one that cannot be signalled (the
helper is root's) raises, so that the others get nothing and the stop of the run
ends in STOP_FAILED. `asked` and `missed` are the jobs whose stop was committed and
those it could not reach; `since`, `raced` and `revived` the jobs that were inserted
between the check and the insert of another request, and those that a stale row
made active again. No step depends on them.

### VoiceGuardProcess

xApps are numbered in the order of their start, the number standing for the pid.
`Shown` is what `read_voiceguard_state` makes of handle and state file.
`start_voiceguard` is `StartChecks` (the run is RUNNING, checked without the lock)
and `StartSpawns` or `StartRefused` (under `voiceguard_lock`); `stop_voiceguard` is
`StopReads` and `StopSignals`; `run_stop_worker` is `WorkerSignals` and
`WorkerEnds`. An xApp goes through boot (where SIGTERM simply ends it) and its first
state file; from then on `Begins`, `Samples`, `Leaves`, `Restores` and `WritesFinal`
are steps of `XappContract`, instantiated for that xApp (`Loop(x)`), with what the
process adds to them: the state file, and that only this xApp moves. `blind`,
`unclean` and `strays` are history variables that say which exceptions of the
properties apply. `WorkerFails` is the stop worker that raises at a traffic helper
before it gets to the xApp.

### VoiceGuardRules and VoiceGuardRF

Both are one process, its environment being calls that come and go, a signal at
any time, and files and an RC bridge that answer well or badly. Time is a
distance: seconds to the end of the cooldown, or to the next restoration step.
The metrics enter as one bit (`degraded`, or `ok` for "meets the SLA"), the forest as
any of four levels. In `VoiceGuardRules` an RC call that fails has applied any
part of what it was asked (`AfterRc`), and one whose output is no text raises
`ValueError` (`BridgeGarbles`): the loop takes that for a failed read, so the sample
ends where it was, with the pacing it had written. `garbled` remembers the last such
call, `unseen` the seconds since a good sample saw a voice call; no step depends on
either. In `VoiceGuardRF` a failed write is an
exception in the middle of a sample: what was assigned before stays assigned
(`ApplyFails`). Both begin with whatever pacing an earlier xApp left in the file,
and either may fail to reset it.

Each instantiates `XappContract` with `Phase`, which folds the points of the loop:
in Rule V1 only the RC call of a protection is a `sample` one can be signalled in,
since the other calls leave the file alone.

### Admission

`ctl` is the controller in `start()` and `stop()`, `file` the stage file, `broker`
the stage the broker has applied. `Admit` and `SeesAttach` are the loop over
`set_admission_stage` and `wait_for_log`; `BrokerPolls` is the broker's timer.
`Connects` gives the next gNB-CU-UE-F1AP-ID, as the gNB does, also to a UE that
comes back; `UeName` is `ue_name` of the exporter, which counts. The collector
process of the exporter starts, exits and is started again (`CollectorStarts`,
`CollectorExits`); reports age after five seconds.

### Collector

`mem` are the three lists the collector keeps, `disk` the three files. `Launch`
with or without `--resume`, `NextScenario`, `Prepare` and `Sample` for each policy,
`Label`, `List`, then the three writes of `checkpoint()`, each a step, and `Finally`.
`Interrupted` may come between any two of them, `Killed` too. `relabel.py` reads,
writes the raw rows back and writes training rows. A window is whether it was
acceptable. `torn`, `raced` and `dropped` are history variables for the three
situations the properties except.

## 4. Runs

Deadlock is not an error in any of them: every part may stop (all identifiers of
runs and jobs used up, the process over), hence `CHECK_DEADLOCK FALSE`.

| Run | Instance | Shows |
|---|---|---|
| `RunSerial` | 3 runs, 2 handlers, 2 workers, 2 controllers, 3 faults of any kind; operations do not overlap (`SerialSpec`) | `RunningOwnsStack`, `StoppedIsDown`, `LostMeansGone` |
| `RunResolves` | 2 runs, 1 handler, 2 workers, 2 controllers, 1 fault of any kind, any overlap; fairness | `Resolves` |
| `RunPool` | 2 runs, 2 handlers, 3 workers, 1 controller, 2 faults of any kind, any overlap | `HasWorkerUnlessSkipped`, `OnlyForward`, and the rows implement `RunContract` (`ImplementsContract`) |
| `LabCommands` | a finished start (stack up, or failed) and two more commands that may overlap; the wrapped KPM exporter and one UE; one fault of crash, dead wrapper, failed write, reboot | `NothingLeaks`, `RecoversSameRun`, `ForeignSpared`, and it implements the controllers of `RunLifecycle` (`ImplementsController`) |
| `TrafficJobs` | 2 jobs (one continuous) of one UE, 2 requests served at once beside the stop of the run, 1 fault of restart, lost run, refusal of sudo and refused signal; fairness (1.1 million states) | `FinalMeansNoHelper`, `HelperOwned`, `OneBatchUnlessRaced`, `StopsTakeEffect`, `WorkersEnd` |
| `VoiceGuardXapps` | 2 request threads, 2 xApps, 2 faults (restart, reboot, kill, failed write, refused signal); fairness | `StatusNamesXapp`, `UnpacedWhenOff`, `EndsWithRun` |
| `RulesLoop` | 3 samples, cooldown 3, every configuration; fairness | `UnpacedOrReported`, `DefaultOffMeansBaseline`, `CooldownOfLastCall`, `ProtectsSustained`, `PacingReleased`, and it implements `XappContract` (`ImplementsXapp`) |
| `RFLoop` | 2 voice UEs, windows of 3, 2 samples, every configuration; fairness | `TypeOK`, `UnpacedOrReported`, `OnlyStrengthens`, `GradualRelease`, `ReleasedIfWritable`, `ReachesStrongest`, and it implements `XappContract` (`ImplementsXapp`) |
| `Admission` | UEs in slots 1 and 3, 3 identifiers, 2 starts; fairness | `OneAtATime`, `UpMeansAllAttached`, `NamesRightUnlessEarly`, `AttachedIsReported` |
| `Collector` | 2 scenarios, 2 policies, 2 attempts, 1 fault, 1 relabelling | `CompletedIsWhole`, `TrainingIsThere`, `CompletedStays`, `EndsClean` |

A configuration is chosen in `Init` and never changes: whether the loop is closed,
whether the protected grant limits differ from the baseline (`RulesLoop`), and
whether writes of the pacing file may fail (`RFLoop`).

The bounds are enough for the cases that matter: two runs and two workers give every
overlap of an old stop with a new start, two request threads and a third worker two
stops or two starts at once beside another; three runs without overlap give a run
that is started after one that failed and one that was lost. Two commands beside a
finished one give every pair of start, stop and recovery on a stack that is up, down
or partly down, and a component with a wrapper and one without are the two kinds
there are. Two jobs of one UE give every conflict of batches; two requests
at once, with the stop of the run beside them, are two creations, or a creation whose
jobs are stopped by a request, by the sweep of the run or by both. Two xApps are an
old one and its successor. Two voice UEs give combinations that grow, shrink and are
exchanged; counters of two or three tell "in a row" from "once". Slots 1 and 3 make
the position of a UE differ from its number, a third identifier allows one
re-attachment, a second start leaves the files and logs of the first behind. Two
scenarios with two policies and two attempts give a campaign that is interrupted
before, inside and after each of its loops. The theorems of section 6 cover the
other values of the constants, among them any number of request threads. `RunResolves`
has one of them: what a second one adds is the races that `RunPool` is about. Sets of interchangeable names are symmetric in the safety runs only.

### What the code does against what it says

Each of these runs checks one statement of a document or comment and finds the
behaviour that contradicts it.

| Run | Property | Behaviour |
|---|---|---|
| `FindOverlap` | `RunningOwnsStack` | The stop of an old START_FAILED run deletes `active-run.json` that a new start has just written; the new run is RUNNING on the baseline stack. |
| `FindMisnamed` | `NamesRight` | A UE that loses its link and comes back before the others are admitted takes the identifier that the exporter counts as the next UE's (`kpm_exporter.py:15-20` against `:93`); from then on reports carry the wrong names. |

More was observed while modelling, each visible in a model but without a run of
its own.

Runs and their controllers:

- When the Manager restarts while the controller it invoked has yet to launch a
  component, the row becomes LOST and the stack comes up afterwards, out of reach
  of any stop; `LostMeansGone` excepts exactly the runs of such controllers
  (`restarts.orphaned`).
- Two starts that both pass the SELECT of `main.py:782` before either INSERT are two
  runs, and a reconciliation or a stop that goes by an older read overwrites the row
  of another request; `ImplementsContract` and `OneLiveUnlessRaced` except exactly
  the rows that are written so (`raced`). `OnlyForward` holds of them too, although
  the states that end a run may overwrite each other (two stops of one run can turn
  STOPPED into STOP_FAILED, or LOST into STOPPED).
- `reconcile_lost_runs` returns without touching any row when components run, so a
  row that a restart of the Manager left in STARTING or STOPPING stays there
  (`main.py:442`, `:130-132`), and so it does when the status command fails
  (`:439`); `HasWorkerUnlessSkipped` and `Resolves` except those rows and no others.
- A `recover-ue` whose start fails removes `active-run.json`; the next start builds
  the baseline (`oranlabctl.py:549-551`).
- A `write_registry` that fails after its `Popen` leaves a process in no file, and a
  `runuser` wrapper that dies leaves a child that nothing lists. `NothingLeaks` says
  that these are the only ways.

Traffic jobs:

- A stop between the commit of RUNNING and the registration of the handle signals
  nothing; a continuous job then never ends, and a second stop answers 409
  (`main.py:996`). A signal that is refused leaves the remaining helpers of a stop
  unsignalled too. `StopsTakeEffect` says that a stop is lost in no other way but one:
  a run that is found LOST makes a thread that has not begun forget its stop.
- A stop that read the row before the worker finished writes STOP_REQUESTED over
  the outcome (`main.py:1140`), and the row stays active; two requests for one UE
  may both pass the duplicate check (`main.py:1083`). `OneBatchUnlessRaced` says that
  these are the only ways to two batches of a UE.
- A job can be created in a run that was RUNNING when it was checked and is not
  any more (`main.py:1071`).

VoiceGuard:

- `start_voiceguard` checks that the run is RUNNING long before it takes the lock
  (`main.py:1242`), so an xApp may start in a run that is being stopped.
  `run_stop_worker` and `reconcile_lost_runs` do not signal an xApp that an earlier
  Manager started. After a restart before the first state file is written, a
  second xApp can be started beside the first.
- When a traffic helper cannot be signalled, `run_stop_worker` signals no xApp and
  stops no stack: the run is STOP_FAILED with both going on (`main.py:845`).
- An RC bridge that answers a protection with bytes that are no text is taken for a
  failed read of the metrics: the video stays reduced, unreported, until the next
  protection or the end of the xApp (`voiceguard.py:574-587`); `UnpacedOrReported` and
  `PacingReleased` except that answer.
- After a failed protection and roll-back Rule V1 reports OFF, "baseline restored",
  with protected grant limits in the gNB (`voiceguard.py:595`);
  `DefaultOffMeansBaseline` is about the default limits, where both are equal.
- One failed write of the last restoration step leaves the video paced while the RF
  xApp reports OBSERVING (`voiceguard_rf.py:506`); `ReleasedIfWritable` excludes it.
- The RF closed loop runs even when the baseline limits were not acknowledged.
- `voiceguard.py:251-253` and `schemas.py:195-197` take the F1AP identifiers 0, 1
  and 2 for the three UEs, which re-attachments (`FindMisnamed`) invalidate.

Data collection:

- The documented commands give `relabel.py` and `collect.py` the same
  `training.csv`, although `collect.py:257-259` says the files differ: a resume
  after a relabelling drops the training rows of completed scenarios.
- A fresh campaign in an old directory is torn between old and new files until its
  first checkpoint is complete; `relabel.py` beside a running collector overwrites
  what it has just saved; SIGTERM skips the collector's `finally`.
- `CompletedIsWhole`, `TrainingIsThere`, `CompletedStays` and `EndsClean` except
  exactly these, by the history variables `torn`, `raced` and `dropped` and the
  step `Killed`.

## 5. Fairness

Only what the code's scheduling gives.

- Worker threads and controllers take weakly fair steps: every wait in them has a
  deadline. Of the traffic jobs only the workers and helpers of limited jobs are fair. The loop of `CtlLaunch` over the components ends, which needs strong
  fairness of its last step because the model does not count components. A helper
  with a duration ends by itself.
- Sampling loops are weakly fair, since every request and every bridge call has a
  timeout, and a good sample is strongly fair: metrics that can be read again and
  again are read again and again.
- The steps of an xApp and of the stop worker are weakly fair for the same reason.
- The collector loop of the exporter restarts its process after a pause (weak
  fairness of `CollectorStarts`), and a UE that stays attached is reported now and
  then (strong fairness of `Report`, since the collector process may exit between).
- Operators, calls, signals, UEs that attach or lose the link, and faults are never
  fair. `LabController` and `Collector` are checked for safety only.

## 6. Proofs

All theorems hold for every value of the constants, under the named
assumptions of the modules (names are distinct, sizes are positive).

- `RunLifecycleProofs`. `TypeCorrect`. `SerialSafe` and `StoppedRunsAreDown`: while
  operations do not overlap, under every fault, a RUNNING run owns the stack, a
  STOPPED one is down and the registry covers what lives. None of these is
  inductive; `SerialInv` adds what a worker and the controller it waits for agree on
  (`WorkerAgrees`) and what a controller may still do to the stack by where it is
  (`CtlAgrees`). `LostIsGone`, for the same: `NoLostLaunch` adds that whatever row is
  selected to become LOST is spent, so no worker or controller still launches for it
  but those a restart orphaned. The others hold for any number of request threads and
  any overlap. `RowsOnlyMoveForward`: a row never goes back. `ForwardInv` adds that a
  start worker's row is STARTING and its own alone, and that whatever a stop, a stop
  worker or a reconciliation has in hand has been started, so that none of them can
  meet a worker that would write RUNNING later. `OneLive` and `RowsKeepContract`: with
  the rows excepted that a request wrote on an overtaken read, at most one run is
  starting or running, and every change of a row is a step of `RunContract`. Neither
  follows from the rows alone: `RaceInv` adds that what a request has read still holds
  of every row that no other request has written since, and that the row of an unraced
  stop is STOPPING and waits for one worker. `TransitionsAreOwned`: a STARTING or
  STOPPING row has a worker unless a start-up skipped it.
- `LabControllerProofs`. `TypeCorrect`, with what every pid and every program
  counter agree on. `NothingIsLeaked`: a process in no file belongs to a command
  that is about to register it, unless a write failed or a wrapper died. `LeakInv`
  strengthens it by what a command in the middle of a stop still has in memory
  (`Tracked`): between reading the file and unlinking it the file is not enough.
  `RecoveryKeepsTheRun` from `AloneInv` (who runs when nothing overlaps) and
  `RecoverInv`. `ForeignPidsAreSpared` from `ForeignInv`: after a reboot a listed
  pid is never signalled, because its command line is compared first.
  `ControllerIsImplemented`: under the exceptions that the property itself names,
  every step is one of the controllers of `RunLifecycle`, of its environment, or
  none. `GroupsInv` carries it: a command without a configuration has started
  nothing; `processes.json` lists all that its last writer registered; whatever runs
  is registered or about to be; and what a stop has read are groups of one command,
  with all of it that still runs. From it `StatusAgrees` and `Targets` show that the
  abstract registry, stack and targets mean what the concrete ones do, and one lemma
  per kind of step (`...View`) that the step looks like one of the abstract steps.
- `TrafficJobProofs`, for any number of requests served at once and any faults.
  `TypeCorrect`. `HelpersAccountedFor` and `HelpersAreOwned` from `JobInv`, which
  relates for each job the row, the point its thread is at and the state of its
  helper. `StopsArrive` from `StopInv`: wherever its thread is, something stands
  between a stopped job and a helper that goes on, be it the row or what the thread
  remembers of it, a signal still to come, or a helper that has it. `OneBatch` from
  `BatchInv`: of the UEs of a request about to insert, every active job is one that
  was inserted since its check or that a stale row brought back.
- `VoiceGuardProcessProofs`. `TypeCorrect`. `StatusIsRight`: unless a restart made
  it blind, the Manager's status names the xApp that lives. `PacingEndsWithXapp`:
  without an xApp the traffic is not paced, unless one was killed uncleanly. Both
  rest on `XappMoves`, what the steps of `XappContract` do to a process.
- `VoiceGuardRulesProofs`. `TypeCorrect`. `PacingIsSafe` from `PacingInv` (where in
  the loop the pacing can be reduced at all). `ReleaseWaits`: what the countdown of
  the loop and the time since a sample saw a call have to do with each other, over
  failed samples and calls that come and go. `OffIsBaseline`
  from `BaselineInv`: which limits each step of the loop leaves in the gNB, however
  far a failed RC call got. `ProtectionIsSustained` from `SufferingInv`: bad samples
  are counted in a call only. `RulesIsAnXapp`: step by step, the loop implements
  `XappContract`.
- `VoiceGuardRFProofs`. `TypeCorrect`, `PacingIsReported`,
  `SafetyLayerOnlyStrengthens` and `ReleaseIsGradual`, from `Inv`: the pacing file
  is the policy as long as writes succeed, and a policy above EQUAL_100 is
  reported. Two lemmas carry the steps: `Applied`, what adopting a level does, and
  `Sampled`, which level a sample can adopt. `RFIsAnXapp`: step by step, the loop
  implements `XappContract`.
- `AdmissionProofs`. `TypeCorrect`; `OneAdmittedAtATime` from `Phases` (what exists
  at each point of a start and a stop) and `Stages` (how file, broker and the
  position of the controller relate, also when the file is of an earlier start);
  `UpBringsEveryUe` from `Stages` and `GivenOut`; `NamesAreRight` from `GivenOut`
  and `InOrder`: while nobody comes back early, the UEs connected so far are those
  of the stages before, each once, so the number of identifiers given out is the
  position of the UE (the counting lemmas `Served` and `ConnectsInOrder`).
  `AdmittedStay`: a UE that has been let on the air is not muted again while its
  broker runs.
- `CollectorProofs`. `TypeCorrect`, `CompletedScenariosAreWhole`,
  `CompletedScenariosHaveRows`, `CompletedScenariosStay` and `CollectorEndsClean`,
  from three invariants: `Flow` (what memory holds at each point of the loop),
  `Kept` (how the three files may differ from memory between the three writes of a
  checkpoint) and `Trained` (which rows have been labelled).

Only model-checked: everything under fairness (liveness and ENABLED are out of
the prover's reach: `Resolves`, `WorkersEnd`, `PacingReleased`,
`ReleasedIfWritable`, `ReachesStrongest`, `AttachedIsReported`, `EndsWithRun`).
Only proved: `OneLiveUnlessRaced` and `RegistryCoversStack`, which a stronger property
of a run contains, `StaysAdmitted`, and the types of all modules but `VoiceGuardRF`.

## 7. Assumptions and what is left out

- SIGINT that the Manager sends to the handle of a job either reaches the helper
  behind `sudo` or is refused and raises; it is not lost in silence.
- SQLite runs one write transaction at a time; a SELECT and an UPDATE of one write
  transaction are one step, an ORM object that was loaded earlier is a stale copy.
- A thread of the Manager that cannot be created, or a database that cannot be
  written, is not modelled.
- A pid is not reused by a process with the same command line.
- In `RunLifecycle` a stack is one thing; which of its components live is the
  subject of `LabController`.
- In `VoiceGuardRF` the RC baseline is sent once and never looked at again, as in
  the code; it always equals the limits in force, so it is only an acknowledgement.
- The wording of events and messages, measurements, features and files that
  nothing else reads are left out.

### Not modelled

- The choice of ports (`next_traffic_port`) is one query; what a clash does is a
  matter of the client programs.
- The ten-UE collector repeats the loop of the three-UE one. Training and analysis
  are offline statistics. The RC bridge and the C xApps make one E2 control per
  call; its failures are inputs of `VoiceGuardRules`.
- The configuration generator and the experiment editor change data sequentially;
  traffic measurement, the UE exporter and the frontend only read and show.
- FlexRIC, OCUDU, Open5GS and srsRAN are vendored. They are nearly all of the lines
  of the repository, so the share of it that these modules describe is small; of
  the lab's own control code nearly everything is described.
