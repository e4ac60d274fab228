-------------------------- MODULE VoiceGuardProcess --------------------------
(***************************************************************************)
(* The VoiceGuard xApps of one run as processes of the Manager (main.py):  *)
(* request threads that start and stop them, the worker that stops the run *)
(* and the Manager's own shutdown signal them, and a Manager that has been *)
(* restarted knows them only by the pid in a state file that they write    *)
(* themselves.  Between its start and its end an xApp takes the steps of   *)
(* XappContract, which the loops of VoiceGuardRules and VoiceGuardRF       *)
(* implement.                                                              *)
(*                                                                         *)
(* xApps are numbered in the order they are started; the number is the pid.*)
(***************************************************************************)
EXTENDS Naturals, FiniteSets

CONSTANTS
    Handlers,   \* request threads
    MaxXapps,   \* bound: xApps that are started
    MaxFaults   \* bound: kills, failed writes, refused signals, restarts and reboots

ASSUME BoundsAreNat == MaxXapps \in Nat /\ MaxFaults \in Nat

VARIABLES
    run,        \* ExperimentRun.state, as far as it matters here
    worker,     \* run_stop_worker
    request,    \* the request threads
    handle,     \* voiceguard_processes[run_id]; 0 when there is none
    xapp,       \* where each xApp is
    asked,      \* xApps whose stop_requested is set
    started,    \* how many were started
    file,       \* the pid in the state file; 0 when there is none
    reduced,    \* the traffic control file paces the video
    faults,     \* faults so far
    blind,      \* a restarted Manager had an xApp the state file does not name
    unclean,    \* an xApp ended without its clean-up, and none has reset the file since
    strays      \* xApps that a stop of the run does not know of

manager == <<run, worker, request, handle>>
history == <<blind, unclean, strays>>
vars == <<manager, xapp, asked, started, file, reduced, faults, history>>

------------------------------------------------------------------------------
Xapps == 1 .. MaxXapps
Ended == {"STOPPED", "STOP_FAILED"}     \* what run_stop_worker writes
Alive == {x \in Xapps : xapp[x] \notin {"none", "gone"}}

NoRequest == [pc |-> "idle", target |-> 0]

\* read_voiceguard_state: the xApp the Manager believes to be running.  A
\* handle, dead or alive, decides; without one, the pid in the state file if
\* is_voiceguard_pid still recognises it.
Shown ==
    IF handle # 0 THEN (IF handle \in Alive THEN handle ELSE 0)
    ELSE IF file \in Alive THEN file ELSE 0

\* What SIGTERM makes of an xApp: while Python is still starting it dies of it.
AfterSignal(x) ==
    IF x \in Alive /\ xapp[x] = "boot" THEN [xapp EXCEPT ![x] = "gone"] ELSE xapp
AskedAfter(x) ==
    IF x \in Alive /\ xapp[x] # "boot" THEN asked \cup {x} ELSE asked

Signal(x) == xapp' = AfterSignal(x) /\ asked' = AskedAfter(x)

Init ==
    /\ run = "RUNNING" /\ worker = "idle"
    /\ request = [h \in Handlers |-> NoRequest]
    /\ handle = 0
    /\ xapp = [x \in Xapps |-> "none"]
    /\ asked = {}
    /\ started = 0
    /\ file = 0
    /\ reduced = FALSE
    /\ faults = 0
    /\ blind = FALSE /\ unclean = FALSE /\ strays = {}

------------------------------------------------------------------------------
(* The endpoints.                                                           *)

\* start_voiceguard finds the run RUNNING, long before it takes the lock.
StartChecks(h) ==
    /\ request[h].pc = "idle"
    /\ run = "RUNNING"
    /\ request' = [request EXCEPT ![h].pc = "start"]
    /\ UNCHANGED <<run, worker, handle, xapp, asked, started, file, reduced, faults, history>>

\* Mutant of StartSpawns: the second check is left out.
StartSpawnsOverAdopted(h) ==
    /\ request[h].pc = "start" /\ started < MaxXapps
    /\ handle \notin Alive
    /\ request' = [request EXCEPT ![h] = NoRequest]
    /\ started' = started + 1
    /\ xapp' = [xapp EXCEPT ![started + 1] = "boot"]
    /\ handle' = started + 1
    /\ strays' = IF run = "RUNNING" THEN strays ELSE strays \cup {started + 1}
    /\ UNCHANGED <<run, worker, asked, file, reduced, faults, blind, unclean>>

\* Under voiceguard_lock: the check, the process and its registration.
StartSpawns(h) ==
    /\ request[h].pc = "start" /\ started < MaxXapps
    /\ Shown = 0
    /\ request' = [request EXCEPT ![h] = NoRequest]
    /\ started' = started + 1
    /\ xapp' = [xapp EXCEPT ![started + 1] = "boot"]
    /\ handle' = started + 1
    /\ strays' = IF run = "RUNNING" THEN strays ELSE strays \cup {started + 1}
    /\ UNCHANGED <<run, worker, asked, file, reduced, faults, blind, unclean>>

StartRefused(h) ==
    /\ request[h].pc = "start"
    /\ Shown # 0
    /\ request' = [request EXCEPT ![h] = NoRequest]
    /\ UNCHANGED <<run, worker, handle, xapp, asked, started, file, reduced, faults, history>>

\* stop_voiceguard, without the lock: whom to signal,
StopReads(h) ==
    /\ request[h].pc = "idle"
    /\ Shown # 0
    /\ request' = [request EXCEPT ![h] = [pc |-> "stop", target |-> Shown]]
    /\ UNCHANGED <<run, worker, handle, xapp, asked, started, file, reduced, faults, history>>

\* and the signal; a process that is gone by then is no error.
StopSignals(h) ==
    /\ request[h].pc = "stop"
    /\ Signal(request[h].target)
    /\ request' = [request EXCEPT ![h] = NoRequest]
    /\ UNCHANGED <<run, worker, handle, started, file, reduced, faults, history>>

\* stop_run, which starts the worker.
RunStops ==
    /\ run = "RUNNING"
    /\ run' = "STOPPING" /\ worker' = "signal"
    /\ UNCHANGED <<request, handle, xapp, asked, started, file, reduced, faults, history>>

\* Mutant of WorkerSignals: the xApp is left to the operator.
WorkerSignalsNone ==
    /\ worker = "signal"
    /\ worker' = "invoke"
    /\ UNCHANGED <<run, request, handle, xapp, asked, started, file, reduced, faults, history>>

\* The worker signals the xApp it has a handle of, and does not wait for it.
WorkerSignals ==
    /\ worker = "signal"
    /\ Signal(handle)
    /\ worker' = "invoke"
    /\ UNCHANGED <<run, request, handle, started, file, reduced, faults, history>>

\* A traffic helper, which is root's, cannot be signalled before that: the exception
\* skips the xApp with the rest of the stop.
WorkerFails ==
    /\ worker = "signal" /\ faults < MaxFaults
    /\ run' = "STOP_FAILED" /\ worker' = "idle"
    /\ strays' = strays \cup Alive
    /\ faults' = faults + 1
    /\ UNCHANGED <<request, handle, xapp, asked, started, file, reduced, blind, unclean>>

WorkerEnds ==
    /\ worker = "invoke"
    /\ run' \in Ended /\ worker' = "idle"
    /\ UNCHANGED <<request, handle, xapp, asked, started, file, reduced, faults, history>>

\* reconcile_lost_runs: the stack is gone, and nobody signals the xApp.
RunLost ==
    /\ run = "RUNNING"
    /\ run' = "LOST"
    /\ UNCHANGED <<worker, request, handle, xapp, asked, started, file, reduced, faults, history>>

------------------------------------------------------------------------------
(* The xApp.                                                                *)

Moves(x, from, to) ==
    /\ xapp[x] = from
    /\ xapp' = [xapp EXCEPT ![x] = to]

\* Python is up and signal handlers are installed; or the arguments are bad.
Boots(x) ==
    /\ Moves(x, "boot", "armed") \/ Moves(x, "boot", "gone")
    /\ UNCHANGED <<manager, asked, started, file, reduced, faults, history>>

WritesState(x) ==
    /\ Moves(x, "armed", "begin")
    /\ file' = x
    /\ UNCHANGED <<manager, asked, started, reduced, faults, history>>

\* From here to its last report it is the loop of VoiceGuardRules or of
\* VoiceGuardRF, of which XappContract tells what there is to know.
Loop(x) == INSTANCE XappContract WITH phase <- xapp[x], stop <- x \in asked, reduced <- reduced

\* Only this xApp moves, and its loop is asked for nothing new.
Alone(x) ==
    /\ xapp[x] \in Loop(x)!Phases
    /\ \E phase \in Loop(x)!Phases : xapp' = [xapp EXCEPT ![x] = phase]
    /\ asked' = asked

\* The pacing is reset, or cannot be.
Begins(x) ==
    /\ Alone(x)
    /\ \/ Loop(x)!Begin /\ unclean' = FALSE
       \/ Loop(x)!BeginFails /\ unclean' = unclean
    /\ UNCHANGED <<manager, started, file, faults, blind, strays>>

\* A sample may change the pacing and ends with the state file.
Samples(x) ==
    /\ Alone(x)
    /\ Loop(x)!Sample \/ Loop(x)!SampleEnds
    /\ file' = IF xapp'[x] = "loop" THEN x ELSE file
    /\ UNCHANGED <<manager, started, faults, history>>

Leaves(x) ==
    /\ Alone(x)
    /\ Loop(x)!Leave
    /\ UNCHANGED <<manager, started, file, faults, history>>

\* Mutant of Restores: an xApp that was asked to stop relies on the stop.
RestoresUnlessAsked(x) ==
    /\ Moves(x, "leave", "final")
    /\ reduced' = (reduced /\ x \in asked)
    /\ unclean' = FALSE
    /\ UNCHANGED <<manager, asked, started, file, faults, blind, strays>>

\* The finally block: the pacing first,
Restores(x) ==
    /\ Alone(x)
    /\ Loop(x)!Restore
    /\ unclean' = FALSE
    /\ UNCHANGED <<manager, started, file, faults, blind, strays>>

\* the state file at the end.
WritesFinal(x) ==
    /\ Alone(x)
    /\ Loop(x)!End
    /\ file' = x
    /\ UNCHANGED <<manager, started, faults, history>>

XappStep(x) ==
    \/ Boots(x) \/ WritesState(x) \/ Begins(x) \/ Samples(x) \/ Leaves(x)
    \/ Restores(x) \/ WritesFinal(x)

------------------------------------------------------------------------------
(* Faults.                                                                  *)

\* SIGKILL, or a file that cannot be written at all (Loop(x)!RestoreFails).
Dies(x) ==
    /\ x \in Alive /\ faults < MaxFaults
    /\ xapp' = [xapp EXCEPT ![x] = "gone"]
    /\ unclean' = TRUE
    /\ faults' = faults + 1
    /\ UNCHANGED <<manager, asked, started, file, reduced, blind, strays>>

\* Threads and handles are lost, the xApps go on (KillMode=process), signalled
\* if the Manager was shut down in order and could signal the helpers of the
\* traffic, which come first.  A run in transition is LOST, or left
\* in transition if some of its components still run.
ManagerRestarts(orderly) ==
    /\ faults < MaxFaults
    /\ IF orderly THEN Signal(handle) ELSE UNCHANGED <<xapp, asked>>
    /\ request' = [h \in Handlers |-> NoRequest]
    /\ handle' = 0
    /\ worker' = "idle"
    /\ run' \in IF run = "STOPPING" THEN {run, "LOST"} ELSE {run}
    /\ faults' = faults + 1
    /\ blind' = (blind \/ \E x \in Alive : xapp'[x] # "gone" /\ x # file)
    /\ strays' = strays \cup Alive
    /\ UNCHANGED <<started, file, reduced, unclean>>

HostReboots ==
    /\ faults < MaxFaults
    /\ xapp' = [x \in Xapps |-> IF x \in Alive THEN "gone" ELSE xapp[x]]
    /\ request' = [h \in Handlers |-> NoRequest]
    /\ handle' = 0
    /\ worker' = "idle"
    /\ run' = IF run \in Ended THEN run ELSE "LOST"
    /\ unclean' = (unclean \/ Alive # {})
    /\ faults' = faults + 1
    /\ UNCHANGED <<asked, started, file, reduced, blind, strays>>

Next ==
    \/ \E h \in Handlers : \/ StartChecks(h) \/ StartSpawns(h) \/ StartRefused(h)
                           \/ StopReads(h) \/ StopSignals(h)
    \/ RunStops \/ WorkerSignals \/ WorkerFails \/ WorkerEnds \/ RunLost
    \/ \E x \in Xapps : XappStep(x) \/ Dies(x)
    \/ \E orderly \in BOOLEAN : ManagerRestarts(orderly)
    \/ HostReboots

Spec == Init /\ [][Next]_vars

\* Every request and every bridge call of the xApp has a timeout, and so has
\* the worker's.
Fairness ==
    /\ \A x \in Xapps : WF_vars(XappStep(x))
    /\ WF_vars(WorkerSignals \/ WorkerEnds)

FairSpec == Spec /\ Fairness

------------------------------------------------------------------------------
(* Properties.                                                              *)

\* Every process, thread and file stays in its domain.
TypeOK ==
    /\ run \in {"RUNNING", "STOPPING", "LOST"} \cup Ended
    /\ worker \in {"idle", "signal", "invoke"}
    /\ request \in [Handlers -> [pc : {"idle", "start", "stop"}, target : Xapps \cup {0}]]
    /\ started \in 0 .. MaxXapps
    /\ handle \in Xapps \cup {0} /\ file \in Xapps \cup {0}
    /\ xapp \in [Xapps -> {"none", "boot", "armed", "begin", "loop", "sample", "leave",
                           "final", "gone"}]
    /\ asked \subseteq Xapps /\ strays \subseteq Xapps
    /\ reduced \in BOOLEAN /\ blind \in BOOLEAN /\ unclean \in BOOLEAN
    /\ faults \in 0 .. MaxFaults

\* An xApp that is alive is the one the Manager shows and would stop, so there
\* are never two: whatever died, was restarted or is still on its way out.  The
\* exception is a Manager that was restarted before an xApp wrote its first
\* state.
StatusNamesXapp == blind \/ \A x \in Alive : Shown = x

\* Without an xApp the video is not paced, however it was ended, unless it was
\* killed or could not write: and then only until the next one resets the file.
UnpacedWhenOff == unclean \/ (Alive = {} => ~reduced)

\* A run that has been stopped, and be it in vain, is soon without an xApp, unless
\* it was started after the stop began or by an earlier Manager, or the stop failed
\* at the helpers of the traffic.
EndsWithRun == \A x \in Xapps : run \in Ended /\ x \notin strays ~> x \notin Alive

==============================================================================
