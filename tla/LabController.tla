---------------------------- MODULE LabController ----------------------------
(***************************************************************************)
(* The root controller of the lab (scripts/oranlabctl.py): what start,     *)
(* stop and recover-ue do, process by process.  RunLifecycle knows a radio *)
(* stack only as up or down; here it is one process group per component,   *)
(* started and written to processes.json one after the other, and taken    *)
(* down again by what that file says.  ImplementsController states that    *)
(* the controller steps of RunLifecycle are a sound picture of this one.   *)
(*                                                                         *)
(* A process group is named by the command that started it and its         *)
(* component.  A component started through runuser is a group of two: the  *)
(* leader, whose pid is registered, and its child.                         *)
(***************************************************************************)
EXTENDS Naturals, Sequences, FiniteSets

CONSTANTS
    Runs,           \* configurations active-run.json can name
    Baseline,       \* the configuration used when active-run.json is missing
    None,           \* no configuration
    Cmds,           \* oranlabctl processes
    Components,     \* names of the components, in the order of components()
    Wrapped,        \* the components started through runuser
    Ported,         \* the components whose TCP ports preflight looks at
    FaultKinds,     \* which of {"crash", "orphan", "write", "reboot"} occur
    OverlapKinds,   \* bound: the kinds that also occur after commands have overlapped
    MaxFaults,      \* bound: how many faults occur
    MaxBusy         \* bound: how many commands are in progress at once

ASSUME ConfigurationsAreDistinct == Baseline \notin Runs /\ None \notin Runs \cup {Baseline}
ASSUME BoundsAreNat == MaxFaults \in Nat /\ MaxBusy \in Nat
ASSUME ComponentsAreNamedOnce ==
    /\ Components \in Seq(STRING) /\ Components # <<>>
    /\ \A i, j \in 1 .. Len(Components) : Components[i] = Components[j] => i = j

VARIABLES
    active,     \* experiments/runs/active-run.json: the run it names
    file,       \* run/manager/processes.json: the process groups it lists
    leaders,    \* process groups whose leader is alive
    children,   \* process groups whose child is alive
    foreign,    \* listed pids that name other processes since a reboot
    cmd,        \* the commands
    faults,     \* faults so far
    seen,       \* their kinds
    overlapped  \* two commands, or a command and a new run, were under way at once

vars == <<active, file, leaders, children, foreign, cmd, faults, seen, overlapped>>
world == <<leaders, children, foreign>>
history == <<faults, seen, overlapped>>

------------------------------------------------------------------------------
Configs == Runs \cup {Baseline}
Groups == Cmds \X {Components[i] : i \in 1 .. Len(Components)}
GroupsAlive == leaders \cup children

IdleCmd == [pc |-> "idle", kind |-> "start", cfg |-> None, want |-> None, next |-> 1,
            listed |-> {}, live |-> {}]

Busy(c) == cmd[c].pc \notin {"idle", "ok", "err", "gone"}
Quiet == \A c \in Cmds : ~Busy(c)

\* The component that c starts next, and those it has started and registered.
Newest(c) == <<c, Components[cmd[c].next]>>
Started(c) == {<<c, Components[i]>> : i \in 1 .. cmd[c].next - 1}
InFlight == {Newest(c) : c \in {d \in Cmds : cmd[d].pc = "register"}}

\* Mutant of RegisteredRunning: a pid counts as ours whatever its command line.
AnyPidCounts(p) == p \in leaders \cup foreign

\* process_info: the registered pid still shows the command it was started with.
RegisteredRunning(p) == p \in leaders

StatusRunning == \E p \in file : RegisteredRunning(p)

RuntimeConfig == IF active = None THEN Baseline ELSE active

Init ==
    /\ active = None
    /\ file = {}
    /\ leaders = {}
    /\ children = {}
    /\ foreign = {}
    /\ cmd = [c \in Cmds |-> IdleCmd]
    /\ faults = 0
    /\ seen = {}
    /\ overlapped = FALSE

Moves(c, from, to) ==
    /\ cmd[c].pc = from
    /\ cmd' = [cmd EXCEPT ![c].pc = to]

------------------------------------------------------------------------------
(* The environment: the Manager writes active-run.json while it believes    *)
(* nothing runs, and the Manager or an operator issues commands.            *)

Configure(r) ==
    /\ ~StatusRunning
    /\ active' = r
    /\ overlapped' = (overlapped \/ ~Quiet)
    /\ UNCHANGED <<file, world, cmd, faults, seen>>

FirstPc(kind) ==
    CASE kind = "start" -> "load" [] kind = "stop" -> "read" [] kind = "recover" -> "check"

Issue(c, kind) ==
    /\ cmd[c].pc = "idle"
    /\ Cardinality({d \in Cmds : Busy(d)}) < MaxBusy
    /\ cmd' = [cmd EXCEPT ![c].pc = FirstPc(kind), ![c].kind = kind]
    /\ overlapped' = (overlapped \/ ~Quiet)
    /\ UNCHANGED <<active, file, world, faults, seen>>

------------------------------------------------------------------------------
(* start().                                                                 *)

Load(c) ==
    /\ cmd[c].pc = "load"
    /\ cmd' = [cmd EXCEPT ![c].pc = "preflight", ![c].cfg = RuntimeConfig]
    /\ UNCHANGED <<active, file, world, history>>

\* Mutant of Preflight: only the registry is looked at, and not even that.
PreflightPasses(c) ==
    /\ Moves(c, "preflight", "spawn")
    /\ UNCHANGED <<active, file, world, history>>

\* Whether processes are registered, ports are busy; any other check may fail.
Preflight(c) ==
    /\ \/ /\ ~StatusRunning
          /\ \A p \in GroupsAlive : p[2] \notin Ported
          /\ Moves(c, "preflight", "spawn")
       \/ Moves(c, "preflight", "err")
    /\ UNCHANGED <<active, file, world, history>>

Spawn(c) ==
    /\ Moves(c, "spawn", "register")
    /\ leaders' = leaders \cup {Newest(c)}
    /\ children' = IF Newest(c)[2] \in Wrapped THEN children \cup {Newest(c)} ELSE children
    /\ UNCHANGED <<active, file, foreign, history>>

\* Mutant of Register: only the newest component is written.
RegisterNewestOnly(c) ==
    /\ cmd[c].pc = "register"
    /\ file' = {Newest(c)}
    /\ cmd' = [cmd EXCEPT ![c].next = @ + 1,
                          ![c].pc = IF cmd[c].next < Len(Components) THEN "spawn" ELSE "attach"]
    /\ UNCHANGED <<active, world, history>>

\* write_registry replaces the file by this command's own dictionary.
Register(c) ==
    /\ cmd[c].pc = "register"
    /\ file' = Started(c) \cup {Newest(c)}
    /\ cmd' = [cmd EXCEPT ![c].next = @ + 1,
                          ![c].pc = IF cmd[c].next < Len(Components) THEN "spawn" ELSE "attach"]
    /\ UNCHANGED <<active, world, history>>

\* Every component is up and every UE has its PDU session.
Attached(c) ==
    /\ Moves(c, "attach", "ok")
    /\ UNCHANGED <<active, file, world, history>>

\* A component cannot be started or does not become ready: stop() cleans up.
GivesUp(c) ==
    /\ Moves(c, "spawn", "read") \/ Moves(c, "attach", "read")
    /\ UNCHANGED <<active, file, world, history>>

------------------------------------------------------------------------------
(* stop(), also the clean-up of start() and the first half of recover_ue(). *)

ReadRegistry(c) ==
    /\ cmd[c].pc = "read"
    /\ cmd' = [cmd EXCEPT ![c].pc = "first", ![c].listed = file,
                          ![c].live = {p \in file : RegisteredRunning(p)}]
    /\ UNCHANGED <<active, file, world, history>>

\* terminate_groups is called for the KPM exporter first, then for the rest.
Batch(c) ==
    CASE cmd[c].pc = "first" -> {p \in cmd[c].live : p[2] = "kpm"}
      [] cmd[c].pc = "rest"  -> {p \in cmd[c].live : p[2] # "kpm"}
      [] OTHER -> {}

\* After SIGTERM leader and child end when they like, if at all.
Ends(c, p) ==
    /\ p \in Batch(c)
    /\ \/ leaders' = leaders \ {p} /\ UNCHANGED children
       \/ children' = children \ {p} /\ UNCHANGED leaders
    /\ foreign' = foreign \ {p}
    /\ UNCHANGED <<active, file, cmd, history>>

\* Mutant of EndBatch: only the leader is watched while the group is ending.
EndBatchLeaders(c) ==
    /\ Moves(c, "first", "rest") \/ Moves(c, "rest", "unlink")
    /\ leaders' = leaders \ Batch(c)
    /\ children' = children \ (Batch(c) \cap leaders)
    /\ foreign' = foreign \ Batch(c)
    /\ UNCHANGED <<active, file, history>>

\* All groups are gone, or the deadline has come and SIGKILL ends what remains.
EndBatch(c) ==
    /\ Moves(c, "first", "rest") \/ Moves(c, "rest", "unlink")
    /\ leaders' = leaders \ Batch(c)
    /\ children' = children \ Batch(c)
    /\ foreign' = foreign \ Batch(c)
    /\ UNCHANGED <<active, file, history>>

\* Mutant of Unlink: active-run.json always goes.
UnlinkAll(c) ==
    /\ cmd[c].pc = "unlink"
    /\ file' = {}
    /\ active' = None
    /\ cmd' = [cmd EXCEPT
           ![c].pc = CASE cmd[c].kind = "recover" -> "load"
                       [] cmd[c].kind = "start"   -> "err"
                       [] cmd[c].kind = "stop"    -> "ok",
           ![c].kind = IF cmd[c].kind = "recover" THEN "start" ELSE cmd[c].kind,
           ![c].listed = {}, ![c].live = {}]
    /\ UNCHANGED <<world, history>>

\* processes.json goes, and active-run.json unless the stack is to be rebuilt.
Unlink(c) ==
    /\ cmd[c].pc = "unlink"
    /\ file' = {}
    /\ active' = IF cmd[c].kind = "recover" THEN active ELSE None
    /\ cmd' = [cmd EXCEPT
           ![c].pc = CASE cmd[c].kind = "recover" -> "load"
                       [] cmd[c].kind = "start"   -> "err"
                       [] cmd[c].kind = "stop"    -> "ok",
           ![c].kind = IF cmd[c].kind = "recover" THEN "start" ELSE cmd[c].kind,
           ![c].listed = {}, ![c].live = {}]
    /\ UNCHANGED <<world, history>>

\* active-run.json cannot be read, or does not hold a configuration: start()
\* ends before its preflight, recover_ue before it has stopped anything.
LoadRaises(c) ==
    /\ Moves(c, "load", "err") \/ Moves(c, "check", "gone")
    /\ UNCHANGED <<active, file, world, history>>

\* recover_ue reads the configuration, stops, and then starts like any other.
RecoverLoads(c) ==
    /\ cmd[c].pc = "check"
    /\ cmd' = [cmd EXCEPT ![c].pc = "read", ![c].want = RuntimeConfig]
    /\ UNCHANGED <<active, file, world, history>>

CmdStep(c) ==
    \/ Load(c) \/ Preflight(c) \/ Spawn(c) \/ Register(c) \/ Attached(c) \/ GivesUp(c)
    \/ ReadRegistry(c) \/ EndBatch(c) \/ Unlink(c) \/ RecoverLoads(c) \/ LoadRaises(c)

------------------------------------------------------------------------------
(* Faults.                                                                  *)

Fault(kind) ==
    /\ kind \in FaultKinds /\ faults < MaxFaults
    /\ overlapped => kind \in OverlapKinds
    /\ faults' = faults + 1
    /\ seen' = seen \cup {kind}
    /\ UNCHANGED overlapped

\* A component dies.  Nobody can tell one that dies before it is registered
\* from one that dies just after.
ComponentCrashes(p) ==
    /\ Fault("crash")
    /\ p \in leaders \ InFlight
    /\ leaders' = leaders \ {p}
    /\ children' = children \ {p}
    /\ UNCHANGED <<active, file, foreign, cmd>>

\* runuser is killed and its child goes on.
WrapperDies(p) ==
    /\ Fault("orphan")
    /\ p \in leaders \cap children
    /\ leaders' = leaders \ {p}
    /\ UNCHANGED <<active, file, children, foreign, cmd>>

\* The registry cannot be written: start() cleans up from the old one.
RegisterFails(c) ==
    /\ Fault("write")
    /\ Moves(c, "register", "read")
    /\ UNCHANGED <<active, file, world>>

\* After a reboot the files still name pids, and some of them name a process.
HostReboots ==
    /\ Fault("reboot")
    /\ leaders' = {}
    /\ children' = {}
    /\ foreign' \in SUBSET file
    /\ cmd' = [c \in Cmds |-> IF Busy(c) THEN [cmd[c] EXCEPT !.pc = "gone"] ELSE cmd[c]]
    /\ UNCHANGED <<active, file>>

Next ==
    \/ \E r \in Runs : Configure(r)
    \/ \E c \in Cmds, kind \in {"start", "stop", "recover"} : Issue(c, kind)
    \/ \E c \in Cmds : CmdStep(c) \/ RegisterFails(c)
    \/ \E c \in Cmds, p \in Groups : Ends(c, p)
    \/ \E p \in Groups : ComponentCrashes(p) \/ WrapperDies(p)
    \/ HostReboots

Spec == Init /\ [][Next]_vars

------------------------------------------------------------------------------
(* Properties.                                                              *)

Pcs == {"idle", "load", "preflight", "spawn", "register", "attach", "check", "read",
        "first", "rest", "unlink", "ok", "err", "gone"}

\* Every file, process and command stays in its domain; a command that launches
\* has a configuration and a next component.
TypeOK ==
    /\ active \in Runs \cup {None}
    /\ file \in SUBSET Groups /\ leaders \in SUBSET Groups /\ children \in SUBSET Groups
    /\ foreign \in SUBSET Groups
    /\ cmd \in [Cmds -> [pc : Pcs, kind : {"start", "stop", "recover"},
                         cfg : Configs \cup {None}, want : Configs \cup {None},
                         next : 1 .. Len(Components) + 1,
                         listed : SUBSET Groups, live : SUBSET Groups]]
    /\ \A c \in Cmds : cmd[c].pc \in {"spawn", "register"} =>
           cmd[c].cfg # None /\ cmd[c].next <= Len(Components)
    /\ faults \in 0 .. MaxFaults
    /\ seen \subseteq FaultKinds
    /\ overlapped \in BOOLEAN

\* What the registry cannot know about: a component started but never written
\* to it, and one whose registered leader is gone.
BlindSpot == seen \cap {"write", "orphan"} # {}

\* Every process there is can be found in processes.json by the next stop,
\* except the one that is about to be written to it: whatever crashed, failed
\* half-way or was rebooted, the clean-up of a command leaves nothing behind.
NothingLeaks == overlapped \/ BlindSpot \/ GroupsAlive \subseteq file \cup InFlight

\* recover_ue brings the stack up again on the configuration it took it down
\* with, although it goes through a file that stop() normally removes.
RecoversSameRun ==
    overlapped \/ \A c \in Cmds :
        cmd[c].want # None /\ cmd[c].cfg # None => cmd[c].cfg = cmd[c].want

\* A pid that a reboot gave to another program is never signalled.
ForeignSpared == [][foreign \subseteq foreign' \/ ("reboot" \in FaultKinds /\ faults' # faults)]_vars

------------------------------------------------------------------------------
(* The controller of RunLifecycle, seen through this one.  A launch happens *)
(* there when the component is registered; a termination when the last      *)
(* leader of what is being stopped is gone.                                 *)

StackOf(groups) ==
    IF groups = {} THEN None ELSE cmd[(CHOOSE p \in groups : TRUE)[1]].cfg

AbsPc(c) ==
    CASE cmd[c].pc \in {"spawn", "register"} -> "launch"
      [] cmd[c].pc \in {"check", "gone"} -> "idle"
      [] cmd[c].pc \in {"first", "rest"} ->
             IF \/ cmd[c].live \cap leaders # {}
                \/ cmd[c].live = {} /\ cmd[c].pc = "first"
             THEN "kill" ELSE "unlink"
      [] OTHER -> cmd[c].pc

\* What is terminated is the whole stack unless more of it has been launched
\* since the registry was read.
AbsTarget(c) ==
    IF /\ AbsPc(c) = "kill" /\ cmd[c].live # {}
       /\ \A d \in Cmds : cmd[c].listed \cap Started(d) = {} \/ cmd[c].listed = Started(d)
    THEN StackOf(cmd[c].listed) ELSE None

AbsCtl == [c \in Cmds |->
    [pc     |-> AbsPc(c),
     kind   |-> IF AbsPc(c) # "idle" /\ cmd[c].kind = "stop" THEN "stop" ELSE "start",
     cfg    |-> IF AbsPc(c) # "idle" THEN cmd[c].cfg ELSE None,
     target |-> AbsTarget(c)]]

AbsAlive == {cmd[p[1]].cfg : p \in leaders \ InFlight}
AbsRegistry == StackOf(file)
absvars == <<active, AbsRegistry, AbsAlive, AbsCtl>>

R == INSTANCE RunLifecycle WITH
         Runs <- Runs, Baseline <- Baseline, None <- None,
         Handlers <- {}, Workers <- {}, Controllers <- Cmds,
         FaultKinds <- {}, MaxFaults <- 0,
         row <- [r \in Runs |-> "NONE"], handler <- <<>>, worker <- <<>>,
         active <- active, registry <- AbsRegistry, alive <- AbsAlive, ctl <- AbsCtl,
         faults <- 0, restarts <- [skipped |-> {}, orphaned |-> {}],
         since <- <<>>, raced <- {}

\* Terminations of RunLifecycle that the end of one process completes at once,
\* and a crash of a stack that only shows now that the rest of it is stopped.
AbsTerminations ==
    LET done == {c \in Cmds : AbsCtl[c].pc = "kill" /\ AbsCtl'[c].pc = "unlink"}
    IN  /\ AbsAlive' \subseteq AbsAlive \ {AbsCtl[c].target : c \in done}
        /\ AbsCtl' = [c \in Cmds |-> IF c \in done
                                     THEN [AbsCtl[c] EXCEPT !.pc = "unlink", !.target = None]
                                     ELSE AbsCtl[c]]
        /\ UNCHANGED <<active, AbsRegistry>>

\* What the Manager, the operator and the faults of RunLifecycle do.
AbsEnvironment ==
    \/ UNCHANGED <<AbsRegistry, AbsAlive, AbsCtl>>                    \* active-run.json
    \/ /\ \E c \in Cmds, kind \in {"start", "stop"}, pc \in {"load", "read"} :
              /\ AbsCtl[c].pc = "idle"
              /\ AbsCtl' = [AbsCtl EXCEPT ![c].pc = pc, ![c].kind = kind]
       /\ UNCHANGED <<active, AbsRegistry, AbsAlive>>
    \/ /\ AbsAlive' \subseteq AbsAlive                                \* a stack is gone
       /\ UNCHANGED <<active, AbsRegistry, AbsCtl>>
    \/ /\ AbsAlive' = {}                                             \* a reboot
       /\ \A c \in Cmds : AbsCtl'[c] = AbsCtl[c] \/ AbsCtl'[c].pc = "idle"
       /\ UNCHANGED <<active, AbsRegistry>>

\* recover_ue, which RunLifecycle does not have: a stop that turns into a start.
AbsRebuilds ==
    /\ \E c \in Cmds : R!CtlMoves(c, "unlink", "load")
    /\ AbsRegistry' = None
    /\ UNCHANGED <<active, AbsAlive>>

\* Two commands have brought up the same configuration side by side.
Twins == \E p \in leaders, q \in leaders \cup file :
             p[1] # q[1] /\ cmd[p[1]].cfg = cmd[q[1]].cfg

\* Every step of this controller is a step of the controller of RunLifecycle or
\* of its environment, or invisible there: however commands overlap, as long as
\* each configuration is up once and the registry can know its processes.
ImplementsController ==
    [][ \/ BlindSpot' \/ Twins \/ Twins'
        \/ \E c \in Cmds : cmd'[c] # cmd[c] /\ R!CtlStep(c)
        \/ AbsTerminations \/ AbsRebuilds \/ AbsEnvironment ]_absvars
==============================================================================
