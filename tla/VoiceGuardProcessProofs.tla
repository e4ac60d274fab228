------------------------ MODULE VoiceGuardProcessProofs ------------------------
(***************************************************************************)
(* Proofs about VoiceGuardProcess for any number of request threads, xApps *)
(* and faults.                                                             *)
(***************************************************************************)
EXTENDS VoiceGuardProcess, TLAPS

\* Every xApp that could be alive has been started, and nothing else is named.
NumberedInv == \A x \in Xapps : x > started <=> xapp[x] = "none"

\* Pacing is the work of an xApp that is sampling or about to clean up.
PacingInv ==
    unclean \/ ~reduced \/ \E x \in Xapps : xapp[x] \in {"loop", "sample", "leave"}

Inv == TypeOK /\ NumberedInv /\ StatusNamesXapp /\ PacingInv

States == {"none", "boot", "armed", "begin", "loop", "sample", "leave", "final", "gone"}

------------------------------------------------------------------------------

\* What a signal does to the xApps.
LEMMA Signalled ==
    ASSUME TypeOK, NEW x \in Xapps \cup {0}
    PROVE  /\ AfterSignal(x) \in [Xapps -> States]
           /\ AskedAfter(x) \subseteq Xapps
           /\ \A y \in Xapps : \/ AfterSignal(x)[y] = xapp[y]
                               \/ xapp[y] = "boot" /\ AfterSignal(x)[y] = "gone"
<1>1. xapp \in [Xapps -> States] /\ asked \subseteq Xapps
    BY DEF TypeOK, States
<1>2. AskedAfter(x) \subseteq Xapps
    BY <1>1 DEF AskedAfter, Alive
<1>3. CASE x \in Alive /\ xapp[x] = "boot"
    BY <1>1, <1>2, <1>3 DEF AfterSignal, Alive, States
<1>4. CASE ~(x \in Alive /\ xapp[x] = "boot")
    BY <1>1, <1>2, <1>4 DEF AfterSignal
<1>5. QED
    BY <1>3, <1>4

\* An xApp that moves is alive, moves alone and names at most itself; it leaves
\* the pacing reduced only while its clean-up is still to come.
LEMMA XappMoves ==
    ASSUME TypeOK, NEW x \in Xapps, XappStep(x)
    PROVE  /\ UNCHANGED <<manager, asked, started, faults, blind, strays>>
           /\ x \in Alive /\ file' \in {file, x}
           /\ \E s \in States \ {"none"} : xapp' = [xapp EXCEPT ![x] = s]
           /\ reduced' \in BOOLEAN /\ unclean' \in BOOLEAN
           /\ \/ ~reduced'
              \/ xapp'[x] \in {"loop", "sample", "leave"}
              \/ /\ UNCHANGED <<reduced, unclean>>
                 /\ xapp[x] \notin {"loop", "sample", "leave"}
<1>1. /\ xapp \in [Xapps -> States] /\ xapp[x] \in States
      /\ reduced \in BOOLEAN /\ unclean \in BOOLEAN
    BY DEF TypeOK, States
<1>2. Loop(x)!Phases \subseteq States \ {"none"}
    BY DEF Loop!Phases, States
<1>3. CASE Boots(x) \/ WritesState(x)
    BY <1>1, <1>3 DEF Boots, WritesState, Moves, Alive, States, history
<1>4. CASE Begins(x)
    BY <1>1, <1>2, <1>4 DEF Begins, Alone, Loop!Begin, Loop!BeginFails, Alive, manager
<1>5. CASE Samples(x)
    BY <1>1, <1>2, <1>5 DEF Samples, Alone, Loop!Sample, Loop!SampleEnds, Alive, manager, history
<1>6. CASE Leaves(x)
    BY <1>1, <1>2, <1>6 DEF Leaves, Alone, Loop!Leave, Alive, manager, history
<1>7. CASE Restores(x)
    BY <1>1, <1>2, <1>7 DEF Restores, Alone, Loop!Restore, Alive, manager
<1>8. CASE WritesFinal(x)
    BY <1>1, <1>2, <1>8 DEF WritesFinal, Alone, Loop!End, Alive, manager, history
<1>9. QED
    BY <1>3, <1>4, <1>5, <1>6, <1>7, <1>8 DEF XappStep

\* The Manager names nobody or an xApp.
LEMMA ShownIsNamed ==
    ASSUME TypeOK
    PROVE  Shown \in Xapps \cup {0}
BY DEF TypeOK, Shown, Alive

LEMMA TypeInit ==
    ASSUME Init
    PROVE  TypeOK
<1>1. started \in 0 .. MaxXapps /\ faults \in 0 .. MaxFaults
    BY BoundsAreNat DEF Init
<1>2. xapp \in [Xapps -> States]
    BY DEF Init, States
<1>3. request \in [Handlers -> [pc : {"idle", "start", "stop"}, target : Xapps \cup {0}]]
    BY DEF Init, NoRequest
<1>4. QED
    BY <1>1, <1>2, <1>3 DEF Init, TypeOK, States

LEMMA TypeNext ==
    ASSUME TypeOK, [Next]_vars
    PROVE  TypeOK'
<1> USE BoundsAreNat
<1>1. CASE UNCHANGED vars
    BY <1>1 DEF TypeOK, vars, manager, history, Xapps
<1>2. ASSUME NEW h \in Handlers,
             StartChecks(h) \/ StartSpawns(h) \/ StartRefused(h) \/ StopReads(h)
      PROVE  TypeOK'
    <2>1. CASE StartChecks(h)
        BY <2>1 DEF TypeOK, StartChecks, history, Xapps
    <2>2. CASE StartSpawns(h)
        <3>1. started + 1 \in Xapps
            BY <2>2 DEF TypeOK, StartSpawns, Xapps
        <3>2. xapp' \in [Xapps -> States] /\ strays' \subseteq Xapps
            BY <2>2, <3>1 DEF TypeOK, StartSpawns, States
        <3>3. QED
            BY <2>2, <3>1, <3>2 DEF TypeOK, StartSpawns, NoRequest, States, Xapps
    <2>3. CASE StartRefused(h)
        BY <2>3 DEF TypeOK, StartRefused, history, NoRequest, Xapps
    <2>4. CASE StopReads(h)
        BY <2>4, ShownIsNamed DEF TypeOK, StopReads, history, Xapps
    <2>5. QED
        BY <1>2, <2>1, <2>2, <2>3, <2>4
<1>3. ASSUME NEW h \in Handlers, StopSignals(h)
      PROVE  TypeOK'
    <2>1. request[h].target \in Xapps \cup {0}
        BY DEF TypeOK
    <2>2. xapp' \in [Xapps -> States] /\ asked' \subseteq Xapps
        BY <1>3, <2>1, Signalled DEF StopSignals, Signal
    <2>3. QED
        BY <1>3, <2>2 DEF TypeOK, StopSignals, history, NoRequest, States, Xapps
<1>4. CASE WorkerSignals
    <2>1. handle \in Xapps \cup {0}
        BY DEF TypeOK
    <2>2. xapp' \in [Xapps -> States] /\ asked' \subseteq Xapps
        BY <1>4, <2>1, Signalled DEF WorkerSignals, Signal
    <2>3. QED
        BY <1>4, <2>2 DEF TypeOK, WorkerSignals, history, States, Xapps
<1>5. CASE RunStops \/ WorkerEnds \/ RunLost
    BY <1>5 DEF TypeOK, RunStops, WorkerEnds, RunLost, history, Xapps, Ended
<1>11. CASE WorkerFails
    <2>1. strays' \subseteq Xapps /\ faults' \in 0 .. MaxFaults
        BY <1>11 DEF TypeOK, WorkerFails, Alive
    <2>2. QED
        BY <1>11, <2>1 DEF TypeOK, WorkerFails, Xapps, Ended
<1>6. ASSUME NEW x \in Xapps, XappStep(x)
      PROVE  TypeOK'
    <2>1. xapp' \in [Xapps -> States]
        BY <1>6, XappMoves DEF TypeOK, States
    <2>2. /\ UNCHANGED <<manager, asked, started, faults, blind, strays>>
          /\ file' \in {file, x}
          /\ reduced' \in BOOLEAN /\ unclean' \in BOOLEAN
        BY <1>6, XappMoves
    <2>3. QED
        BY <2>1, <2>2 DEF TypeOK, manager, States, Xapps
<1>7. ASSUME NEW x \in Xapps, Dies(x)
      PROVE  TypeOK'
    BY <1>7 DEF TypeOK, Dies, manager, Xapps
<1>8. ASSUME NEW orderly \in BOOLEAN, ManagerRestarts(orderly)
      PROVE  TypeOK'
    <2>1. handle \in Xapps \cup {0}
        BY DEF TypeOK
    <2>2. xapp' \in [Xapps -> States] /\ asked' \subseteq Xapps
        BY <1>8, <2>1, Signalled DEF ManagerRestarts, Signal, TypeOK, States
    <2>3. run' \in {"RUNNING", "STOPPING", "LOST"} \cup Ended
        BY <1>8 DEF ManagerRestarts, TypeOK
    <2>4. strays' \subseteq Xapps
        BY <1>8 DEF ManagerRestarts, TypeOK, Alive
    <2>5. faults' \in 0 .. MaxFaults
        BY <1>8 DEF ManagerRestarts, TypeOK
    <2>6. QED
        BY <1>8, <2>2, <2>3, <2>4, <2>5 DEF TypeOK, ManagerRestarts, NoRequest, States, Xapps
<1>9. CASE HostReboots
    <2>1. xapp' \in [Xapps -> States]
        BY <1>9 DEF HostReboots, TypeOK, States
    <2>2. run' \in {"RUNNING", "STOPPING", "LOST"} \cup Ended
        BY <1>9 DEF HostReboots, TypeOK
    <2>3. QED
        BY <1>9, <2>1, <2>2 DEF TypeOK, HostReboots, NoRequest, States, Xapps
<1>10. QED
    BY <1>1, <1>2, <1>3, <1>4, <1>5, <1>6, <1>7, <1>8, <1>9, <1>11 DEF Next

------------------------------------------------------------------------------
\* A step that starts no xApp: at most one more is known by the state file.
LEMMA NobodyIsNew ==
    ASSUME Inv, TypeOK', handle' = handle, started' = started, blind' = blind,
           \A x \in Xapps : xapp'[x] = "none" <=> xapp[x] = "none",
           Alive' \subseteq Alive,
           file' = file \/ file' \in Alive
    PROVE  NumberedInv' /\ StatusNamesXapp'
<1>1. NumberedInv'
    BY DEF Inv, NumberedInv, Xapps
<1>2. CASE blind
    BY <1>1, <1>2 DEF StatusNamesXapp
<1>3. CASE ~blind
    <2>1. \A x \in Alive : Shown = x /\ x # 0
        BY <1>3 DEF Inv, StatusNamesXapp, Alive, Xapps
    <2>2. CASE handle # 0
        BY <1>1, <1>3, <2>1, <2>2 DEF StatusNamesXapp, Shown
    <2>3. CASE handle = 0
        BY <1>1, <1>3, <2>1, <2>3 DEF StatusNamesXapp, Shown
    <2>4. QED
        BY <2>2, <2>3
<1>4. QED
    BY <1>2, <1>3

LEMMA InvInit ==
    ASSUME Init
    PROVE  Inv
<1>1. TypeOK
    BY TypeInit
<1>2. NumberedInv /\ StatusNamesXapp /\ PacingInv
    BY DEF Init, NumberedInv, StatusNamesXapp, PacingInv, Alive, Xapps
<1>3. QED
    BY <1>1, <1>2 DEF Inv

LEMMA InvNext ==
    ASSUME Inv, [Next]_vars
    PROVE  Inv'
<1>1. TypeOK /\ TypeOK'
    BY TypeNext DEF Inv
<1>2. xapp \in [Xapps -> States] /\ started \in Nat
    BY <1>1 DEF TypeOK, States
<1>3. CASE UNCHANGED vars
    BY <1>1, <1>3 DEF Inv, NumberedInv, StatusNamesXapp, PacingInv, Shown, Alive, vars, manager,
                      history
<1>4. ASSUME NEW h \in Handlers, StartChecks(h) \/ StartRefused(h) \/ StopReads(h)
      PROVE  Inv'
    BY <1>1, <1>4 DEF Inv, NumberedInv, StatusNamesXapp, PacingInv, Shown, Alive, history,
                      StartChecks, StartRefused, StopReads
<1>5. ASSUME NEW h \in Handlers, StartSpawns(h)
      PROVE  Inv'
    <2>1. started + 1 \in Xapps /\ started' = started + 1 /\ handle' = started + 1
        BY <1>1, <1>5 DEF TypeOK, StartSpawns, Xapps
    <2>2. xapp' = [xapp EXCEPT ![started + 1] = "boot"]
        BY <1>5 DEF StartSpawns
    <2>3. xapp[started + 1] = "none"
        BY <1>2, <2>1 DEF Inv, NumberedInv
    <2>4. NumberedInv'
        BY <1>2, <2>1, <2>2 DEF Inv, NumberedInv, Xapps
    <2>5. StatusNamesXapp'
        <3>1. CASE blind
            BY <1>5, <3>1 DEF StartSpawns, StatusNamesXapp
        <3>2. CASE ~blind
            <4>1. Alive = {}
                BY <1>5, <3>2 DEF Inv, StartSpawns, StatusNamesXapp, Alive, Xapps
            <4>2. Alive' = {started + 1}
                BY <1>2, <2>1, <2>2, <4>1 DEF Alive
            <4>3. QED
                BY <1>2, <2>1, <4>2 DEF StatusNamesXapp, Shown
        <3>3. QED
            BY <3>1, <3>2
    <2>6. PacingInv'
        BY <1>2, <1>5, <2>2, <2>3 DEF Inv, PacingInv, StartSpawns
    <2>7. QED
        BY <1>1, <2>4, <2>5, <2>6 DEF Inv
<1>6. ASSUME NEW x \in Xapps \cup {0}, Signal(x),
             UNCHANGED <<handle, started, file, reduced, faults, history>>
      PROVE  Inv'
    <2>1. \A y \in Xapps : xapp'[y] = xapp[y] \/ (xapp[y] = "boot" /\ xapp'[y] = "gone")
        BY <1>1, <1>6, Signalled DEF Signal
    <2>2. NumberedInv' /\ StatusNamesXapp'
        BY <1>1, <1>6, <2>1, NobodyIsNew DEF Alive, history
    <2>3. PacingInv'
        BY <1>6, <2>1 DEF Inv, PacingInv, history
    <2>4. QED
        BY <1>1, <2>2, <2>3 DEF Inv
<1>7. ASSUME NEW h \in Handlers, StopSignals(h)
      PROVE  Inv'
    <2>1. request[h].target \in Xapps \cup {0}
        BY <1>1 DEF TypeOK
    <2>2. QED
        BY <1>6, <1>7, <2>1 DEF StopSignals
<1>8. CASE WorkerSignals
    <2>1. handle \in Xapps \cup {0}
        BY <1>1 DEF TypeOK
    <2>2. QED
        BY <1>6, <1>8, <2>1 DEF WorkerSignals
<1>9. CASE RunStops \/ WorkerFails \/ WorkerEnds \/ RunLost
    BY <1>1, <1>9 DEF Inv, NumberedInv, StatusNamesXapp, PacingInv, Shown, Alive, history,
                      RunStops, WorkerFails, WorkerEnds, RunLost
<1>10. ASSUME NEW x \in Xapps, XappStep(x)
       PROVE  Inv'
    <2>1. /\ UNCHANGED <<handle, started, blind>>
          /\ x \in Alive /\ file' \in {file, x}
          /\ \A y \in Xapps : y # x => xapp'[y] = xapp[y]
          /\ xapp'[x] # "none"
        BY <1>1, <1>2, <1>10, XappMoves DEF manager
    <2>2. Alive' \subseteq Alive
        BY <2>1 DEF Alive
    <2>3. NumberedInv' /\ StatusNamesXapp'
        BY <1>1, <2>1, <2>2, NobodyIsNew DEF Alive
    <2>4. \/ ~reduced'
          \/ xapp'[x] \in {"loop", "sample", "leave"}
          \/ /\ UNCHANGED <<reduced, unclean>>
             /\ xapp[x] \notin {"loop", "sample", "leave"}
        BY <1>1, <1>10, XappMoves
    <2>5. PacingInv'
        BY <2>1, <2>4 DEF Inv, PacingInv
    <2>6. QED
        BY <1>1, <2>3, <2>5 DEF Inv
<1>11. ASSUME NEW x \in Xapps, Dies(x)
       PROVE  Inv'
    <2>1. /\ UNCHANGED <<handle, started, blind, file>>
          /\ x \in Alive /\ xapp' = [xapp EXCEPT ![x] = "gone"] /\ unclean'
        BY <1>11 DEF Dies, manager
    <2>2. /\ Alive' \subseteq Alive
          /\ \A y \in Xapps : xapp'[y] = "none" <=> xapp[y] = "none"
        BY <1>2, <2>1 DEF Alive
    <2>3. NumberedInv' /\ StatusNamesXapp'
        BY <1>1, <2>1, <2>2, NobodyIsNew
    <2>4. QED
        BY <1>1, <2>1, <2>3 DEF Inv, PacingInv
<1>12. ASSUME NEW orderly \in BOOLEAN, ManagerRestarts(orderly)
       PROVE  Inv'
    <2>1. handle \in Xapps \cup {0}
        BY <1>1 DEF TypeOK
    <2>2. \A y \in Xapps : xapp'[y] = xapp[y] \/ (xapp[y] = "boot" /\ xapp'[y] = "gone")
        BY <1>1, <1>12, <2>1, Signalled DEF ManagerRestarts, Signal
    <2>3. NumberedInv'
        BY <1>2, <1>12, <2>2 DEF Inv, NumberedInv, ManagerRestarts
    <2>4. StatusNamesXapp'
        BY <1>12, <2>2 DEF StatusNamesXapp, ManagerRestarts, Alive, Shown
    <2>5. PacingInv'
        BY <1>12, <2>2 DEF Inv, PacingInv, ManagerRestarts
    <2>6. QED
        BY <1>1, <2>3, <2>4, <2>5 DEF Inv
<1>13. CASE HostReboots
    <2>1. /\ Alive' = {} /\ started' = started
          /\ \A y \in Xapps : xapp'[y] = "none" <=> xapp[y] = "none"
        BY <1>2, <1>13 DEF HostReboots, Alive
    <2>2. NumberedInv' /\ StatusNamesXapp'
        BY <2>1 DEF Inv, NumberedInv, StatusNamesXapp
    <2>3. PacingInv'
        BY <1>13 DEF Inv, PacingInv, HostReboots, Alive
    <2>4. QED
        BY <1>1, <2>2, <2>3 DEF Inv
<1>14. QED
    BY <1>3, <1>4, <1>5, <1>7, <1>8, <1>9, <1>10, <1>11, <1>12, <1>13 DEF Next

------------------------------------------------------------------------------

\* Every process, thread and file of the xApps stays in its domain.
THEOREM TypeCorrect == Spec => []TypeOK
<1>1. TypeOK /\ [Next]_vars => TypeOK'
    BY TypeNext
<1>2. QED
    BY TypeInit, <1>1, PTL DEF Spec

\* read_voiceguard_state and its callers: whatever dies, is restarted or is still
\* on its way out, an xApp that is alive is the one the Manager shows.
THEOREM StatusIsRight == Spec => []StatusNamesXapp
<1>1. Inv /\ [Next]_vars => Inv'
    BY InvNext
<1>2. Inv => StatusNamesXapp
    BY DEF Inv
<1>3. QED
    BY InvInit, <1>1, <1>2, PTL DEF Spec

\* The finally blocks of the xApps: however they end, unless they are killed,
\* the video is not paced when none is left.
THEOREM PacingEndsWithXapp == Spec => []UnpacedWhenOff
<1>1. Inv /\ [Next]_vars => Inv'
    BY InvNext
<1>2. Inv => UnpacedWhenOff
    BY DEF Inv, PacingInv, UnpacedWhenOff, Alive
<1>3. QED
    BY InvInit, <1>1, <1>2, PTL DEF Spec
==============================================================================
