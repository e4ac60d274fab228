------------------------- MODULE RunLifecycleProofs -------------------------
(***************************************************************************)
(* Proofs about RunLifecycle for every number of runs, threads,            *)
(* controllers and faults.                                                 *)
(***************************************************************************)
EXTENDS RunLifecycle, TLAPS

\* The records of an idle thread or process are in their domains.
LEMMA IdleTypes == IdleHandler \in HandlerType /\ IdleWorker \in WorkerType /\ IdleCtl \in CtlType
BY DEF IdleHandler, IdleWorker, IdleCtl, HandlerType, WorkerType, CtlType,
       HandlerPcs, WorkerPcs, CtlPcs

\* A handler moves on, with or without a new field.
LEMMA HandlerUpdate ==
    ASSUME NEW f \in [Handlers -> HandlerType], NEW h \in Handlers, NEW pc \in HandlerPcs
    PROVE  /\ [f EXCEPT ![h].pc = pc] \in [Handlers -> HandlerType]
           /\ \A cand \in SUBSET Runs :
                  [f EXCEPT ![h].pc = pc, ![h].cand = cand] \in [Handlers -> HandlerType]
           /\ \A r \in Runs :
                  [f EXCEPT ![h].pc = pc, ![h].run = r] \in [Handlers -> HandlerType]
BY DEF HandlerType

\* So does a controller.
LEMMA CtlUpdate ==
    ASSUME NEW f \in [Controllers -> CtlType], NEW c \in Controllers, NEW pc \in CtlPcs
    PROVE  /\ [f EXCEPT ![c].pc = pc] \in [Controllers -> CtlType]
           /\ \A stack \in Stacks \cup {None} :
                  /\ [f EXCEPT ![c].pc = pc, ![c].cfg = stack] \in [Controllers -> CtlType]
                  /\ [f EXCEPT ![c].pc = pc, ![c].target = stack] \in [Controllers -> CtlType]
           /\ \A kind \in {"start", "stop"} :
                  [f EXCEPT ![c].kind = kind, ![c].pc = pc] \in [Controllers -> CtlType]
<1>1. [f EXCEPT ![c].pc = pc] \in [Controllers -> CtlType]
    BY DEF CtlType
<1>2. ASSUME NEW stack \in Stacks \cup {None}
      PROVE  [f EXCEPT ![c].pc = pc, ![c].cfg = stack] \in [Controllers -> CtlType]
    BY DEF CtlType
<1>3. ASSUME NEW stack \in Stacks \cup {None}
      PROVE  [f EXCEPT ![c].pc = pc, ![c].target = stack] \in [Controllers -> CtlType]
    BY DEF CtlType
<1>4. ASSUME NEW kind \in {"start", "stop"}
      PROVE  [f EXCEPT ![c].kind = kind, ![c].pc = pc] \in [Controllers -> CtlType]
    BY DEF CtlType
<1>5. QED
    BY <1>1, <1>2, <1>3, <1>4

\* A new worker thread is well typed.
LEMMA NewWorkerTyped ==
    ASSUME NEW kind \in {"start", "stop"}, NEW r \in Runs
    PROVE  NewWorker(kind, r) \in WorkerType
BY DEF NewWorker, WorkerType, WorkerPcs

\* A step that only moves a handler keeps every variable in its domain.
LEMMA HandlerFrame ==
    ASSUME TypeOK, handler' \in [Handlers -> HandlerType], row' \in [Runs -> RowStates],
           worker' \in [Workers -> WorkerType], active' \in Runs \cup {None},
           UNCHANGED <<registry, alive, ctl, faults, restarts>>
    PROVE  TypeOK'
BY DEF TypeOK

\* The handlers' steps keep every variable in its domain.
LEMMA RequestTyped ==
    ASSUME TypeOK, NEW h \in Handlers, RequestStep(h)
    PROVE  TypeOK'
<1>0. /\ row \in [Runs -> RowStates] /\ active \in Runs \cup {None}
      /\ handler \in [Handlers -> HandlerType] /\ worker \in [Workers -> WorkerType]
      /\ \A S : InState(S) \in SUBSET Runs
      /\ {} \in SUBSET Runs
    BY DEF TypeOK, InState
<1>1. CASE PostRun(h)
    <2>1. PICK pc \in HandlerPcs :
              handler' = [handler EXCEPT ![h].pc = pc, ![h].cand = InState({"RUNNING"})]
        BY <1>1 DEF PostRun, HandlerPcs
    <2>2. handler' \in [Handlers -> HandlerType]
        BY <1>0, <2>1, HandlerUpdate
    <2>3. QED
        BY <1>0, <1>1, <2>2, HandlerFrame DEF PostRun
<1>2. CASE ReconcileStatus(h)
    <2>1. {"select", "lost"} \subseteq HandlerPcs
        BY DEF HandlerPcs
    <2>2. handler' \in [Handlers -> HandlerType]
        BY <1>0, <1>2, <2>1, HandlerUpdate DEF ReconcileStatus
    <2>3. QED
        BY <1>0, <1>2, <2>2, HandlerFrame DEF ReconcileStatus
<1>3. CASE ReconcileLost(h)
    <2>1. "select" \in HandlerPcs
        BY DEF HandlerPcs
    <2>2. handler' \in [Handlers -> HandlerType]
        BY <1>0, <1>3, <2>1, HandlerUpdate DEF ReconcileLost
    <2>3. row' \in [Runs -> RowStates]
        BY <1>0, <1>3 DEF ReconcileLost, RowStates
    <2>4. QED
        BY <1>0, <1>3, <2>2, <2>3, HandlerFrame DEF ReconcileLost
<1>4. CASE SelectActive(h)
    <2>1. PICK pc \in HandlerPcs : handler' = [handler EXCEPT ![h].pc = pc]
        BY <1>4 DEF SelectActive, HandlerPcs
    <2>2. handler' \in [Handlers -> HandlerType]
        BY <1>0, <2>1, HandlerUpdate
    <2>3. QED
        BY <1>0, <1>4, <2>2, HandlerFrame DEF SelectActive
<1>5. ASSUME NEW r \in Runs, InsertFails(h, r)
      PROVE  TypeOK'
    <2>1. handler' \in [Handlers -> HandlerType] /\ active' \in Runs \cup {None}
        BY <1>0, <1>5, IdleTypes DEF InsertFails
    <2>2. row' \in [Runs -> RowStates]
        BY <1>0, <1>5 DEF InsertFails, RowStates
    <2>3. QED
        BY <1>0, <1>5, <2>1, <2>2, HandlerFrame DEF InsertFails
<1>6. ASSUME NEW r \in Runs, PostStop(h, r)
      PROVE  TypeOK'
    <2>1. "stop" \in HandlerPcs
        BY DEF HandlerPcs
    <2>2. handler' \in [Handlers -> HandlerType]
        BY <1>0, <1>6, <2>1, HandlerUpdate DEF PostStop
    <2>3. QED
        BY <1>0, <1>6, <2>2, HandlerFrame DEF PostStop
<1>7. ASSUME NEW r \in Runs, NEW w \in Workers, InsertRun(h, r, w)
      PROVE  TypeOK'
    <2>1. handler' \in [Handlers -> HandlerType] /\ active' \in Runs \cup {None}
        BY <1>0, <1>7, IdleTypes DEF InsertRun
    <2>2. row' \in [Runs -> RowStates]
        BY <1>0, <1>7 DEF InsertRun, RowStates
    <2>3. worker' \in [Workers -> WorkerType]
        BY <1>0, <1>7, NewWorkerTyped DEF InsertRun
    <2>4. QED
        BY <1>7, <2>1, <2>2, <2>3, HandlerFrame DEF InsertRun
<1>8. ASSUME NEW w \in Workers, CommitStop(h, w)
      PROVE  TypeOK'
    <2>1. handler[h].run \in Runs \cup {None}
        BY <1>0 DEF HandlerType
    <2>2. row' \in [Runs -> RowStates]
        BY <1>0, <1>8 DEF CommitStop, RowStates
    <2>3. NewWorker("stop", handler[h].run) \in WorkerType
        BY <2>1 DEF NewWorker, WorkerType, WorkerPcs
    <2>4. worker' \in [Workers -> WorkerType] /\ handler' \in [Handlers -> HandlerType]
        BY <1>0, <1>8, <2>3, IdleTypes DEF CommitStop
    <2>5. QED
        BY <1>0, <1>8, <2>2, <2>4, HandlerFrame DEF CommitStop
<1>9. QED
    BY <1>1, <1>2, <1>3, <1>4, <1>5, <1>6, <1>7, <1>8 DEF RequestStep

\* The workers' steps keep every variable in its domain.
LEMMA WorkerTyped ==
    ASSUME TypeOK, NEW w \in Workers, WorkerStep(w)
    PROVE  TypeOK'
<1>1. ASSUME NEW ok \in BOOLEAN, Finish(w, ok)
      PROVE  row' \in [Runs -> RowStates] /\ worker' \in [Workers -> WorkerType]
    <2>1. OutcomeRow(worker[w].kind, ok) \in RowStates
        <3>1. worker[w].kind \in {"start", "stop"}
            BY DEF TypeOK, WorkerType
        <3>2. QED
            BY <3>1 DEF OutcomeRow, RowStates
    <2>2. QED
        BY <1>1, <2>1, IdleTypes DEF Finish, TypeOK
<1>2. CASE InvokeFails(w)
    BY <1>1, <1>2 DEF InvokeFails, TypeOK
<1>3. CASE InvokeReturns(w)
    <2>1. (ctl[worker[w].ctl].pc = "ok") \in BOOLEAN
        OBVIOUS
    <2>2. Finish(w, ctl[worker[w].ctl].pc = "ok")
        BY <1>3 DEF InvokeReturns
    <2>3. ctl' \in [Controllers -> CtlType]
        BY <1>3, IdleTypes DEF InvokeReturns, TypeOK
    <2>4. \A c \in Controllers :
              ctl'[c].pc \in {"preflight", "launch", "attach"} => ctl'[c].cfg # None
        BY <1>3 DEF InvokeReturns, IdleCtl, TypeOK
    <2>5. QED
        BY <1>1, <1>3, <2>1, <2>2, <2>3, <2>4 DEF InvokeReturns, TypeOK
<1>4. CASE InvokeTimesOut(w)
    <2>1. faults' \in 0 .. MaxFaults
        BY <1>4, MaxFaultsIsNat DEF InvokeTimesOut, TypeOK
    <2>2. Finish(w, FALSE)
        BY <1>4 DEF InvokeTimesOut
    <2>3. QED
        BY <1>1, <1>4, <2>1, <2>2 DEF InvokeTimesOut, TypeOK
<1>5. ASSUME NEW c \in Controllers, Invoke(w, c)
      PROVE  TypeOK'
    <2>1. worker' \in [Workers -> WorkerType]
        <3>1. worker \in [Workers -> WorkerType] /\ "wait" \in WorkerPcs
            BY DEF TypeOK, WorkerPcs
        <3>2. [worker EXCEPT ![w].pc = "wait", ![w].ctl = c] \in [Workers -> WorkerType]
            BY <3>1 DEF WorkerType
        <3>3. QED
            BY <1>5, <3>2 DEF Invoke
    <2>2. PICK pc \in {"load", "read"} :
              ctl' = [ctl EXCEPT ![c].kind = worker[w].kind, ![c].pc = pc]
        BY <1>5 DEF Invoke
    <2>3. worker[w].kind \in {"start", "stop"} /\ pc \in CtlPcs
        BY DEF TypeOK, WorkerType, CtlPcs
    <2>4. ctl' \in [Controllers -> CtlType]
        BY <2>2, <2>3, CtlUpdate DEF TypeOK
    <2>5. \A d \in Controllers :
              ctl'[d].pc \in {"preflight", "launch", "attach"} => ctl'[d].cfg # None
        BY <2>2 DEF TypeOK, CtlType
    <2>6. QED
        BY <1>5, <2>1, <2>4, <2>5 DEF Invoke, TypeOK
<1>6. QED
    BY <1>2, <1>3, <1>4, <1>5 DEF WorkerStep

\* A controller that moves on without loading a configuration keeps its type.
LEMMA MovesTyped ==
    ASSUME TypeOK, NEW c \in Controllers, NEW from, NEW to \in CtlPcs, CtlMoves(c, from, to),
           to \in {"preflight", "launch", "attach"} =>
               from \in {"preflight", "launch", "attach"}
    PROVE  /\ ctl' \in [Controllers -> CtlType]
           /\ \A d \in Controllers :
                  ctl'[d].pc \in {"preflight", "launch", "attach"} => ctl'[d].cfg # None
<1>1. ctl' \in [Controllers -> CtlType]
    BY CtlUpdate DEF TypeOK, CtlMoves
<1>2. ASSUME NEW d \in Controllers
      PROVE  ctl'[d].pc \in {"preflight", "launch", "attach"} => ctl'[d].cfg # None
    <2>1. CASE d = c
        BY <2>1 DEF CtlMoves, TypeOK, CtlType
    <2>2. CASE d # c
        BY <2>2 DEF CtlMoves, TypeOK
    <2>3. QED
        BY <2>1, <2>2
<1>3. QED
    BY <1>1, <1>2

\* A controller that starts a component moves on; the others at most lose the
\* stack they meant to terminate.
LEMMA LaunchUpdates ==
    ASSUME TypeOK, NEW c \in Controllers, CtlLaunch(c)
    PROVE  /\ ctl' \in [Controllers -> CtlType]
           /\ ctl[c].pc = "launch" /\ ctl'[c].pc \in {"launch", "attach"}
           /\ \A d \in Controllers : /\ ctl'[d].kind = ctl[d].kind
                                     /\ ctl'[d].cfg = ctl[d].cfg
                                     /\ d # c => ctl'[d].pc = ctl[d].pc
<1>1. PICK next \in {"launch", "attach"} :
          ctl' = [d \in Controllers |->
               IF d = c THEN [ctl[d] EXCEPT !.pc = next]
               ELSE IF ctl[d].target = ctl[c].cfg THEN [ctl[d] EXCEPT !.target = None]
               ELSE ctl[d]]
    BY DEF CtlLaunch
<1>2. ctl \in [Controllers -> CtlType] /\ next \in CtlPcs /\ ctl[c].pc = "launch"
    BY DEF TypeOK, CtlPcs, CtlLaunch
<1>3. ASSUME NEW d \in Controllers
      PROVE  /\ ctl'[d] \in CtlType
             /\ ctl'[d].kind = ctl[d].kind /\ ctl'[d].cfg = ctl[d].cfg
             /\ d # c => ctl'[d].pc = ctl[d].pc
             /\ d = c => ctl'[d].pc = next
    <2>1. CASE d = c
        <3>1. ctl'[d] = [ctl[d] EXCEPT !.pc = next]
            BY <1>1, <2>1
        <3>2. QED
            BY <1>2, <2>1, <3>1 DEF CtlType
    <2>2. CASE d # c /\ ctl[d].target = ctl[c].cfg
        <3>1. ctl'[d] = [ctl[d] EXCEPT !.target = None]
            BY <1>1, <2>2
        <3>2. QED
            BY <1>2, <2>2, <3>1 DEF CtlType
    <2>3. CASE d # c /\ ctl[d].target # ctl[c].cfg
        <3>1. ctl'[d] = ctl[d]
            BY <1>1, <2>3
        <3>2. QED
            BY <1>2, <2>3, <3>1
    <2>4. QED
        BY <2>1, <2>2, <2>3
<1>4. ctl' \in [Controllers -> CtlType]
    BY <1>1, <1>3
<1>5. QED
    BY <1>2, <1>3, <1>4

\* The controllers' steps keep every variable in its domain.
LEMMA CtlTyped ==
    ASSUME TypeOK, NEW c \in Controllers, CtlStep(c)
    PROVE  TypeOK'
<1>0. ctl \in [Controllers -> CtlType] /\ {"preflight", "kill"} \subseteq CtlPcs
    BY DEF TypeOK, CtlPcs
<1>1. CASE CtlLoad(c)
    <2>1. CASE CtlMoves(c, "load", "err")
        BY <1>1, <2>1, MovesTyped DEF CtlLoad, TypeOK, CtlPcs
    <2>2. CASE ~CtlMoves(c, "load", "err")
        <3>1. PICK cfg \in Stacks :
                  cfg # None /\ ctl' = [ctl EXCEPT ![c].pc = "preflight", ![c].cfg = cfg]
            BY <1>1, <2>2, NamesAreDistinct DEF CtlLoad, Stacks, TypeOK
        <3>2. ctl' \in [Controllers -> CtlType]
            BY <3>1, CtlUpdate, <1>0
        <3>3. ASSUME NEW d \in Controllers
              PROVE  ctl'[d].pc \in {"preflight", "launch", "attach"} => ctl'[d].cfg # None
            <4>1. CASE d = c
                BY <1>0, <3>1, <4>1 DEF CtlType
            <4>2. CASE d # c
                BY <3>1, <4>2 DEF TypeOK
            <4>3. QED
                BY <4>1, <4>2
        <3>4. QED
            BY <1>1, <3>2, <3>3 DEF CtlLoad, TypeOK
    <2>3. QED
        BY <2>1, <2>2
<1>2. CASE CtlPreflight(c)
    <2>1. PICK to \in {"launch", "err"} : CtlMoves(c, "preflight", to)
        BY <1>2 DEF CtlPreflight
    <2>2. QED
        BY <1>2, <2>1, MovesTyped DEF CtlPreflight, TypeOK, CtlPcs
<1>3. CASE CtlLaunch(c)
    <2>1. ctl' \in [Controllers -> CtlType]
        BY <1>3, LaunchUpdates
    <2>2. \A d \in Controllers :
              ctl'[d].pc \in {"preflight", "launch", "attach"} => ctl'[d].cfg # None
        BY <1>3, LaunchUpdates DEF TypeOK
    <2>3. ctl[c].cfg \in Stacks
        BY <1>0, <1>3 DEF CtlLaunch, TypeOK, CtlType
    <2>4. QED
        BY <1>3, <2>1, <2>2, <2>3 DEF CtlLaunch, TypeOK
<1>4. CASE CtlAttached(c)
    BY <1>4, MovesTyped DEF CtlAttached, TypeOK, CtlPcs
<1>5. CASE CtlGivesUp(c)
    <2>1. PICK from \in {"launch", "attach"} : CtlMoves(c, from, "read")
        BY <1>5 DEF CtlGivesUp
    <2>2. QED
        BY <1>5, <2>1, MovesTyped DEF CtlGivesUp, TypeOK, CtlPcs
<1>6. CASE CtlReadRegistry(c)
    <2>1. PICK target \in Stacks \cup {None} :
              ctl' = [ctl EXCEPT ![c].pc = "kill", ![c].target = target]
        BY <1>6 DEF CtlReadRegistry, TypeOK
    <2>2. ctl' \in [Controllers -> CtlType]
        BY <2>1, CtlUpdate, <1>0
    <2>3. ASSUME NEW d \in Controllers
          PROVE  ctl'[d].pc \in {"preflight", "launch", "attach"} => ctl'[d].cfg # None
        <3>1. CASE d = c
            BY <1>0, <2>1, <3>1 DEF CtlType
        <3>2. CASE d # c
            BY <2>1, <3>2 DEF TypeOK
        <3>3. QED
            BY <3>1, <3>2
    <2>4. QED
        BY <1>6, <2>2, <2>3 DEF CtlReadRegistry, TypeOK
<1>7. CASE CtlTerminate(c)
    <2>1. /\ ctl' = [ctl EXCEPT ![c].pc = "unlink", ![c].target = None]
          /\ "unlink" \in CtlPcs
        BY <1>7 DEF CtlTerminate, CtlPcs
    <2>2. ctl' \in [Controllers -> CtlType]
        BY <1>0, <2>1, CtlUpdate
    <2>3. ASSUME NEW d \in Controllers
          PROVE  ctl'[d].pc \in {"preflight", "launch", "attach"} => ctl'[d].cfg # None
        <3>1. CASE d = c
            BY <1>0, <2>1, <3>1 DEF CtlType
        <3>2. CASE d # c
            BY <2>1, <3>2 DEF TypeOK
        <3>3. QED
            BY <3>1, <3>2
    <2>4. alive' \in SUBSET Stacks
        BY <1>7 DEF CtlTerminate, TypeOK
    <2>5. QED
        BY <1>7, <2>2, <2>3, <2>4 DEF CtlTerminate, TypeOK
<1>8. CASE CtlUnlink(c)
    <2>1. PICK to \in {"err", "ok"} : CtlMoves(c, "unlink", to)
        BY <1>8 DEF CtlUnlink
    <2>2. QED
        BY <1>8, <2>1, MovesTyped DEF CtlUnlink, TypeOK, CtlPcs
<1>9. CASE CtlExits(c)
    <2>1. ctl' \in [Controllers -> CtlType]
        BY <1>0, <1>9, IdleTypes DEF CtlExits
    <2>2. \A d \in Controllers :
              ctl'[d].pc \in {"preflight", "launch", "attach"} => ctl'[d].cfg # None
        BY <1>9 DEF CtlExits, IdleCtl, TypeOK
    <2>3. QED
        BY <1>9, <2>1, <2>2 DEF CtlExits, TypeOK
<1>10. QED
    BY <1>1, <1>2, <1>3, <1>4, <1>5, <1>6, <1>7, <1>8, <1>9 DEF CtlStep

\* The loss of the Manager's threads leaves its rows, threads and counts typed.
LEMMA ThreadsLostTyped ==
    ASSUME TypeOK, faults < MaxFaults, NEW leave \in BOOLEAN, NEW orphans \in SUBSET Runs,
           ThreadsLost(leave, orphans)
    PROVE  /\ row' \in [Runs -> RowStates]
           /\ handler' \in [Handlers -> HandlerType]
           /\ worker' \in [Workers -> WorkerType]
           /\ faults' \in 0 .. MaxFaults
           /\ restarts' \in [skipped : SUBSET Runs, orphaned : SUBSET Runs]
<1>1. row' \in [Runs -> RowStates]
    BY DEF ThreadsLost, StartupRows, TypeOK, RowStates
<1>2. Skipped(leave) \in SUBSET Runs
    BY DEF Skipped, InState
<1>3. restarts' \in [skipped : SUBSET Runs, orphaned : SUBSET Runs]
    BY <1>2 DEF ThreadsLost, TypeOK
<1>4. QED
    BY <1>1, <1>3, IdleTypes, MaxFaultsIsNat DEF ThreadsLost, TypeOK

\* A step of any kind keeps every variable in its domain.
LEMMA StepTyped == TypeOK /\ [Next]_vars => TypeOK'
<1> SUFFICES ASSUME TypeOK, [Next]_vars
             PROVE  TypeOK'
    OBVIOUS
<1>1. ASSUME NEW h \in Handlers, RequestStep(h)
      PROVE  TypeOK'
    BY <1>1, RequestTyped
<1>2. ASSUME NEW w \in Workers, WorkerStep(w)
      PROVE  TypeOK'
    BY <1>2, WorkerTyped
<1>3. ASSUME NEW c \in Controllers, CtlStep(c)
      PROVE  TypeOK'
    BY <1>3, CtlTyped
<1>4. ManagerRestarts \/ HostReboots => faults < MaxFaults
    BY DEF ManagerRestarts, HostReboots
<1>5. CASE ManagerRestarts
    <2>1. PICK leave \in BOOLEAN : ThreadsLost(leave, Orphans)
        BY <1>5 DEF ManagerRestarts, StatusRunning
    <2>2. Orphans \in SUBSET Runs
        BY DEF Orphans
    <2>3. QED
        BY <1>4, <1>5, <2>1, <2>2, ThreadsLostTyped DEF ManagerRestarts, TypeOK
<1>6. CASE HostReboots
    <2>1. PICK leave \in BOOLEAN : ThreadsLost(leave, {})
        BY <1>6 DEF HostReboots
    <2>2. \A c \in Controllers : ctl'[c].pc = "idle"
        BY <1>6 DEF HostReboots, IdleCtl
    <2>3. QED
        BY <1>4, <1>6, <2>1, <2>2, ThreadsLostTyped, IdleTypes DEF HostReboots, TypeOK
<1>7. ASSUME NEW s \in Stacks, StackCrashes(s)
      PROVE  TypeOK'
    BY <1>7, MaxFaultsIsNat DEF StackCrashes, TypeOK
<1>8. CASE UNCHANGED vars
    BY <1>8 DEF vars, TypeOK
<1>9. QED
    BY <1>1, <1>2, <1>3, <1>5, <1>6, <1>7, <1>8 DEF Next

LEMMA InitTyped == Init => TypeOK
BY IdleTypes, MaxFaultsIsNat DEF Init, TypeOK, RowStates, IdleCtl

\* Every behaviour of the run lifecycle is type correct, whatever overlaps and
\* whatever fails.
THEOREM TypeCorrect == Spec => []TypeOK
BY InitTyped, StepTyped, PTL DEF Spec

------------------------------------------------------------------------------
(* Operations that do not overlap.                                          *)

\* When operations do not overlap, a handler about to write excludes workers
\* and controllers, and a worker excludes everything but its own controller.
LEMMA SerialExcludes ==
    ASSUME TypeOK, Serial
    PROVE  /\ \A h \in Handlers : handler[h].pc \in {"insert", "stop"} =>
                  /\ \A g \in Handlers : handler[g].pc \in {"insert", "stop"} => g = h
                  /\ \A w \in Workers : worker[w].pc = "idle"
                  /\ \A c \in Controllers : ctl[c].pc = "idle"
           /\ \A w \in Workers : worker[w].pc # "idle" =>
                  /\ \A v \in Workers : worker[v].pc # "idle" => v = w
                  /\ \A c \in Controllers : ctl[c].pc # "idle" =>
                         worker[w].pc = "wait" /\ worker[w].ctl = c
           /\ \A c, d \in Controllers :
                  ctl[c].pc # "idle" /\ ctl[d].pc # "idle" => c = d
<1>1. \A w \in Workers, c \in Controllers :
          worker[w].pc # "idle" /\ ctl[c].pc # "idle" =>
              worker[w].pc = "wait" /\ worker[w].ctl = c
    BY ThreadsAreDistinct DEF Serial, Busy, Awaited
<1>2. \A h \in Handlers, w \in Workers :
          handler[h].pc \in {"insert", "stop"} => worker[w].pc = "idle"
    BY ThreadsAreDistinct DEF Serial, Busy
<1>3. \A h \in Handlers, c \in Controllers :
          handler[h].pc \in {"insert", "stop"} => ctl[c].pc = "idle"
    <2> SUFFICES ASSUME NEW h \in Handlers, NEW c \in Controllers,
                        handler[h].pc \in {"insert", "stop"}, ctl[c].pc # "idle"
                 PROVE  FALSE
        OBVIOUS
    <2>1. ~Awaited(c)
        BY <1>2 DEF Awaited
    <2>2. QED
        BY <2>1, ThreadsAreDistinct DEF Serial, Busy
<1>4. \A v, w \in Workers : worker[v].pc # "idle" /\ worker[w].pc # "idle" => v = w
    BY DEF Serial, Busy
<1>5. \A h, g \in Handlers : handler[h].pc \in {"insert", "stop"}
                             /\ handler[g].pc \in {"insert", "stop"} => g = h
    BY DEF Serial, Busy
<1>6. \A c, d \in Controllers : ctl[c].pc # "idle" /\ ctl[d].pc # "idle" => c = d
    <2> SUFFICES ASSUME NEW c \in Controllers, NEW d \in Controllers,
                        ctl[c].pc # "idle", ctl[d].pc # "idle"
                 PROVE  c = d
        OBVIOUS
    <2>1. CASE \E w \in Workers : worker[w].pc # "idle"
        BY <1>1, <2>1
    <2>2. CASE \A w \in Workers : worker[w].pc = "idle"
        BY <2>2 DEF Serial, Busy, Awaited
    <2>3. QED
        BY <2>1, <2>2
<1>7. QED
    BY <1>1, <1>2, <1>3, <1>4, <1>5, <1>6

\* No request step that keeps operations apart breaks the invariant.
LEMMA SerialRequest ==
    ASSUME SerialInv, TypeOK', Serial', NEW h \in Handlers, RequestStep(h)
    PROVE  SerialInv'
<1> USE DEF SerialInv, TypeOK, HandlerType, WorkerType, CtlType
<1>1. CASE PostRun(h)
    <2>1. /\ UNCHANGED <<row, active, registry, alive, worker, ctl, faults>>
          /\ \A g \in Handlers : handler'[g].pc \in {"insert", "stop"} =>
                 handler'[g] = handler[g]
        BY <1>1 DEF PostRun
    <2>2. QED
        BY <2>1 DEF RunningOwnsStack, StoppedIsDown, RegistryCoversStack,
                    InState, NoneRunning, WorkerAgrees, CtlAgrees
<1>2. CASE ReconcileStatus(h)
    <2>1. /\ UNCHANGED <<row, active, registry, alive, worker, ctl, faults>>
          /\ \A g \in Handlers : handler'[g].pc \in {"insert", "stop"} =>
                 handler'[g] = handler[g]
        BY <1>2 DEF ReconcileStatus
    <2>2. QED
        BY <2>1 DEF RunningOwnsStack, StoppedIsDown, RegistryCoversStack,
                    InState, NoneRunning, WorkerAgrees, CtlAgrees
<1>3. CASE ReconcileLost(h)
    BY <1>3 DEF ReconcileLost, RunningOwnsStack, StoppedIsDown, RegistryCoversStack,
                InState, NoneRunning, WorkerAgrees, CtlAgrees, Attempted
<1>4. CASE SelectActive(h)
    BY <1>4 DEF SelectActive, RunningOwnsStack, StoppedIsDown, RegistryCoversStack,
                InState, NoneRunning, WorkerAgrees, CtlAgrees, Occupying
<1>5. ASSUME NEW r \in Runs, InsertFails(h, r)
      PROVE  SerialInv'
    <2>1. /\ \A v \in Workers : worker[v].pc = "idle"
          /\ \A c \in Controllers : ctl[c].pc = "idle"
          /\ handler[h].pc \in {"insert", "stop"}
        BY <1>5, SerialExcludes DEF InsertFails
    <2>2. RunningOwnsStack' /\ StoppedIsDown' /\ RegistryCoversStack'
        BY <1>5 DEF InsertFails, RunningOwnsStack, StoppedIsDown, RegistryCoversStack, InState, NoneRunning
    <2>3. \A g \in Handlers : handler'[g].pc \notin {"insert", "stop"}
        BY <1>5, SerialExcludes DEF InsertFails, IdleHandler
    <2>4. \A c \in Controllers : CtlAgrees(c)'
        BY <1>5, <2>1 DEF InsertFails, CtlAgrees
    <2>5. \A v \in Workers : WorkerAgrees(v)'
        BY <1>5, <2>1 DEF InsertFails, WorkerAgrees
    <2>6. QED
        BY <2>2, <2>3, <2>4, <2>5
<1>6. ASSUME NEW r \in Runs, PostStop(h, r)
      PROVE  SerialInv'
    BY <1>6 DEF PostStop, RunningOwnsStack, StoppedIsDown, RegistryCoversStack,
                InState, NoneRunning, WorkerAgrees, CtlAgrees
<1>7. ASSUME NEW r \in Runs, NEW w \in Workers, InsertRun(h, r, w)
      PROVE  SerialInv'
    <2>1. /\ \A v \in Workers : worker[v].pc = "idle"
          /\ \A c \in Controllers : ctl[c].pc = "idle"
          /\ handler[h].pc \in {"insert", "stop"}
        BY <1>7, SerialExcludes DEF InsertRun
    <2>2. RunningOwnsStack' /\ StoppedIsDown' /\ RegistryCoversStack'
        BY <1>7 DEF InsertRun, RunningOwnsStack, StoppedIsDown, RegistryCoversStack, InState, NoneRunning
    <2>3. \A g \in Handlers : handler'[g].pc \notin {"insert", "stop"}
        BY <1>7, SerialExcludes DEF InsertRun, IdleHandler
    <2>4. \A c \in Controllers : CtlAgrees(c)'
        BY <1>7, <2>1 DEF InsertRun, CtlAgrees
    <2>5. \A v \in Workers : WorkerAgrees(v)'
        BY <1>7, <2>1 DEF InsertRun, WorkerAgrees, NewWorker, NoneRunning, InState, Attempted
    <2>6. QED
        BY <2>2, <2>3, <2>4, <2>5
<1>8. ASSUME NEW w \in Workers, CommitStop(h, w)
      PROVE  SerialInv'
    <2>1. /\ \A v \in Workers : worker[v].pc = "idle"
          /\ \A c \in Controllers : ctl[c].pc = "idle"
          /\ handler[h].pc \in {"insert", "stop"}
        BY <1>8, SerialExcludes DEF CommitStop
    <2>2. RunningOwnsStack' /\ StoppedIsDown' /\ RegistryCoversStack'
        BY <1>8 DEF CommitStop, RunningOwnsStack, StoppedIsDown, RegistryCoversStack, InState, NoneRunning
    <2>3. \A g \in Handlers : handler'[g].pc \notin {"insert", "stop"}
        BY <1>8, SerialExcludes DEF CommitStop, IdleHandler
    <2>4. \A c \in Controllers : CtlAgrees(c)'
        BY <1>8, <2>1 DEF CommitStop, CtlAgrees
    <2>5. \A v \in Workers : WorkerAgrees(v)'
        BY <1>8, <2>1 DEF CommitStop, WorkerAgrees, NewWorker
    <2>6. QED
        BY <2>2, <2>3, <2>4, <2>5
<1>9. QED
    BY <1>1, <1>2, <1>3, <1>4, <1>5, <1>6, <1>7, <1>8 DEF RequestStep

\* A worker that finishes leaves nothing behind but, after a time-out, its own
\* controller: nobody else was at work.
LEMMA SerialFinish ==
    ASSUME SerialInv, TypeOK', Serial', NEW w \in Workers, worker[w].pc # "idle",
           NEW ok \in BOOLEAN, Finish(w, ok),
           UNCHANGED <<active, registry, alive, handler>>,
           \A c \in Controllers :
               ctl'[c] = ctl[c] \/ (ctl'[c].pc = "idle" /\ ctl'[c].kind = "start"),
           ok => /\ worker[w].pc = "wait" /\ ctl[worker[w].ctl].pc = "ok"
                 /\ ctl'[worker[w].ctl].pc = "idle"
    PROVE  SerialInv'
<1>1. /\ worker[w].run \in Runs /\ worker[w].kind \in {"start", "stop"}
      /\ WorkerAgrees(w)
    BY DEF SerialInv, WorkerAgrees, TypeOK, WorkerType
<1>2. /\ \A h \in Handlers : handler[h].pc \notin {"insert", "stop"}
      /\ \A v \in Workers : worker[v].pc # "idle" => v = w
      /\ \A c \in Controllers : ctl[c].pc # "idle" =>
             worker[w].pc = "wait" /\ worker[w].ctl = c
    BY SerialExcludes DEF SerialInv
<1>3. /\ row' = [row EXCEPT ![worker[w].run] = OutcomeRow(worker[w].kind, ok)]
      /\ \A v \in Workers : worker'[v].pc = "idle"
    BY <1>2 DEF Finish, IdleWorker, SerialInv, TypeOK
<1>4. \A v \in Workers : WorkerAgrees(v)'
    BY <1>3 DEF WorkerAgrees
<1>5. row \in [Runs -> RowStates] /\ worker[w].run \in Runs
    BY <1>1 DEF SerialInv, TypeOK
<1>6. RegistryCoversStack'
    BY DEF SerialInv, RegistryCoversStack
<1>7. ASSUME ok
      PROVE  /\ worker[w].ctl \in Controllers
             /\ CtlAgrees(worker[w].ctl)
             /\ ctl[worker[w].ctl].pc = "ok"
             /\ ctl[worker[w].ctl].kind = worker[w].kind
             /\ worker[w].kind = "start" => ctl[worker[w].ctl].cfg = worker[w].run
    BY <1>1, <1>7 DEF SerialInv, WorkerAgrees
<1>8. ASSUME ok
      PROVE  \A c \in Controllers : CtlAgrees(c)'
    <2>1. \A c \in Controllers : ctl'[c].pc = "idle"
        BY <1>2, <1>8
    <2>2. \A c \in Controllers : ctl'[c].kind = "stop" \/ ctl'[c].kind = "start"
        BY DEF TypeOK, CtlType
    <2>3. QED
        BY <2>1, <2>2 DEF CtlAgrees
<1>9. CASE worker[w].kind = "start" /\ ok
    <2>1. /\ row' = [row EXCEPT ![worker[w].run] = "RUNNING"]
          /\ alive \subseteq {worker[w].run} /\ NoneRunning
        BY <1>1, <1>3, <1>7, <1>9 DEF OutcomeRow, WorkerAgrees, CtlAgrees
    <2>2. RunningOwnsStack' /\ StoppedIsDown'
        BY <1>5, <2>1 DEF SerialInv, RunningOwnsStack, StoppedIsDown, InState, NoneRunning
    <2>3. QED
        BY <1>2, <1>4, <1>6, <1>8, <1>9, <2>2 DEF SerialInv
<1>10. CASE worker[w].kind = "stop" /\ ok
    <2>1. alive = {}
        BY <1>7, <1>10 DEF CtlAgrees
    <2>2. RunningOwnsStack' /\ StoppedIsDown'
        BY <2>1 DEF RunningOwnsStack, StoppedIsDown
    <2>3. QED
        BY <1>2, <1>4, <1>6, <1>8, <1>10, <2>2 DEF SerialInv
<1>11. CASE ~ok
    <2>1. PICK s \in {"START_FAILED", "STOP_FAILED"} :
              /\ row' = [row EXCEPT ![worker[w].run] = s]
              /\ worker[w].kind = "start" => s = "START_FAILED"
        BY <1>1, <1>3, <1>11 DEF OutcomeRow
    <2>0. \A r \in Runs : row'[r] = row[r] \/ row'[r] = s
        BY <1>5, <2>1
    <2>5. RunningOwnsStack' /\ StoppedIsDown'
        BY <2>0 DEF SerialInv, RunningOwnsStack, StoppedIsDown, InState
    <2>2. /\ RunningOwnsStack' /\ StoppedIsDown'
          /\ NoneRunning => NoneRunning'
          /\ \A r \in Runs : row'[r] = "START_FAILED" \/ row'[r] = row[r] \/ worker[w].kind = "stop"
        BY <1>1, <2>0, <2>1, <2>5 DEF InState, NoneRunning
    <2>3. ASSUME NEW c \in Controllers
          PROVE  CtlAgrees(c)'
        <3>1. CASE ctl'[c].pc = "idle"
            BY <3>1 DEF CtlAgrees
        <3>2. CASE ctl'[c].pc # "idle"
            <4>1. ctl'[c] = ctl[c] /\ ctl[c].pc # "idle" /\ ctl[c].kind = worker[w].kind
                  /\ CtlAgrees(c)
                BY <1>1, <1>2, <3>2 DEF WorkerAgrees, SerialInv
            <4>2. CASE worker[w].kind = "stop"
                BY <4>1, <4>2 DEF CtlAgrees
            <4>3. CASE worker[w].kind = "start"
                BY <2>2, <4>1, <4>3 DEF CtlAgrees, Attempted
            <4>4. QED
                BY <1>1, <4>2, <4>3
        <3>3. QED
            BY <3>1, <3>2
    <2>4. QED
        BY <1>2, <1>4, <1>6, <2>2, <2>3 DEF SerialInv
<1>12. QED
    BY <1>1, <1>9, <1>10, <1>11

\* No worker step that keeps operations apart breaks the invariant.
LEMMA SerialWorker ==
    ASSUME SerialInv, TypeOK', Serial', NEW w \in Workers, WorkerStep(w)
    PROVE  SerialInv'
<1>1. CASE InvokeFails(w)
    <2>1. /\ Finish(w, FALSE) /\ worker[w].pc # "idle"
          /\ UNCHANGED <<active, registry, alive, handler>>
          /\ \A c \in Controllers : ctl'[c] = ctl[c]
        BY <1>1 DEF InvokeFails
    <2>2. QED
        BY <2>1, SerialFinish, ZenonT(30)
<1>2. CASE InvokeReturns(w)
    <2>1. (ctl[worker[w].ctl].pc = "ok") \in BOOLEAN
        OBVIOUS
    <2>3. worker[w].ctl \in Controllers
        BY <1>2 DEF InvokeReturns, SerialInv, WorkerAgrees
    <2>5. ctl' = [ctl EXCEPT ![worker[w].ctl] = IdleCtl] /\ ctl \in [Controllers -> CtlType]
        BY <1>2 DEF InvokeReturns, SerialInv, TypeOK
    <2>2. /\ \A c \in Controllers :
                 ctl'[c] = ctl[c] \/ (ctl'[c].pc = "idle" /\ ctl'[c].kind = "start")
          /\ ctl'[worker[w].ctl].pc = "idle"
        BY <2>3, <2>5 DEF IdleCtl
    <2>4. QED
        BY <1>2, <2>1, <2>2, <2>3, SerialFinish DEF InvokeReturns
<1>3. CASE InvokeTimesOut(w)
    <2>1. /\ Finish(w, FALSE) /\ worker[w].pc # "idle"
          /\ UNCHANGED <<active, registry, alive, handler>>
          /\ \A c \in Controllers : ctl'[c] = ctl[c]
        BY <1>3 DEF InvokeTimesOut
    <2>2. QED
        BY <2>1, SerialFinish, ZenonT(30)
<1>4. ASSUME NEW c \in Controllers, Invoke(w, c)
      PROVE  SerialInv'
    <2>1. /\ \A h \in Handlers : handler[h].pc \notin {"insert", "stop"}
          /\ \A v \in Workers : worker[v].pc # "idle" => v = w
          /\ \A d \in Controllers : ctl[d].pc = "idle"
        BY <1>4, SerialExcludes DEF SerialInv, Invoke
    <2>2. /\ worker'[w].pc = "wait" /\ worker'[w].ctl = c
          /\ worker'[w].kind = worker[w].kind /\ worker'[w].run = worker[w].run
          /\ ctl'[c].kind = worker[w].kind
          /\ ctl'[c].pc = IF worker[w].kind = "start" THEN "load" ELSE "read"
          /\ \A v \in Workers : v # w => worker'[v] = worker[v]
          /\ \A d \in Controllers : d # c => ctl'[d] = ctl[d]
        BY <1>4 DEF Invoke, SerialInv, TypeOK, WorkerType, CtlType
    <2>3. worker[w].kind \in {"start", "stop"} /\ WorkerAgrees(w) /\ worker[w].pc = "begin"
        BY <1>4 DEF SerialInv, TypeOK, WorkerType, Invoke
    <2>4. UNCHANGED <<row, active, registry, alive, handler>>
        BY <1>4 DEF Invoke
    <2>5. RunningOwnsStack' /\ StoppedIsDown' /\ RegistryCoversStack'
          /\ (NoneRunning <=> NoneRunning')
        BY <2>4 DEF SerialInv, RunningOwnsStack, StoppedIsDown, RegistryCoversStack, InState,
                    NoneRunning
    <2>6. \A v \in Workers : WorkerAgrees(v)'
        BY <2>1, <2>2, <2>3, <2>4, <2>5 DEF WorkerAgrees
    <2>7. \A d \in Controllers : CtlAgrees(d)'
        <3>1. CtlAgrees(c)'
            BY <2>2, <2>3, <2>4, <2>5 DEF CtlAgrees, WorkerAgrees
        <3>2. ASSUME NEW d \in Controllers, d # c
              PROVE  CtlAgrees(d)'
            BY <2>1, <2>2, <2>4, <3>2 DEF CtlAgrees, SerialInv
        <3>3. QED
            BY <3>1, <3>2
    <2>8. QED
        BY <2>1, <2>4, <2>5, <2>6, <2>7 DEF SerialInv
<1>5. QED
    BY <1>1, <1>2, <1>3, <1>4 DEF WorkerStep

\* A controller that loads active-run.json finds the run it is started for.
LEMMA LoadsOwnRun ==
    ASSUME SerialInv, NEW c \in Controllers, CtlLoad(c), ~CtlMoves(c, "load", "err")
    PROVE  /\ active \in Runs /\ ctl[c].kind # "stop" /\ CtlAgrees(c) /\ active # None
           /\ ctl' = [ctl EXCEPT ![c].pc = "preflight", ![c].cfg = active]
<1>1. CtlAgrees(c)
    BY DEF SerialInv
<1>2. ctl[c].pc = "load"
    BY DEF CtlLoad
<1>3. active \in Runs /\ ctl[c].kind # "stop"
    BY <1>1, <1>2 DEF CtlAgrees
<1>4. active # None
    BY <1>3, NamesAreDistinct
<1>5. QED
    BY <1>1, <1>3, <1>4 DEF CtlLoad

\* What stop() decides to signal is all there is on the host.
LEMMA TargetCoversStack ==
    ASSUME SerialInv, NEW c \in Controllers, CtlReadRegistry(c)
    PROVE  \E target : /\ ctl' = [ctl EXCEPT ![c].pc = "kill", ![c].target = target]
                       /\ alive \subseteq {target}
<1>1. alive \subseteq {registry}
    BY DEF SerialInv, RegistryCoversStack
<1>2. CASE registry \in alive
    BY <1>1, <1>2 DEF CtlReadRegistry, StatusRunning
<1>3. CASE registry \notin alive
    <2>1. alive \subseteq {None}
        BY <1>1, <1>3
    <2>2. QED
        BY <1>3, <2>1 DEF CtlReadRegistry, StatusRunning
<1>4. QED
    BY <1>2, <1>3

\* No controller step that keeps operations apart breaks the invariant.
LEMMA SerialCtl ==
    ASSUME SerialInv, TypeOK', Serial', NEW c \in Controllers, CtlStep(c)
    PROVE  SerialInv'
<1> USE DEF SerialInv, TypeOK, HandlerType, WorkerType, CtlType,
            RunningOwnsStack, StoppedIsDown, RegistryCoversStack,
            InState, NoneRunning, WorkerAgrees, CtlAgrees
<1>1. CASE CtlLoad(c) /\ ~CtlMoves(c, "load", "err")
    <2>1. /\ active \in Runs /\ ctl[c].kind # "stop" /\ CtlAgrees(c) /\ active # None
          /\ ctl' = [ctl EXCEPT ![c].pc = "preflight", ![c].cfg = active]
        BY <1>1, LoadsOwnRun
    <2>2. /\ ctl'[c].pc = "preflight" /\ ctl'[c].cfg = active /\ ctl'[c].kind = ctl[c].kind
          /\ \A d \in Controllers : d # c => ctl'[d] = ctl[d]
        BY <2>1
    <2>3. UNCHANGED <<row, active, registry, alive, handler, worker>>
        BY <1>1 DEF CtlLoad
    <2>4. \A d \in Controllers : CtlAgrees(d)'
        BY <1>1, <2>1, <2>2, <2>3 DEF CtlLoad
    <2>5. \A w \in Workers : WorkerAgrees(w)'
        BY <1>1, <2>1, <2>2, <2>3 DEF CtlLoad
    <2>6. RunningOwnsStack' /\ StoppedIsDown' /\ RegistryCoversStack'
        BY <2>3
    <2>7. QED
        BY <2>3, <2>4, <2>5, <2>6
<1>11. CASE CtlLoad(c) /\ CtlMoves(c, "load", "err")
    BY <1>11, SerialExcludes DEF CtlLoad, CtlMoves
<1>2. CASE CtlPreflight(c)
    BY <1>2, SerialExcludes DEF CtlPreflight, CtlMoves, StatusRunning
<1>3. CASE CtlLaunch(c)
    <2>1. /\ ctl[c].pc = "launch" /\ ctl'[c].pc \in {"launch", "attach"}
          /\ \A d \in Controllers : /\ ctl'[d].kind = ctl[d].kind
                                    /\ ctl'[d].cfg = ctl[d].cfg
                                    /\ d # c => ctl'[d].pc = ctl[d].pc
        BY <1>3, LaunchUpdates
    <2>2. /\ alive' = alive \cup {ctl[c].cfg} /\ registry' = ctl[c].cfg
          /\ UNCHANGED <<row, active, handler, worker>>
        BY <1>3 DEF CtlLaunch
    <2>3. /\ ctl[c].kind = "start" /\ CtlAgrees(c)
          /\ ctl[c].cfg \in Runs /\ row[ctl[c].cfg] \in Attempted
          /\ alive \subseteq {ctl[c].cfg} /\ NoneRunning
        BY <2>1
    <2>4. \A d \in Controllers : d # c => ctl[d].pc = "idle"
        BY <2>1, SerialExcludes
    <2>5. \A d \in Controllers : CtlAgrees(d)'
        BY <2>1, <2>2, <2>3, <2>4
    <2>6. \A w \in Workers : WorkerAgrees(w)'
        BY <2>1, <2>2, <2>3, <2>4
    <2>7. RunningOwnsStack' /\ StoppedIsDown' /\ RegistryCoversStack'
        BY <2>2, <2>3 DEF Attempted
    <2>8. QED
        BY <2>2, <2>5, <2>6, <2>7
<1>4. CASE CtlAttached(c)
    BY <1>4, SerialExcludes DEF CtlAttached, CtlMoves
<1>5. CASE CtlGivesUp(c)
    BY <1>5, SerialExcludes DEF CtlGivesUp, CtlMoves
<1>6. CASE CtlReadRegistry(c)
    <2>1. PICK target : /\ ctl' = [ctl EXCEPT ![c].pc = "kill", ![c].target = target]
                        /\ alive \subseteq {target}
        BY <1>6, TargetCoversStack
    <2>2. /\ ctl'[c].pc = "kill" /\ ctl'[c].target = target /\ ctl'[c].kind = ctl[c].kind
          /\ \A d \in Controllers : d # c => ctl'[d] = ctl[d]
        BY <2>1
    <2>3. /\ UNCHANGED <<row, active, registry, alive, handler, worker>>
          /\ ctl[c].pc = "read" /\ CtlAgrees(c)
        BY <1>6 DEF CtlReadRegistry
    <2>4. \A d \in Controllers : CtlAgrees(d)'
        BY <2>1, <2>2, <2>3
    <2>5. \A w \in Workers : WorkerAgrees(w)'
        BY <2>2, <2>3
    <2>6. RunningOwnsStack' /\ StoppedIsDown' /\ RegistryCoversStack'
        BY <2>3
    <2>7. QED
        BY <2>3, <2>4, <2>5, <2>6
<1>7. CASE CtlTerminate(c)
    BY <1>7, SerialExcludes DEF CtlTerminate, CtlMoves
<1>8. CASE CtlUnlink(c)
    BY <1>8, SerialExcludes DEF CtlUnlink, CtlMoves
<1>9. CASE CtlExits(c)
    BY <1>9, SerialExcludes DEF CtlExits, IdleCtl, Awaited
<1>10. QED
    BY <1>1, <1>2, <1>3, <1>4, <1>5, <1>6, <1>7, <1>8, <1>9, <1>11 DEF CtlStep

\* Nor does a restart of the Manager, a reboot of the host or a crash of a stack.
LEMMA SerialFault ==
    ASSUME SerialInv, TypeOK', Serial',
           ManagerRestarts \/ HostReboots \/ \E s \in Stacks : StackCrashes(s)
    PROVE  SerialInv'
<1> USE DEF SerialInv, TypeOK, HandlerType, WorkerType, CtlType,
            RunningOwnsStack, StoppedIsDown, RegistryCoversStack,
            InState, NoneRunning, WorkerAgrees, CtlAgrees, Attempted
<1>1. CASE ManagerRestarts
    BY <1>1 DEF ManagerRestarts, ThreadsLost, StartupRows, IdleHandler, IdleWorker
<1>2. CASE HostReboots
    BY <1>2 DEF HostReboots, ThreadsLost, StartupRows, IdleHandler, IdleWorker, IdleCtl
<1>3. ASSUME NEW s \in Stacks, StackCrashes(s)
      PROVE  SerialInv'
    BY <1>3 DEF StackCrashes
<1>4. QED
    BY <1>1, <1>2, <1>3

LEMMA SerialStep == SerialInv /\ [Next /\ Serial']_vars => SerialInv'
<1> SUFFICES ASSUME SerialInv, [Next /\ Serial']_vars
             PROVE  SerialInv'
    OBVIOUS
<1>1. CASE Next /\ Serial'
    <2>1. TypeOK'
        BY <1>1, StepTyped DEF SerialInv
    <2>2. QED
        BY <1>1, <2>1, SerialRequest, SerialWorker, SerialCtl, SerialFault DEF Next
<1>2. CASE UNCHANGED vars
    BY <1>2 DEF vars, SerialInv, TypeOK, Serial, Busy, Awaited, RunningOwnsStack,
                StoppedIsDown, RegistryCoversStack, InState, NoneRunning, WorkerAgrees,
                CtlAgrees
<1>3. QED
    BY <1>1, <1>2

LEMMA SerialInit == Init => SerialInv
<1> SUFFICES ASSUME Init
             PROVE  SerialInv
    OBVIOUS
<1>1. TypeOK
    BY InitTyped
<1>2. Serial
    BY DEF Init, Serial, Busy, IdleHandler, IdleWorker, IdleCtl
<1>3. RunningOwnsStack /\ StoppedIsDown /\ RegistryCoversStack
    BY DEF Init, RunningOwnsStack, StoppedIsDown, RegistryCoversStack, InState
<1>4. QED
    BY <1>1, <1>2, <1>3 DEF Init, SerialInv, IdleHandler, IdleWorker, IdleCtl,
                            WorkerAgrees, CtlAgrees

\* As long as operations do not overlap, the processes of a RUNNING run are its
\* own, a STOPPED run has none, and none is missing from processes.json: for
\* any number of runs and requests and through any restart, reboot, crash of a
\* stack or time-out of a worker.
THEOREM SerialSafe == SerialSpec => [](RunningOwnsStack /\ StoppedIsDown /\ RegistryCoversStack)
<1>1. SerialInv => RunningOwnsStack /\ StoppedIsDown /\ RegistryCoversStack
    BY DEF SerialInv
<1>2. QED
    BY <1>1, SerialInit, SerialStep, PTL DEF SerialSpec

\* A stopped run has no process left.
THEOREM StoppedRunsAreDown == SerialSpec => []StoppedIsDown
BY SerialSafe, PTL

------------------------------------------------------------------------------
(* LOST.                                                                    *)

\* Rows that no launch can belong to any more.
Spent == {"RUNNING", "STOPPING", "STOPPED", "STOP_FAILED", "LOST"}

\* A run whose controller may launch: its row is not spent, or a restart of the
\* Manager lost its row while the controller went on.
Launchable(r) == r \in restarts.orphaned \/ row[r] \in {"STARTING", "START_FAILED"}

\* What launches belongs to a row that is not spent, what reconciliation has
\* selected is, and what it is about to write LOST into has no process.
NoLostLaunch ==
    /\ InState({"LOST"}) \cap alive \subseteq restarts.orphaned
    /\ \A w \in Workers : worker[w].pc # "idle" /\ worker[w].kind = "start" =>
           row[worker[w].run] = "STARTING"
    /\ \A c \in Controllers : ctl[c].kind = "start" =>
           /\ ctl[c].pc = "load" => Launchable(active)
           /\ ctl[c].pc \in {"preflight", "launch"} => Launchable(ctl[c].cfg)
    /\ \A h \in Handlers :
           /\ \A r \in handler[h].cand : row[r] \in Spent
           /\ handler[h].pc = "lost" =>
                  handler[h].cand \cap alive \subseteq restarts.orphaned

LEMMA LostRequest ==
    ASSUME SerialInv, SerialInv', NoLostLaunch, NEW h \in Handlers, RequestStep(h)
    PROVE  NoLostLaunch'
<1>1. /\ row \in [Runs -> RowStates] /\ handler \in [Handlers -> HandlerType]
      /\ worker \in [Workers -> WorkerType] /\ TypeOK /\ Serial
    BY DEF SerialInv, TypeOK
<1>2. ASSUME UNCHANGED <<row, active, alive, worker, ctl, restarts>>,
             \A g \in Handlers :
                 /\ \A r \in handler'[g].cand : row[r] \in Spent
                 /\ handler'[g].pc = "lost" => handler'[g].cand \cap alive \subseteq restarts.orphaned
      PROVE  NoLostLaunch'
    BY <1>2 DEF NoLostLaunch, Launchable, InState
<1>3. CASE PostRun(h)
    <2>1. UNCHANGED <<row, active, alive, worker, ctl, restarts>>
        BY <1>3 DEF PostRun
    <2>2. \A g \in Handlers : \/ handler'[g] = handler[g]
                              \/ /\ handler'[g].cand = InState({"RUNNING"})
                                 /\ handler'[g].pc # "lost"
        BY <1>1, <1>3 DEF PostRun, HandlerType
    <2>3. \A r \in InState({"RUNNING"}) : row[r] \in Spent
        BY DEF InState, Spent
    <2>4. QED
        BY <1>2, <2>1, <2>2, <2>3 DEF NoLostLaunch, Launchable
<1>4. CASE ReconcileStatus(h)
    <2>1. UNCHANGED <<row, active, alive, worker, ctl, restarts>>
        BY <1>4 DEF ReconcileStatus
    <2>2. ASSUME ~StatusRunning
          PROVE  alive = {}
        BY <2>2 DEF StatusRunning, SerialInv, RegistryCoversStack
    <2>3. \A g \in Handlers : \/ handler'[g] = handler[g]
                              \/ handler'[g].cand = {}
                              \/ handler'[g].cand = handler[g].cand /\ ~StatusRunning
        BY <1>1, <1>4 DEF ReconcileStatus, HandlerType
    <2>4. QED
        BY <1>2, <2>1, <2>2, <2>3 DEF NoLostLaunch, Launchable
<1>5. CASE ReconcileLost(h)
    <2>1. /\ handler[h].pc = "lost" /\ UNCHANGED <<active, alive, worker, ctl, restarts>>
          /\ \A g \in Handlers : handler'[g] = handler[g] \/ handler'[g].cand = {}
        BY <1>1, <1>5 DEF ReconcileLost, HandlerType
    <2>2. \A r \in Runs : row'[r] = IF r \in handler[h].cand THEN "LOST" ELSE row[r]
        BY <1>5 DEF ReconcileLost
    <2>3. \A r \in handler[h].cand : row[r] \in Spent
        BY DEF NoLostLaunch, Launchable
    <2>4. \A r \in Runs : row[r] \in {"STARTING", "START_FAILED"} => row'[r] = row[r]
        BY <2>2, <2>3 DEF Spent
    <2>5. \A r \in Runs : row[r] \in Spent => row'[r] \in Spent
        BY <2>2 DEF Spent
    <2>6. (InState({"LOST"}) \cap alive \subseteq restarts.orphaned)'
        BY <2>1, <2>2 DEF NoLostLaunch, Launchable, InState
    <2>7. \A w \in Workers : worker[w].pc # "idle" => worker[w].run \in Runs
        BY DEF SerialInv, WorkerAgrees
    <2>8. \A c \in Controllers : ctl[c].kind = "start" =>
              /\ ctl[c].pc = "load" => active \in Runs
              /\ ctl[c].pc \in {"preflight", "launch"} => ctl[c].cfg \in Runs
        BY DEF SerialInv, CtlAgrees
    <2>9. \A g \in Handlers : handler[g].cand \subseteq Runs
        BY <1>1 DEF HandlerType
    <2>10. \A w \in Workers : worker'[w].pc # "idle" /\ worker'[w].kind = "start" =>
               row'[worker'[w].run] = "STARTING"
        BY <2>1, <2>4, <2>7 DEF NoLostLaunch, Launchable
    <2>11. \A c \in Controllers : ctl'[c].kind = "start" =>
               /\ ctl'[c].pc = "load" => Launchable(active)'
               /\ ctl'[c].pc \in {"preflight", "launch"} =>
                      Launchable(ctl[c].cfg)'
        BY <2>1, <2>4, <2>8 DEF NoLostLaunch, Launchable
    <2>12. \A g \in Handlers :
               /\ \A r \in handler'[g].cand : row'[r] \in Spent
               /\ handler'[g].pc = "lost" => handler'[g].cand \cap alive' \subseteq restarts'.orphaned
        BY <2>1, <2>5, <2>9 DEF NoLostLaunch, Launchable
    <2>13. QED
        BY <2>6, <2>10, <2>11, <2>12 DEF NoLostLaunch, Launchable
<1>6. CASE SelectActive(h) \/ \E r \in Runs : PostStop(h, r)
    <2>1. UNCHANGED <<row, active, alive, worker, ctl, restarts>>
        BY <1>6 DEF SelectActive, PostStop
    <2>2. \A g \in Handlers : \/ handler'[g] = handler[g]
                              \/ handler'[g].cand = handler[g].cand /\ handler'[g].pc # "lost"
        BY <1>1, <1>6 DEF SelectActive, PostStop, HandlerType
    <2>3. QED
        BY <1>2, <2>1, <2>2 DEF NoLostLaunch, Launchable
<1>7. ASSUME NEW r \in Runs, NEW s \in {"ABORTED", "STARTING", "STOPPING"},
             row' = [row EXCEPT ![r] = s], alive' = alive, restarts' = restarts,
             row[r] = "NONE" \/ s = "STOPPING",
             handler' = [handler EXCEPT ![h] = IdleHandler],
             handler[h].pc \in {"insert", "stop"}, ctl' = ctl,
             \A w \in Workers : worker'[w].pc # "idle" /\ worker'[w].kind = "start" =>
                 worker'[w].run = r /\ s = "STARTING"
      PROVE  NoLostLaunch'
    <2>1. \A c \in Controllers : ctl[c].pc = "idle"
        BY <1>1, <1>7, SerialExcludes
    <2>2. \A q \in Runs : row'[q] = IF q = r THEN s ELSE row[q]
        BY <1>1, <1>7
    <2>3. \A g \in Handlers : handler'[g] = handler[g] \/ handler'[g] = IdleHandler
        BY <1>1, <1>7
    <2>4. \A q \in Runs : row[q] \in Spent => row'[q] \in Spent
        BY <1>7, <2>2 DEF Spent
    <2>5. \A g \in Handlers : handler[g].cand \subseteq Runs
        BY <1>1 DEF HandlerType
    <2>6. (InState({"LOST"}) \cap alive \subseteq restarts.orphaned)'
        BY <1>7, <2>2 DEF NoLostLaunch, Launchable, InState
    <2>7. \A w \in Workers : worker'[w].pc # "idle" /\ worker'[w].kind = "start" =>
              row'[worker'[w].run] = "STARTING"
        BY <1>7, <2>2
    <2>8. \A g \in Handlers :
              /\ \A q \in handler'[g].cand : row'[q] \in Spent
              /\ handler'[g].pc = "lost" => handler'[g].cand \cap alive' \subseteq restarts'.orphaned
        BY <1>7, <2>3, <2>4, <2>5 DEF NoLostLaunch, Launchable, IdleHandler
    <2>9. QED
        BY <1>7, <2>1, <2>6, <2>7, <2>8 DEF NoLostLaunch, Launchable
<1>8. ASSUME NEW r \in Runs, InsertFails(h, r)
      PROVE  NoLostLaunch'
    <2>1. \A w \in Workers : worker'[w].pc = "idle"
        BY <1>1, <1>8, SerialExcludes DEF InsertFails
    <2>2. QED
        BY <1>7, <1>8, <2>1 DEF InsertFails
<1>9. ASSUME NEW r \in Runs, NEW w \in Workers, InsertRun(h, r, w)
      PROVE  NoLostLaunch'
    <2>1. \A v \in Workers : worker'[v] = NewWorker("start", r) \/ worker'[v].pc = "idle"
        BY <1>1, <1>9, SerialExcludes DEF InsertRun
    <2>2. \A v \in Workers : worker'[v].pc # "idle" => worker'[v].run = r
        BY <2>1 DEF NewWorker
    <2>3. /\ row' = [row EXCEPT ![r] = "STARTING"] /\ row[r] = "NONE" /\ UNCHANGED <<alive, ctl, restarts>>
          /\ handler' = [handler EXCEPT ![h] = IdleHandler] /\ handler[h].pc = "insert"
        BY <1>9 DEF InsertRun
    <2>4. QED
        BY <1>7, <2>2, <2>3
<1>10. ASSUME NEW w \in Workers, CommitStop(h, w)
       PROVE  NoLostLaunch'
    <2>1. \A v \in Workers : worker'[v] = NewWorker("stop", handler[h].run) \/ worker'[v].pc = "idle"
        BY <1>1, <1>10, SerialExcludes DEF CommitStop
    <2>2. handler[h].run \in Runs
        BY <1>10 DEF CommitStop, SerialInv
    <2>3. \A v \in Workers : worker'[v].pc # "idle" => worker'[v].kind # "start"
        BY <2>1 DEF NewWorker
    <2>4. /\ row' = [row EXCEPT ![handler[h].run] = "STOPPING"] /\ UNCHANGED <<alive, ctl, restarts>>
          /\ handler' = [handler EXCEPT ![h] = IdleHandler] /\ handler[h].pc = "stop"
        BY <1>10 DEF CommitStop
    <2>5. QED
        BY <1>7, <2>2, <2>3, <2>4
<1>11. QED
    BY <1>3, <1>4, <1>5, <1>6, <1>8, <1>9, <1>10 DEF RequestStep

LEMMA LostWorker ==
    ASSUME SerialInv, SerialInv', NoLostLaunch, NEW w \in Workers, WorkerStep(w)
    PROVE  NoLostLaunch'
<1>1. /\ row \in [Runs -> RowStates] /\ worker \in [Workers -> WorkerType]
      /\ ctl \in [Controllers -> CtlType] /\ handler \in [Handlers -> HandlerType]
      /\ TypeOK /\ Serial /\ worker[w] \in WorkerType /\ WorkerAgrees(w)
    BY DEF SerialInv, TypeOK
<1>2. ASSUME worker[w].pc # "idle", NEW ok \in BOOLEAN, Finish(w, ok),
             UNCHANGED <<active, alive, handler, restarts>>,
             \A c \in Controllers : ctl'[c] = ctl[c] \/ ctl'[c].pc = "idle"
      PROVE  NoLostLaunch'
    <2>1. /\ \A v \in Workers : worker[v].pc # "idle" => v = w
          /\ \A c \in Controllers : ctl[c].pc # "idle" =>
                 worker[w].pc = "wait" /\ worker[w].ctl = c
        BY <1>1, <1>2, SerialExcludes
    <2>2. \A v \in Workers : worker'[v].pc = "idle"
        BY <1>1, <1>2, <2>1 DEF Finish, IdleWorker
    <2>3. worker[w].run \in Runs /\ worker[w].kind \in {"start", "stop"}
        BY <1>1, <1>2 DEF WorkerAgrees, WorkerType
    <2>4. PICK s \in {"RUNNING", "START_FAILED", "STOPPED", "STOP_FAILED"} :
              /\ \A q \in Runs : row'[q] = IF q = worker[w].run THEN s ELSE row[q]
              /\ s \in {"RUNNING", "START_FAILED"} <=> worker[w].kind = "start"
        BY <1>1, <1>2, <2>3 DEF Finish, OutcomeRow
    <2>5. worker[w].kind = "start" => row[worker[w].run] = "STARTING"
        BY <1>2 DEF NoLostLaunch, Launchable
    <2>6. \A q \in Runs : row[q] \in Spent => row'[q] \in Spent
        BY <2>4, <2>5 DEF Spent
    <2>7. (InState({"LOST"}) \cap alive \subseteq restarts.orphaned)'
        BY <1>2, <2>4 DEF NoLostLaunch, Launchable, InState
    <2>8. \A h \in Handlers : handler[h].cand \subseteq Runs
        BY <1>1 DEF HandlerType
    <2>9. \A h \in Handlers :
              /\ \A q \in handler'[h].cand : row'[q] \in Spent
              /\ handler'[h].pc = "lost" => handler'[h].cand \cap alive' \subseteq restarts'.orphaned
        BY <1>2, <2>6, <2>8 DEF NoLostLaunch, Launchable
    <2>10. ASSUME NEW c \in Controllers, ctl'[c].kind = "start", ctl'[c].pc # "idle"
           PROVE  /\ ctl'[c].pc = "load" => Launchable(active)'
                  /\ ctl'[c].pc \in {"preflight", "launch"} =>
                         Launchable(ctl[c].cfg)'
        <3>1. ctl'[c] = ctl[c] /\ worker[w].pc = "wait" /\ worker[w].ctl = c
            BY <1>2, <2>1, <2>10
        <3>2. worker[w].kind = "start"
            BY <1>1, <2>10, <3>1 DEF WorkerAgrees
        <3>3. s = "START_FAILED"
            <4>1. NoneRunning'
                BY <2>10 DEF SerialInv, CtlAgrees
            <4>2. row'[worker[w].run] = s
                BY <2>3, <2>4
            <4>3. s # "RUNNING"
                BY <2>3, <4>1, <4>2 DEF NoneRunning, InState
            <4>4. QED
                BY <2>4, <3>2, <4>3
        <3>4. \A q \in Runs : row[q] \in {"STARTING", "START_FAILED"} =>
                                  row'[q] \in {"STARTING", "START_FAILED"}
            BY <2>4, <3>3
        <3>5. /\ ctl[c].pc = "load" => active \in Runs
              /\ ctl[c].pc \in {"preflight", "launch"} => ctl[c].cfg \in Runs
            BY <2>10, <3>1 DEF SerialInv, CtlAgrees
        <3>6. QED
            BY <1>2, <2>10, <3>1, <3>4, <3>5 DEF NoLostLaunch, Launchable
    <2>11. QED
        BY <2>2, <2>7, <2>9, <2>10 DEF NoLostLaunch, Launchable
<1>3. CASE InvokeFails(w)
    <2>1. /\ Finish(w, FALSE) /\ worker[w].pc # "idle"
          /\ UNCHANGED <<active, alive, handler, restarts>>
          /\ \A c \in Controllers : ctl'[c] = ctl[c]
        BY <1>3 DEF InvokeFails
    <2>2. QED
        BY <1>2, <2>1, ZenonT(30)
<1>4. CASE InvokeReturns(w)
    <2>1. (ctl[worker[w].ctl].pc = "ok") \in BOOLEAN
        OBVIOUS
    <2>2. /\ worker[w].pc # "idle" /\ UNCHANGED <<active, alive, handler, restarts>>
          /\ \A c \in Controllers : ctl'[c] = ctl[c] \/ ctl'[c].pc = "idle"
        BY <1>1, <1>4 DEF InvokeReturns, IdleCtl
    <2>3. Finish(w, ctl[worker[w].ctl].pc = "ok")
        BY <1>4 DEF InvokeReturns
    <2>4. QED
        BY <1>2, <2>1, <2>2, <2>3
<1>5. CASE InvokeTimesOut(w)
    <2>1. /\ Finish(w, FALSE) /\ worker[w].pc # "idle"
          /\ UNCHANGED <<active, alive, handler, restarts>>
          /\ \A c \in Controllers : ctl'[c] = ctl[c]
        BY <1>5 DEF InvokeTimesOut
    <2>2. QED
        BY <1>2, <2>1, ZenonT(30)
<1>6. ASSUME NEW c \in Controllers, Invoke(w, c)
      PROVE  NoLostLaunch'
    <2>1. /\ worker[w].pc = "begin" /\ UNCHANGED <<row, active, alive, handler, restarts>>
          /\ worker'[w].kind = worker[w].kind /\ worker'[w].run = worker[w].run
          /\ \A v \in Workers : v # w => worker'[v] = worker[v]
        BY <1>1, <1>6 DEF Invoke, WorkerType
    <2>2. /\ ctl'[c].pc = (IF worker[w].kind = "start" THEN "load" ELSE "read")
          /\ ctl'[c].kind = worker[w].kind
          /\ \A d \in Controllers : d # c => ctl'[d] = ctl[d]
        BY <1>1, <1>6 DEF Invoke, CtlType
    <2>3. worker[w].kind = "start" => active = worker[w].run /\ row[worker[w].run] = "STARTING"
        BY <1>1, <2>1 DEF WorkerAgrees, NoLostLaunch
    <2>4. \A v \in Workers : worker'[v].pc # "idle" /\ worker'[v].kind = "start" =>
              row'[worker'[v].run] = "STARTING"
        BY <2>1, <2>3 DEF NoLostLaunch, Launchable
    <2>5. \A d \in Controllers : ctl'[d].kind = "start" =>
              /\ ctl'[d].pc = "load" => Launchable(active)'
              /\ ctl'[d].pc \in {"preflight", "launch"} =>
                     Launchable(ctl[d].cfg)'
        BY <2>1, <2>2, <2>3 DEF NoLostLaunch, Launchable
    <2>6. QED
        BY <2>1, <2>4, <2>5 DEF NoLostLaunch, Launchable, InState
<1>7. QED
    BY <1>3, <1>4, <1>5, <1>6 DEF WorkerStep

LEMMA LostCtl ==
    ASSUME SerialInv, SerialInv', NoLostLaunch, NEW c \in Controllers, CtlStep(c)
    PROVE  NoLostLaunch'
<1>1. /\ ctl \in [Controllers -> CtlType] /\ TypeOK /\ Serial /\ ctl[c] \in CtlType
    BY DEF SerialInv, TypeOK
<1>2. UNCHANGED <<row, handler, worker, restarts>>
    BY DEF CtlStep, CtlLoad, CtlPreflight, CtlLaunch, CtlAttached, CtlGivesUp, CtlReadRegistry,
           CtlTerminate, CtlUnlink, CtlExits
<1>3. \A d \in Controllers : d # c => ctl[d].pc = "idle"
    <2>1. ctl[c].pc # "idle"
        BY DEF CtlStep, CtlLoad, CtlPreflight, CtlLaunch, CtlAttached, CtlGivesUp,
               CtlReadRegistry, CtlTerminate, CtlUnlink, CtlExits, CtlMoves
    <2>2. QED
        BY <1>1, <2>1, SerialExcludes
<1>4. CASE CtlLaunch(c)
    <2>1. /\ ctl[c].pc = "launch" /\ ctl'[c].pc \in {"launch", "attach"}
          /\ \A d \in Controllers : /\ ctl'[d].kind = ctl[d].kind
                                    /\ ctl'[d].cfg = ctl[d].cfg
                                    /\ d # c => ctl'[d].pc = ctl[d].pc
        BY <1>1, <1>4, LaunchUpdates
    <2>2. alive' = alive \cup {ctl[c].cfg} /\ active' = active
        BY <1>4 DEF CtlLaunch
    <2>3. ctl[c].kind = "start" /\ ctl[c].cfg \in Runs
        BY <1>1, <2>1 DEF SerialInv, CtlAgrees, CtlType
    <2>4. Launchable(ctl[c].cfg)
        BY <2>1, <2>3 DEF NoLostLaunch
    <2>5. (InState({"LOST"}) \cap alive \subseteq restarts.orphaned)'
        BY <1>2, <2>2, <2>4 DEF NoLostLaunch, Launchable, InState
    <2>6. \A h \in Handlers :
              ctl[c].cfg \in restarts.orphaned \/ ctl[c].cfg \notin handler[h].cand
        BY <2>4 DEF NoLostLaunch, Launchable, Spent
    <2>7. QED
        BY <1>2, <1>3, <2>1, <2>2, <2>4, <2>5, <2>6 DEF NoLostLaunch, Launchable
<1>5. CASE CtlLoad(c) /\ ~CtlMoves(c, "load", "err")
    <2>1. /\ active \in Runs /\ active # None
          /\ ctl' = [ctl EXCEPT ![c].pc = "preflight", ![c].cfg = active]
        BY <1>5, LoadsOwnRun
    <2>2. /\ ctl'[c].pc = "preflight" /\ ctl'[c].cfg = active /\ ctl'[c].kind = ctl[c].kind
          /\ \A d \in Controllers : d # c => ctl'[d] = ctl[d]
        BY <1>1, <2>1 DEF CtlType
    <2>3. ctl[c].pc = "load" /\ UNCHANGED <<active, alive>>
        BY <1>5 DEF CtlLoad
    <2>4. QED
        BY <1>2, <1>3, <2>2, <2>3 DEF NoLostLaunch, Launchable, InState
<1>6. CASE \/ CtlLoad(c) /\ CtlMoves(c, "load", "err")
           \/ CtlPreflight(c) \/ CtlAttached(c) \/ CtlGivesUp(c) \/ CtlReadRegistry(c)
           \/ CtlTerminate(c) \/ CtlUnlink(c) \/ CtlExits(c)
    <2>1. alive' \subseteq alive
        BY <1>6 DEF CtlLoad, CtlPreflight, CtlAttached, CtlGivesUp, CtlReadRegistry, CtlTerminate, CtlUnlink,
                    CtlExits
    <2>2. \A d \in Controllers : d # c => ctl'[d] = ctl[d]
        BY <1>1, <1>6 DEF CtlLoad, CtlPreflight, CtlAttached, CtlGivesUp, CtlReadRegistry, CtlTerminate,
                          CtlUnlink, CtlExits, CtlMoves
    <2>3. /\ ctl'[c].pc # "load"
          /\ ctl'[c].kind = "start" /\ ctl'[c].pc \in {"preflight", "launch"} =>
                 /\ ctl[c].kind = "start" /\ ctl[c].pc \in {"preflight", "launch"}
                 /\ ctl'[c].cfg = ctl[c].cfg
        <3>1. CASE CtlPreflight(c)
            BY <1>1, <3>1 DEF CtlPreflight, CtlMoves, CtlType
        <3>2. CASE CtlAttached(c)
            BY <1>1, <3>2 DEF CtlAttached, CtlMoves, CtlType
        <3>3. CASE CtlGivesUp(c)
            BY <1>1, <3>3 DEF CtlGivesUp, CtlMoves, CtlType
        <3>4. CASE CtlReadRegistry(c)
            BY <1>1, <3>4 DEF CtlReadRegistry, CtlType
        <3>5. CASE CtlTerminate(c)
            BY <1>1, <3>5 DEF CtlTerminate, CtlType
        <3>6. CASE CtlUnlink(c)
            BY <1>1, <3>6 DEF CtlUnlink, CtlMoves, CtlType
        <3>7. CASE CtlExits(c)
            BY <1>1, <3>7 DEF CtlExits, IdleCtl
        <3>9. CASE CtlMoves(c, "load", "err")
            BY <1>1, <3>9 DEF CtlMoves, CtlType
        <3>8. QED
            BY <1>6, <3>9, <3>1, <3>2, <3>3, <3>4, <3>5, <3>6, <3>7
    <2>4. QED
        BY <1>2, <1>3, <2>1, <2>2, <2>3 DEF NoLostLaunch, Launchable, InState
<1>7. QED
    BY <1>4, <1>5, <1>6 DEF CtlStep

\* A restart of the Manager loses the rows of controllers that go on launching,
\* and no other row whose stack is or will be up.
LEMMA LostRestart ==
    ASSUME SerialInv, NoLostLaunch, ManagerRestarts
    PROVE  NoLostLaunch'
<1>1. /\ row \in [Runs -> RowStates] /\ alive \subseteq {registry}
      /\ restarts \in [skipped : SUBSET Runs, orphaned : SUBSET Runs]
    BY DEF SerialInv, TypeOK, RegistryCoversStack
<1>2. PICK fails \in BOOLEAN : ThreadsLost(StatusRunning \/ fails, Orphans)
    BY DEF ManagerRestarts
<1>3. /\ \A r \in Runs : row'[r] = "LOST" => row[r] = "LOST" \/ ~StatusRunning
      /\ \A h \in Handlers : handler'[h] = IdleHandler
      /\ \A w \in Workers : worker'[w] = IdleWorker
      /\ restarts'.orphaned = restarts.orphaned \cup Orphans
      /\ UNCHANGED <<active, registry, alive, ctl>>
    BY <1>1, <1>2 DEF ThreadsLost, StartupRows, ManagerRestarts
<1>4. ~StatusRunning => alive = {}
    BY <1>1 DEF StatusRunning
<1>5. InState({"LOST"})' \cap alive' \subseteq restarts'.orphaned
    BY <1>3, <1>4 DEF NoLostLaunch, InState
<1>6. ASSUME NEW c \in Controllers, ctl[c].kind = "start", ctl[c].pc \in Launching
      PROVE  (IF ctl[c].pc = "load" THEN active ELSE ctl[c].cfg) \in Orphans
    BY <1>6 DEF Orphans, SerialInv, CtlAgrees, Launching
<1>7. \A c \in Controllers : ctl'[c].kind = "start" =>
          /\ ctl'[c].pc = "load" => Launchable(active)'
          /\ ctl'[c].pc \in {"preflight", "launch"} => Launchable(ctl[c].cfg)'
    BY <1>3, <1>6 DEF Launchable, Launching
<1>8. QED
    BY <1>3, <1>5, <1>7 DEF NoLostLaunch, IdleHandler, IdleWorker

LEMMA LostStep == SerialInv /\ NoLostLaunch /\ [Next /\ Serial']_vars => NoLostLaunch'
<1> SUFFICES ASSUME SerialInv, NoLostLaunch, [Next /\ Serial']_vars
             PROVE  NoLostLaunch'
    OBVIOUS
<1>1. SerialInv'
    BY SerialStep
<1>2. ASSUME NEW h \in Handlers, RequestStep(h)
      PROVE  NoLostLaunch'
    BY <1>1, <1>2, LostRequest
<1>3. ASSUME NEW w \in Workers, WorkerStep(w)
      PROVE  NoLostLaunch'
    BY <1>1, <1>3, LostWorker
<1>4. ASSUME NEW c \in Controllers, CtlStep(c)
      PROVE  NoLostLaunch'
    BY <1>1, <1>4, LostCtl
<1>5. CASE ManagerRestarts
    BY <1>5, LostRestart
<1>6. CASE HostReboots
    BY <1>6 DEF HostReboots, ThreadsLost, NoLostLaunch, IdleHandler, IdleWorker, IdleCtl
<1>7. ASSUME NEW s \in Stacks, StackCrashes(s)
      PROVE  NoLostLaunch'
    BY <1>7 DEF StackCrashes, NoLostLaunch, Launchable, InState
<1>8. CASE UNCHANGED vars
    BY <1>8 DEF vars, NoLostLaunch, Launchable, InState
<1>9. QED
    BY <1>2, <1>3, <1>4, <1>5, <1>6, <1>7, <1>8 DEF Next

\* As long as operations do not overlap, the stack of a LOST run is gone for
\* good, over every fault, unless the run's own controller was still launching
\* when the Manager restarted: for any number of runs and requests.
THEOREM LostIsGone == SerialSpec => []LostMeansGone
<1>1. Init => SerialInv /\ NoLostLaunch
    BY SerialInit DEF Init, NoLostLaunch, InState, IdleHandler, IdleWorker, IdleCtl
<1>2. SerialInv /\ NoLostLaunch /\ [Next /\ Serial']_vars => SerialInv' /\ NoLostLaunch'
    BY SerialStep, LostStep
<1>3. SerialInv /\ NoLostLaunch => LostMeansGone
    BY DEF NoLostLaunch, LostMeansGone
<1>4. QED
    BY <1>1, <1>2, <1>3, PTL DEF SerialSpec

------------------------------------------------------------------------------
(* Rows in transition.                                                      *)

LEMMA WorkerStaysStep ==
    ASSUME TypeOK, HasWorkerUnlessSkipped, [Next]_vars
    PROVE  HasWorkerUnlessSkipped'
<1> USE DEF HasWorkerUnlessSkipped, Transitional, InState, TypeOK,
           HandlerType, WorkerType
<1>1. ASSUME NEW h \in Handlers, RequestStep(h)
      PROVE  HasWorkerUnlessSkipped'
    <2>1. CASE PostRun(h) \/ ReconcileStatus(h) \/ SelectActive(h)
        BY <2>1 DEF PostRun, ReconcileStatus, SelectActive
    <2>2. CASE ReconcileLost(h)
        BY <2>2 DEF ReconcileLost
    <2>3. ASSUME NEW r \in Runs, InsertFails(h, r)
          PROVE  HasWorkerUnlessSkipped'
        BY <2>3 DEF InsertFails
    <2>4. ASSUME NEW r \in Runs, PostStop(h, r)
          PROVE  HasWorkerUnlessSkipped'
        BY <2>4 DEF PostStop
    <2>5. ASSUME NEW r \in Runs, NEW w \in Workers, InsertRun(h, r, w)
          PROVE  HasWorkerUnlessSkipped'
        BY <2>5 DEF InsertRun, NewWorker
    <2>6. ASSUME NEW w \in Workers, CommitStop(h, w)
          PROVE  HasWorkerUnlessSkipped'
        BY <2>6 DEF CommitStop, NewWorker
    <2>7. QED
        BY <1>1, <2>1, <2>2, <2>3, <2>4, <2>5, <2>6 DEF RequestStep
<1>2. ASSUME NEW w \in Workers, WorkerStep(w)
      PROVE  HasWorkerUnlessSkipped'
    <2>1. ASSUME NEW ok \in BOOLEAN, Finish(w, ok), UNCHANGED restarts
          PROVE  HasWorkerUnlessSkipped'
        BY <2>1 DEF Finish, OutcomeRow, IdleWorker
    <2>2. CASE InvokeFails(w)
        BY <2>1, <2>2 DEF InvokeFails
    <2>3. CASE InvokeReturns(w)
        <3>1. (ctl[worker[w].ctl].pc = "ok") \in BOOLEAN
            OBVIOUS
        <3>2. QED
            BY <2>1, <2>3, <3>1 DEF InvokeReturns
    <2>4. CASE InvokeTimesOut(w)
        BY <2>1, <2>4 DEF InvokeTimesOut
    <2>5. ASSUME NEW c \in Controllers, Invoke(w, c)
          PROVE  HasWorkerUnlessSkipped'
        BY <2>5 DEF Invoke
    <2>6. QED
        BY <1>2, <2>2, <2>3, <2>4, <2>5 DEF WorkerStep
<1>3. ASSUME NEW c \in Controllers, CtlStep(c)
      PROVE  HasWorkerUnlessSkipped'
    BY <1>3 DEF CtlStep, CtlLoad, CtlPreflight, CtlLaunch, CtlAttached, CtlGivesUp,
                CtlReadRegistry, CtlTerminate, CtlUnlink, CtlExits
<1>4. CASE ManagerRestarts \/ HostReboots
    BY <1>4 DEF ManagerRestarts, HostReboots, ThreadsLost, StartupRows, Skipped, Occupying
<1>5. ASSUME NEW s \in Stacks, StackCrashes(s)
      PROVE  HasWorkerUnlessSkipped'
    BY <1>5 DEF StackCrashes
<1>6. CASE UNCHANGED vars
    BY <1>6 DEF vars
<1>7. QED
    BY <1>1, <1>2, <1>3, <1>4, <1>5, <1>6 DEF Next

\* Whatever requests, workers and time-outs overlap, a STARTING or STOPPING row
\* has a worker that will decide it, over restarts and reboots too, unless a
\* start-up skipped the row.
THEOREM TransitionsAreOwned == Spec => []HasWorkerUnlessSkipped
<1>1. Init => HasWorkerUnlessSkipped
    BY DEF Init, HasWorkerUnlessSkipped, Transitional, InState
<1>2. TypeOK /\ HasWorkerUnlessSkipped /\ [Next]_vars => HasWorkerUnlessSkipped'
    BY WorkerStaysStep
<1>3. QED
    BY <1>1, <1>2, TypeCorrect, PTL DEF Spec

------------------------------------------------------------------------------
(* Any number of request handlers: a row only moves forward.                *)

\* A request to start a run reconciles the RUNNING rows, if there are any.
LEMMA PostRunSelects ==
    ASSUME TypeOK, NEW h \in Handlers, PostRun(h)
    PROVE  \A g \in Handlers :
              \/ handler'[g] = handler[g]
              \/ /\ handler'[g].pc \in {"select", "status"}
                 /\ handler'[g].pc = "status" \/ handler'[g].cand = {}
                 /\ \A r \in handler'[g].cand : row[r] = "RUNNING"
<1> DEFINE cand == InState({"RUNNING"})
<1>1. handler \in [Handlers -> HandlerType]
    BY DEF TypeOK
<1>2. \A g \in Handlers : g # h => handler'[g] = handler[g]
    BY <1>1 DEF PostRun
<1>3. \A r \in cand : row[r] = "RUNNING"
    BY DEF InState
<1>4. /\ handler'[h].pc = IF cand = {} THEN "select" ELSE "status"
      /\ handler'[h].cand = cand
    BY <1>1 DEF PostRun, HandlerType
<1>5. QED
    <2> HIDE DEF cand
    <2> QED
        BY <1>2, <1>3, <1>4

LEMMA ForwardRequest ==
    ASSUME ForwardInv, TypeOK, TypeOK', NEW h \in Handlers, RequestStep(h)
    PROVE  ForwardInv'
<1> USE DEF ForwardInv, TypeOK, HandlerType, WorkerType, Stoppable, Closing
<1>1. CASE PostRun(h)
    <2>1. \A g \in Handlers :
              \/ handler'[g] = handler[g]
              \/ /\ handler'[g].pc \in {"select", "status"}
                 /\ \A r \in handler'[g].cand : row[r] = "RUNNING"
        BY <1>1, PostRunSelects
    <2>2. UNCHANGED <<row, worker>>
        BY <1>1 DEF PostRun
    <2>3. QED
        BY <2>1, <2>2
<1>2. CASE ReconcileStatus(h)
    BY <1>2 DEF ReconcileStatus
<1>3. CASE ReconcileLost(h)
    BY <1>3 DEF ReconcileLost
<1>4. CASE SelectActive(h)
    BY <1>4 DEF SelectActive
<1>5. ASSUME NEW r \in Runs, InsertFails(h, r)
      PROVE  ForwardInv'
    BY <1>5 DEF InsertFails, IdleHandler
<1>6. ASSUME NEW r \in Runs, PostStop(h, r)
      PROVE  ForwardInv'
    BY <1>6 DEF PostStop
<1>7. ASSUME NEW r \in Runs, NEW w \in Workers, InsertRun(h, r, w)
      PROVE  ForwardInv'
    BY <1>7 DEF InsertRun, NewWorker, IdleHandler
<1>8. ASSUME NEW w \in Workers, CommitStop(h, w)
      PROVE  ForwardInv'
    BY <1>8 DEF CommitStop, NewWorker, IdleHandler
<1>9. QED
    BY <1>1, <1>2, <1>3, <1>4, <1>5, <1>6, <1>7, <1>8 DEF RequestStep

LEMMA ForwardWorker ==
    ASSUME ForwardInv, TypeOK, TypeOK', NEW w \in Workers, WorkerStep(w)
    PROVE  ForwardInv'
<1> USE DEF ForwardInv, TypeOK, HandlerType, WorkerType, CtlType, Stoppable, Closing
<1>1. ASSUME NEW ok \in BOOLEAN, Finish(w, ok), worker[w].pc # "idle", UNCHANGED handler
      PROVE  ForwardInv'
    BY <1>1 DEF Finish, OutcomeRow, IdleWorker
<1>2. CASE InvokeFails(w)
    BY <1>1, <1>2 DEF InvokeFails
<1>3. CASE InvokeReturns(w)
    <2>1. (ctl[worker[w].ctl].pc = "ok") \in BOOLEAN
        OBVIOUS
    <2>2. QED
        BY <1>1, <1>3, <2>1 DEF InvokeReturns
<1>4. CASE InvokeTimesOut(w)
    BY <1>1, <1>4 DEF InvokeTimesOut
<1>5. ASSUME NEW c \in Controllers, Invoke(w, c)
      PROVE  ForwardInv'
    BY <1>5 DEF Invoke
<1>6. QED
    BY <1>2, <1>3, <1>4, <1>5 DEF WorkerStep

LEMMA ForwardStep ==
    ASSUME ForwardInv, TypeOK, [Next]_vars
    PROVE  ForwardInv'
<1>1. TypeOK'
    BY StepTyped
<1>2. ASSUME NEW h \in Handlers, RequestStep(h)
      PROVE  ForwardInv'
    BY <1>1, <1>2, ForwardRequest
<1>3. ASSUME NEW w \in Workers, WorkerStep(w)
      PROVE  ForwardInv'
    BY <1>1, <1>3, ForwardWorker
<1>4. ASSUME UNCHANGED <<row, handler, worker>>
      PROVE  ForwardInv'
    BY <1>4 DEF ForwardInv
<1>5. ASSUME NEW c \in Controllers, CtlStep(c)
      PROVE  ForwardInv'
    BY <1>4, <1>5 DEF CtlStep, CtlLoad, CtlPreflight, CtlLaunch, CtlAttached, CtlGivesUp,
                      CtlReadRegistry, CtlTerminate, CtlUnlink, CtlExits
<1>6. CASE ManagerRestarts \/ HostReboots
    BY <1>6 DEF ManagerRestarts, HostReboots, ThreadsLost, ForwardInv, IdleHandler, IdleWorker
<1>7. ASSUME NEW s \in Stacks, StackCrashes(s)
      PROVE  ForwardInv'
    BY <1>4, <1>7 DEF StackCrashes
<1>8. CASE UNCHANGED vars
    BY <1>4, <1>8 DEF vars
<1>9. QED
    BY <1>2, <1>3, <1>5, <1>6, <1>7, <1>8 DEF Next

\* One row moves forward, or from one way of ending to another.
Forward(from, to) == Phase(from) < Phase(to) \/ {from, to} \subseteq Closing

\* Phase, state by state.
LEMMA Phases ==
    /\ Phase("NONE") = 0 /\ Phase("STARTING") = 1
    /\ Phase("RUNNING") = 2 /\ Phase("START_FAILED") = 2
    /\ \A s \in Closing : Phase(s) = 3
    /\ Phase("ABORTED") = 4
BY DEF Phase, Closing

LEMMA OneRowForward ==
    ASSUME TypeOK, NEW q \in Runs, NEW s, row' = [row EXCEPT ![q] = s], Forward(row[q], s)
    PROVE  \A r \in Runs : row'[r] # row[r] => Forward(row[r], row'[r])
BY DEF TypeOK

\* A worker's outcome follows the transition it was started for, or another end.
LEMMA FinishForward ==
    ASSUME ForwardInv, TypeOK, NEW w \in Workers, worker[w].pc # "idle",
           NEW ok \in BOOLEAN, Finish(w, ok)
    PROVE  \A r \in Runs : row'[r] # row[r] => Forward(row[r], row'[r])
<1>1. worker[w].kind \in {"start", "stop"} /\ worker[w].run \in Runs
    BY DEF ForwardInv, TypeOK, WorkerType
<1>2. CASE worker[w].kind = "start"
    <2>1. row[worker[w].run] = "STARTING"
        BY <1>2 DEF ForwardInv
    <2>2. OutcomeRow(worker[w].kind, ok) \in {"RUNNING", "START_FAILED"}
        BY <1>2 DEF OutcomeRow
    <2>3. QED
        BY <1>1, <2>1, <2>2, Phases, OneRowForward DEF Finish, Forward
<1>3. CASE worker[w].kind = "stop"
    <2>1. row[worker[w].run] \in Closing
        BY <1>3 DEF ForwardInv
    <2>2. OutcomeRow(worker[w].kind, ok) \in Closing
        BY <1>3 DEF OutcomeRow, Closing
    <2>3. QED
        BY <1>1, <2>1, <2>2, OneRowForward DEF Finish, Forward
<1>4. QED
    BY <1>1, <1>2, <1>3

LEMMA StartupForward ==
    ASSUME TypeOK, NEW stackRuns \in BOOLEAN, row' = StartupRows(stackRuns)
    PROVE  \A r \in Runs : row'[r] # row[r] => Forward(row[r], row'[r])
<1> SUFFICES ASSUME NEW r \in Runs, row'[r] # row[r]
             PROVE  Forward(row[r], row'[r])
    OBVIOUS
<1>1. row[r] \in Occupying /\ row'[r] = "LOST"
    BY DEF StartupRows
<1>2. QED
    BY <1>1, Phases DEF Forward, Occupying, Closing

LEMMA RequestForward ==
    ASSUME ForwardInv, TypeOK, NEW h \in Handlers, RequestStep(h)
    PROVE  \A r \in Runs : row'[r] # row[r] => Forward(row[r], row'[r])
<1>1. CASE PostRun(h) \/ ReconcileStatus(h) \/ SelectActive(h)
    BY <1>1 DEF PostRun, ReconcileStatus, SelectActive
<1>2. CASE ReconcileLost(h)
    <2>1. ASSUME NEW r \in Runs, row'[r] # row[r]
          PROVE  row[r] \in {"RUNNING"} \cup Closing /\ row'[r] = "LOST"
        BY <1>2, <2>1 DEF ReconcileLost, ForwardInv
    <2>2. QED
        BY <2>1, Phases DEF Forward, Closing
<1>3. ASSUME NEW q \in Runs, InsertFails(h, q)
      PROVE  \A r \in Runs : row'[r] # row[r] => Forward(row[r], row'[r])
    BY <1>3, Phases, OneRowForward DEF InsertFails, Forward
<1>4. ASSUME NEW q \in Runs, PostStop(h, q)
      PROVE  row' = row
    BY <1>4 DEF PostStop
<1>5. ASSUME NEW q \in Runs, NEW w \in Workers, InsertRun(h, q, w)
      PROVE  \A r \in Runs : row'[r] # row[r] => Forward(row[r], row'[r])
    BY <1>5, Phases, OneRowForward DEF InsertRun, Forward
<1>6. ASSUME NEW w \in Workers, CommitStop(h, w)
      PROVE  \A r \in Runs : row'[r] # row[r] => Forward(row[r], row'[r])
    <2>1. handler[h].run \in Runs /\ row[handler[h].run] \in Stoppable \cup Closing
        BY <1>6 DEF CommitStop, ForwardInv
    <2>2. Forward(row[handler[h].run], "STOPPING")
        BY <2>1, Phases DEF Stoppable, Closing, Forward
    <2>3. QED
        BY <1>6, <2>1, <2>2, OneRowForward DEF CommitStop
<1>7. QED
    BY <1>1, <1>2, <1>3, <1>4, <1>5, <1>6 DEF RequestStep

LEMMA RowsForward ==
    ASSUME ForwardInv, TypeOK, [Next]_vars
    PROVE  \A r \in Runs : row'[r] # row[r] => Forward(row[r], row'[r])
<1>1. ASSUME NEW h \in Handlers, RequestStep(h)
      PROVE  \A r \in Runs : row'[r] # row[r] => Forward(row[r], row'[r])
    BY <1>1, RequestForward
<1>2. ASSUME NEW w \in Workers, WorkerStep(w)
      PROVE  \A r \in Runs : row'[r] # row[r] => Forward(row[r], row'[r])
    <2>1. CASE InvokeFails(w)
        BY <2>1, FinishForward DEF InvokeFails
    <2>2. CASE InvokeReturns(w)
        <3>1. (ctl[worker[w].ctl].pc = "ok") \in BOOLEAN
            OBVIOUS
        <3>2. QED
            BY <2>2, <3>1, FinishForward DEF InvokeReturns
    <2>3. CASE InvokeTimesOut(w)
        BY <2>3, FinishForward DEF InvokeTimesOut
    <2>4. ASSUME NEW c \in Controllers, Invoke(w, c)
          PROVE  row' = row
        BY <2>4 DEF Invoke
    <2>5. QED
        BY <1>2, <2>1, <2>2, <2>3, <2>4 DEF WorkerStep
<1>3. ASSUME NEW c \in Controllers, CtlStep(c)
      PROVE  row' = row
    BY <1>3 DEF CtlStep, CtlLoad, CtlPreflight, CtlLaunch, CtlAttached, CtlGivesUp,
                CtlReadRegistry, CtlTerminate, CtlUnlink, CtlExits
<1>4. CASE ManagerRestarts
    <2>1. PICK fails \in BOOLEAN : row' = StartupRows(StatusRunning \/ fails)
        BY <1>4 DEF ManagerRestarts, ThreadsLost
    <2>2. (StatusRunning \/ fails) \in BOOLEAN
        BY DEF StatusRunning
    <2>3. QED
        BY <2>1, <2>2, StartupForward
<1>5. CASE HostReboots
    BY <1>5, StartupForward DEF HostReboots, ThreadsLost
<1>6. ASSUME NEW s \in Stacks, StackCrashes(s)
      PROVE  row' = row
    BY <1>6 DEF StackCrashes
<1>7. CASE UNCHANGED vars
    BY <1>7 DEF vars
<1>8. QED
    BY <1>1, <1>2, <1>3, <1>4, <1>5, <1>6, <1>7 DEF Next

LEMMA ForwardInit == Init => ForwardInv
BY DEF Init, ForwardInv, IdleHandler, IdleWorker

\* Whatever requests, workers, reconciliations and faults overlap, no row goes
\* back: a run that a stop or a reconciliation has taken is never RUNNING again,
\* and the outcome of a start is written once.
THEOREM RowsOnlyMoveForward == Spec => OnlyForward
<1>1. ForwardInv /\ TypeOK /\ [Next]_vars => ForwardInv'
    BY ForwardStep
<1>2. ForwardInv /\ TypeOK /\ [Next]_vars =>
          [\A r \in Runs :
               row'[r] # row[r] => \/ Phase(row[r]) < Phase(row'[r])
                                   \/ {row[r], row'[r]} \subseteq Closing]_row
    BY RowsForward DEF Forward
<1>3. QED
    BY <1>1, <1>2, ForwardInit, TypeCorrect, PTL DEF Spec, OnlyForward

------------------------------------------------------------------------------
(* Any number of request handlers: only overtaken reads leave RunContract.  *)

\* What the invariant says of a request.
LEMMA RaceRead ==
    ASSUME RaceInv, TypeOK, NEW g \in Handlers
    PROVE  /\ handler[g].cand \subseteq Runs
           /\ handler[g].pc \in {"status", "lost"} \/ handler[g].cand = {}
           /\ \A r \in handler[g].cand \ since[g] : row[r] = "RUNNING"
           /\ handler[g].pc = "stop" => handler[g].run \in Runs
           /\ handler[g].pc = "stop" /\ handler[g].run \notin since[g] =>
                  row[handler[g].run] \in Stoppable
BY DEF RaceInv, ForwardInv, TypeOK, HandlerType

\* A request that writes no row only reads again, or keeps what it has read.
LEMMA RaceReads ==
    ASSUME RaceInv, ForwardInv', TypeOK, NEW h \in Handlers,
           \/ PostRun(h) \/ ReconcileStatus(h) \/ SelectActive(h)
           \/ \E r \in Runs : PostStop(h, r)
    PROVE  RaceInv'
<1> USE DEF RaceInv, TypeOK, HandlerType, WorkerType, OneLiveUnlessRaced, InState
<1>1. CASE PostRun(h)
    <2>1. \A g \in Handlers :
              \/ handler'[g] = handler[g]
              \/ /\ handler'[g].pc \in {"select", "status"}
                 /\ handler'[g].pc = "status" \/ handler'[g].cand = {}
                 /\ \A r \in handler'[g].cand : row[r] = "RUNNING"
        BY <1>1, PostRunSelects
    <2>2. UNCHANGED <<row, worker, raced>> /\ since' = [since EXCEPT ![h] = {}]
        BY <1>1 DEF PostRun, ReadsAgain
    <2>3. \A g \in Handlers : g # h => handler'[g] = handler[g]
        BY <1>1 DEF PostRun
    <2>4. handler'[h].pc \in {"select", "status"}
        BY <1>1 DEF PostRun
    <2>5. /\ \A g \in Handlers :
                 /\ handler'[g].pc = "insert" => handler'[g] = handler[g] /\ since'[g] = since[g]
                 /\ handler'[g].pc = "stop" => handler'[g] = handler[g] /\ since'[g] = since[g]
          /\ since' \in [Handlers -> SUBSET Runs]
        BY <2>2, <2>3, <2>4
    <2>6. since'[h] = {} /\ \A g \in Handlers : g # h => since'[g] = since[g]
        BY <2>2
    <2>7. \A g \in Handlers : handler'[g].pc \in {"status", "lost"} \/ handler'[g].cand = {}
        BY <2>1, <2>3, <2>4
    <2>8. ASSUME NEW g \in Handlers, NEW r \in handler'[g].cand, r \notin since'[g]
          PROVE  row'[r] = "RUNNING"
        <3>1. CASE g = h
            <4>1. handler[h].pc = "idle"
                BY <1>1 DEF PostRun
            <4>2. handler'[h] # handler[h]
                BY <2>4, <4>1
            <4>3. QED
                BY <2>1, <2>2, <2>8, <3>1, <4>2
        <3>2. CASE g # h
            BY <2>2, <2>3, <2>6, <2>8, <3>2, RaceRead
        <3>3. QED
            BY <3>1, <3>2
    <2>9. \A g \in Handlers :
              /\ handler'[g].pc = "insert" /\ since'[g] = {} =>
                     InState({"STARTING", "RUNNING"})' = {}
              /\ handler'[g].pc = "stop" /\ handler'[g].run \notin since'[g] =>
                     row'[handler'[g].run] \in Stoppable
        BY <2>2, <2>5
    <2>10. QED
        BY <2>2, <2>5, <2>7, <2>8, <2>9
<1>2. CASE ReconcileStatus(h)
    BY <1>2 DEF ReconcileStatus, races
<1>3. CASE SelectActive(h)
    <2>1. /\ UNCHANGED <<row, worker, raced>> /\ since' = [since EXCEPT ![h] = {}]
          /\ \A g \in Handlers : g # h => handler'[g] = handler[g] /\ since'[g] = since[g]
          /\ handler[h].pc = "select" /\ handler'[h].cand = handler[h].cand
          /\ handler'[h].pc \in {"insert", "idle"}
          /\ handler'[h].pc = "insert" => InState(Occupying) = {}
        BY <1>3 DEF SelectActive, ReadsAgain
    <2>2. handler[h].cand = {}
        BY <2>1
    <2>3. \A g \in Handlers :
              /\ handler'[g].pc = "insert" /\ since'[g] = {} =>
                     InState({"STARTING", "RUNNING"})' = {}
              /\ handler'[g].pc = "stop" /\ handler'[g].run \notin since'[g] =>
                     row'[handler'[g].run] \in Stoppable
              /\ handler'[g].pc \in {"status", "lost"} \/ handler'[g].cand = {}
              /\ \A r \in handler'[g].cand \ since'[g] : row'[r] = "RUNNING"
        BY <2>1, <2>2 DEF Occupying
    <2>4. since' \in [Handlers -> SUBSET Runs]
        BY <2>1
    <2>5. QED
        BY <2>1, <2>3, <2>4
<1>4. ASSUME NEW r \in Runs, PostStop(h, r)
      PROVE  RaceInv'
    <2>1. /\ UNCHANGED <<row, worker, raced>> /\ since' = [since EXCEPT ![h] = {}]
          /\ row[r] \in Stoppable /\ handler[h].pc = "idle"
          /\ handler' = [handler EXCEPT ![h].pc = "stop", ![h].run = r]
        BY <1>4 DEF PostStop, ReadsAgain
    <2>2. /\ \A g \in Handlers : g # h => handler'[g] = handler[g]
          /\ handler'[h].pc = "stop" /\ handler'[h].run = r
          /\ handler'[h].cand = handler[h].cand
        BY <2>1
    <2>3. \A g \in Handlers : g # h => since'[g] = since[g]
        BY <2>1
    <2>4. handler[h].cand = {}
        BY <2>1
    <2>5. \A g \in Handlers :
              /\ handler'[g].pc = "insert" /\ since'[g] = {} =>
                     InState({"STARTING", "RUNNING"})' = {}
              /\ handler'[g].pc = "stop" /\ handler'[g].run \notin since'[g] =>
                     row'[handler'[g].run] \in Stoppable
              /\ handler'[g].pc \in {"status", "lost"} \/ handler'[g].cand = {}
              /\ \A q \in handler'[g].cand \ since'[g] : row'[q] = "RUNNING"
        BY <2>1, <2>4, <2>2, <2>3
    <2>6. since' \in [Handlers -> SUBSET Runs]
        BY <2>1
    <2>7. QED
        BY <2>1, <2>5, <2>6
<1>5. QED
    BY <1>1, <1>2, <1>3, <1>4

\* A stop takes a row the request read as stoppable and nobody wrote since, or
\* the row is raced.
LEMMA RaceCommitStop ==
    ASSUME RaceInv, ForwardInv', TypeOK, NEW h \in Handlers, NEW w \in Workers, CommitStop(h, w)
    PROVE  RaceInv'
<1> DEFINE q == handler[h].run
<1>1. /\ q \in Runs /\ row[q] \in Stoppable \cup Closing
      /\ q \notin since[h] => row[q] \in Stoppable
    BY DEF RaceInv, ForwardInv, CommitStop
<1>2. /\ \A r \in Runs : row'[r] = IF r = q THEN "STOPPING" ELSE row[r]
      /\ \A g \in Handlers : handler'[g] = IF g = h THEN IdleHandler ELSE handler[g]
      /\ \A v \in Workers : worker'[v] = IF v = w THEN NewWorker("stop", q) ELSE worker[v]
      /\ worker[w].pc = "idle"
      /\ raced' = raced \cup (since[h] \cap {q})
    BY DEF CommitStop, TypeOK
<1>3. \A g \in Handlers : since'[g] =
          IF g = h THEN {}
          ELSE IF handler[g].pc \in {"status", "lost", "stop"} THEN since[g] \cup {q}
          ELSE since[g]
    BY DEF CommitStop, Overtakes
<1>4. since' \in [Handlers -> SUBSET Runs] /\ raced' \in SUBSET Runs
    BY <1>1, <1>2 DEF CommitStop, Overtakes, RaceInv
<1> HIDE DEF q
<1>5. ASSUME q \notin raced'
      PROVE  \A v \in Workers : worker[v].pc # "idle" => worker[v].run # q
    <2>1. row[q] \in {"RUNNING", "START_FAILED"}
        BY <1>1, <1>2, <1>5 DEF Stoppable
    <2>2. \A v \in Workers : worker[v].pc # "idle" => worker[v].kind \in {"start", "stop"}
        BY DEF TypeOK, WorkerType
    <2>3. QED
        BY <2>1, <2>2 DEF RaceInv, ForwardInv, Closing
<1>6. ASSUME NEW u \in Workers, NEW v \in Workers,
             worker'[v].pc # "idle", worker'[v].kind = "stop", worker'[v].run \notin raced'
      PROVE  /\ row'[worker'[v].run] = "STOPPING"
             /\ worker'[u].pc # "idle" /\ worker'[u].run = worker'[v].run => u = v
    <2>1. worker'[v].run \notin raced
        BY <1>2, <1>6
    <2>2. worker[v].pc # "idle" /\ v # w => worker[v].run \in Runs
        BY DEF RaceInv, ForwardInv
    <2>3. CASE v = w
        <3>1. worker'[v].run = q
            BY <1>2, <2>3 DEF NewWorker
        <3>2. QED
            BY <1>1, <1>2, <1>5, <1>6, <2>3, <3>1
    <2>4. CASE v # w
        <3>1. worker'[v] = worker[v] /\ row[worker[v].run] = "STOPPING"
            BY <1>2, <1>6, <2>1, <2>4 DEF RaceInv
        <3>2. worker[v].run # q
            BY <1>5, <1>6, <3>1
        <3>3. u # w => worker'[u] = worker[u]
            BY <1>2
        <3>4. u = w => worker'[u].run = q
            BY <1>2 DEF NewWorker
        <3>5. QED
            BY <1>2, <1>6, <2>1, <2>2, <2>4, <3>1, <3>2, <3>3, <3>4 DEF RaceInv
    <2>5. QED
        BY <2>3, <2>4
<1>7. OneLiveUnlessRaced'
    BY <1>1, <1>2 DEF RaceInv, OneLiveUnlessRaced, InState
<1>8. ASSUME NEW g \in Handlers
      PROVE  /\ handler'[g].pc = "insert" /\ since'[g] = {} =>
                    InState({"STARTING", "RUNNING"})' = {}
             /\ handler'[g].pc = "stop" /\ handler'[g].run \notin since'[g] =>
                    row'[handler'[g].run] \in Stoppable
             /\ handler'[g].pc \in {"status", "lost"} \/ handler'[g].cand = {}
             /\ \A r \in handler'[g].cand \ since'[g] : row'[r] = "RUNNING"
    <2>1. CASE g = h
        BY <1>2, <2>1 DEF IdleHandler
    <2>2. CASE g # h
        <3>1. handler'[g] = handler[g] /\ handler[g].cand \subseteq Runs
            BY <1>2, <2>2 DEF TypeOK, HandlerType
        <3>2. handler[g].pc = "stop" => handler[g].run \in Runs
            BY DEF RaceInv, ForwardInv
        <3>3. handler[g].pc = "insert" /\ since'[g] = {} => since[g] = {}
            BY <1>3, <2>2
        <3>4. handler[g].pc = "insert" /\ since'[g] = {} =>
                  InState({"STARTING", "RUNNING"})' = {}
            BY <1>2, <3>3 DEF RaceInv, InState
        <3>5. handler[g].pc = "stop" /\ handler[g].run \notin since'[g] =>
                  row'[handler[g].run] \in Stoppable
            BY <1>2, <1>3, <2>2, RaceRead
        <3>6. handler[g].pc \in {"status", "lost"} \/ handler[g].cand = {}
            BY RaceRead
        <3>7. ASSUME NEW r \in handler[g].cand, r \notin since'[g]
              PROVE  row'[r] = "RUNNING"
            <4>1. r \in Runs /\ handler[g].pc \in {"status", "lost"}
                BY RaceRead
            <4>2. r \notin since[g]
                BY <1>3, <2>2, <3>7, <4>1
            <4>3. row[r] = "RUNNING"
                BY <4>2, RaceRead
            <4>4. QED
                BY <1>1, <1>2, <1>3, <2>2, <3>7, <4>1, <4>3
        <3>8. QED
            BY <3>1, <3>4, <3>5, <3>6, <3>7
    <2>3. QED
        BY <2>1, <2>2
<1>9. QED
    BY <1>4, <1>6, <1>7, <1>8 DEF RaceInv

\* So does a reconciliation with the rows it selected.
LEMMA RaceLost ==
    ASSUME RaceInv, ForwardInv', TypeOK, NEW h \in Handlers, ReconcileLost(h)
    PROVE  RaceInv'
<1> DEFINE lost == handler[h].cand
<1>1. lost \subseteq Runs /\ \A r \in lost \ since[h] : row[r] = "RUNNING"
    BY DEF RaceInv, TypeOK, HandlerType
<1>2. /\ \A r \in Runs : row'[r] = IF r \in lost THEN "LOST" ELSE row[r]
      /\ \A g \in Handlers : IF g = h THEN handler'[g].pc = "select" /\ handler'[g].cand = {}
                                      ELSE handler'[g] = handler[g]
      /\ worker' = worker
      /\ raced' = raced \cup (since[h] \cap lost)
    BY DEF ReconcileLost, TypeOK, HandlerType
<1>3. \A g \in Handlers : since'[g] =
          IF g = h THEN {}
          ELSE IF handler[g].pc \in {"status", "lost", "stop"} THEN since[g] \cup lost
          ELSE since[g]
    BY DEF ReconcileLost, Overtakes
<1>4. since' \in [Handlers -> SUBSET Runs] /\ raced' \in SUBSET Runs
    BY <1>1, <1>2 DEF ReconcileLost, Overtakes, RaceInv
<1> HIDE DEF lost
<1>5. ASSUME NEW v \in Workers, worker[v].pc # "idle", worker[v].kind = "stop",
             worker[v].run \in lost
      PROVE  worker[v].run \in raced'
    BY <1>1, <1>2, <1>5 DEF RaceInv, ForwardInv, Closing
<1>6. ASSUME NEW u \in Workers, NEW v \in Workers,
             worker'[v].pc # "idle", worker'[v].kind = "stop", worker'[v].run \notin raced'
      PROVE  /\ row'[worker'[v].run] = "STOPPING"
             /\ worker'[u].pc # "idle" /\ worker'[u].run = worker'[v].run => u = v
    <2>1. worker[v].run \in Runs /\ worker[v].run \notin raced /\ worker[v].run \notin lost
        BY <1>2, <1>5, <1>6 DEF RaceInv, ForwardInv
    <2>2. QED
        BY <1>2, <1>6, <2>1 DEF RaceInv
<1>7. OneLiveUnlessRaced'
    BY <1>2 DEF RaceInv, OneLiveUnlessRaced, InState
<1>8. ASSUME NEW g \in Handlers
      PROVE  /\ handler'[g].pc = "insert" /\ since'[g] = {} =>
                    InState({"STARTING", "RUNNING"})' = {}
             /\ handler'[g].pc = "stop" /\ handler'[g].run \notin since'[g] =>
                    row'[handler'[g].run] \in Stoppable
             /\ handler'[g].pc \in {"status", "lost"} \/ handler'[g].cand = {}
             /\ \A r \in handler'[g].cand \ since'[g] : row'[r] = "RUNNING"
    <2>1. CASE g = h
        BY <1>2, <2>1
    <2>2. CASE g # h
        <3>1. handler'[g] = handler[g] /\ handler[g].cand \subseteq Runs
            BY <1>2, <2>2 DEF TypeOK, HandlerType
        <3>2. handler[g].pc = "stop" => handler[g].run \in Runs
            BY DEF RaceInv, ForwardInv
        <3>3. handler[g].pc = "insert" /\ since'[g] = {} => since[g] = {}
            BY <1>3, <2>2
        <3>4. handler[g].pc = "insert" /\ since'[g] = {} =>
                  InState({"STARTING", "RUNNING"})' = {}
            BY <1>2, <3>3 DEF RaceInv, InState
        <3>5. handler[g].pc = "stop" /\ handler[g].run \notin since'[g] =>
                  row'[handler[g].run] \in Stoppable
            BY <1>2, <1>3, <2>2, RaceRead
        <3>6. handler[g].pc \in {"status", "lost"} \/ handler[g].cand = {}
            BY RaceRead
        <3>7. ASSUME NEW r \in handler[g].cand, r \notin since'[g]
              PROVE  row'[r] = "RUNNING"
            <4>1. r \in Runs /\ handler[g].pc \in {"status", "lost"}
                BY RaceRead
            <4>2. r \notin since[g]
                BY <1>3, <2>2, <3>7, <4>1
            <4>3. row[r] = "RUNNING"
                BY <4>2, RaceRead
            <4>4. QED
                BY <1>1, <1>2, <1>3, <2>2, <3>7, <4>1, <4>3
        <3>8. QED
            BY <3>1, <3>4, <3>5, <3>6, <3>7
    <2>3. QED
        BY <2>1, <2>2
<1>9. QED
    BY <1>4, <1>6, <1>7, <1>8 DEF RaceInv

\* An INSERT finds no live run, or another INSERT has overtaken its SELECT.
LEMMA RaceInsert ==
    ASSUME RaceInv, ForwardInv', TypeOK, NEW h \in Handlers, NEW q \in Runs, NEW w \in Workers,
           InsertRun(h, q, w)
    PROVE  RaceInv'
<1>1. row[q] = "NONE" /\ (since[h] = {} => InState({"STARTING", "RUNNING"}) = {})
    BY DEF RaceInv, InsertRun
<1>2. /\ \A r \in Runs : row'[r] = IF r = q THEN "STARTING" ELSE row[r]
      /\ \A g \in Handlers : handler'[g] = IF g = h THEN IdleHandler ELSE handler[g]
      /\ \A v \in Workers : worker'[v] = IF v = w THEN NewWorker("start", q) ELSE worker[v]
      /\ raced' = IF since[h] = {} THEN raced ELSE raced \cup {q}
    BY DEF InsertRun, TypeOK
<1>3. \A g \in Handlers : since'[g] =
          IF g = h THEN {}
          ELSE IF handler[g].pc \in {"insert"} THEN since[g] \cup {q} ELSE since[g]
    BY DEF InsertRun, Overtakes
<1>4. since' \in [Handlers -> SUBSET Runs] /\ raced' \in SUBSET Runs
    BY <1>2 DEF InsertRun, Overtakes, RaceInv
<1>5. ASSUME NEW u \in Workers, NEW v \in Workers,
             worker'[v].pc # "idle", worker'[v].kind = "stop", worker'[v].run \notin raced'
      PROVE  /\ row'[worker'[v].run] = "STOPPING"
             /\ worker'[u].pc # "idle" /\ worker'[u].run = worker'[v].run => u = v
    <2>1. v # w /\ worker'[v] = worker[v] /\ worker[v].run \in Runs /\ worker[v].run \notin raced
        BY <1>2, <1>5 DEF NewWorker, RaceInv, ForwardInv
    <2>2. row[worker[v].run] = "STOPPING" /\ worker[v].run # q
        BY <1>1, <1>5, <2>1 DEF RaceInv
    <2>3. u = w => worker'[u].run = q
        BY <1>2 DEF NewWorker
    <2>4. QED
        BY <1>2, <1>5, <2>1, <2>2, <2>3 DEF RaceInv
<1>6. OneLiveUnlessRaced'
    BY <1>1, <1>2 DEF RaceInv, OneLiveUnlessRaced, InState
<1>7. ASSUME NEW g \in Handlers
      PROVE  /\ handler'[g].pc = "insert" /\ since'[g] = {} =>
                    InState({"STARTING", "RUNNING"})' = {}
             /\ handler'[g].pc = "stop" /\ handler'[g].run \notin since'[g] =>
                    row'[handler'[g].run] \in Stoppable
             /\ handler'[g].pc \in {"status", "lost"} \/ handler'[g].cand = {}
             /\ \A r \in handler'[g].cand \ since'[g] : row'[r] = "RUNNING"
    <2>1. CASE g = h
        BY <1>2, <2>1 DEF IdleHandler
    <2>2. CASE g # h
        <3>1. handler'[g] = handler[g] /\ handler[g].cand \subseteq Runs
            BY <1>2, <2>2 DEF TypeOK, HandlerType
        <3>2. handler[g].pc = "stop" => handler[g].run \in Runs
            BY DEF RaceInv, ForwardInv
        <3>3. handler[g].pc = "insert" /\ since'[g] = {} => since[g] = {}
            BY <1>3, <2>2
        <3>4. handler[g].pc = "insert" /\ since'[g] = {} =>
                  InState({"STARTING", "RUNNING"})' = {}
            BY <1>3, <2>2
        <3>5. handler[g].pc = "stop" /\ handler[g].run \notin since'[g] =>
                  row'[handler[g].run] \in Stoppable
            BY <1>1, <1>2, <1>3, <2>2, <3>2 DEF RaceInv, Stoppable
        <3>6. handler[g].pc \in {"status", "lost"} \/ handler[g].cand = {}
            BY RaceRead
        <3>7. ASSUME NEW r \in handler[g].cand, r \notin since'[g]
              PROVE  row'[r] = "RUNNING"
            <4>1. r \in Runs /\ handler[g].pc \in {"status", "lost"}
                BY RaceRead
            <4>2. r \notin since[g]
                BY <1>3, <2>2, <3>7, <4>1
            <4>3. row[r] = "RUNNING"
                BY <4>2, RaceRead
            <4>4. QED
                BY <1>1, <1>2, <1>3, <2>2, <3>7, <4>1, <4>3
        <3>8. QED
            BY <3>1, <3>4, <3>5, <3>6, <3>7
    <2>3. QED
        BY <2>1, <2>2
<1>8. QED
    BY <1>4, <1>5, <1>6, <1>7 DEF RaceInv

\* A worker's outcome goes into a row that no request may have in hand unraced.
LEMMA RaceWorker ==
    ASSUME RaceInv, ForwardInv', TypeOK, NEW w \in Workers, WorkerStep(w)
    PROVE  RaceInv'
<1>1. ASSUME worker[w].pc # "idle", NEW ok \in BOOLEAN, Finish(w, ok),
             UNCHANGED <<handler, since, raced>>
      PROVE  RaceInv'
    <2> DEFINE q == worker[w].run
               s == OutcomeRow(worker[w].kind, ok)
    <2>1. /\ q \in Runs
          /\ worker[w].kind = "start" => row[q] = "STARTING"
          /\ worker[w].kind = "stop" => row[q] \in Closing
          /\ worker[w].kind \in {"start", "stop"}
        BY <1>1 DEF RaceInv, ForwardInv, TypeOK, WorkerType
    <2>2. /\ \A r \in Runs : row'[r] = IF r = q THEN s ELSE row[r]
          /\ \A v \in Workers : worker'[v] = IF v = w THEN IdleWorker ELSE worker[v]
        BY <1>1 DEF Finish, TypeOK
    <2>3. s \in {"STARTING", "RUNNING"} => row[q] = "STARTING"
        BY <2>1 DEF OutcomeRow
    <2> HIDE DEF q, s
    <2>4. row[q] # "RUNNING" /\ row[q] \notin Stoppable
        BY <2>1 DEF Stoppable, Closing
    <2>5. ASSUME NEW u \in Workers, NEW v \in Workers,
                 worker'[v].pc # "idle", worker'[v].kind = "stop", worker'[v].run \notin raced
          PROVE  /\ row'[worker'[v].run] = "STOPPING"
                 /\ worker'[u].pc # "idle" /\ worker'[u].run = worker'[v].run => u = v
        <3>1. v # w /\ worker'[v] = worker[v] /\ worker[v].run \in Runs
            BY <2>2, <2>5 DEF IdleWorker, RaceInv, ForwardInv
        <3>2. worker[v].run # q
            BY <1>1, <2>5, <3>1 DEF q, RaceInv
        <3>3. worker'[u].pc # "idle" => worker'[u] = worker[u]
            BY <2>2 DEF IdleWorker
        <3>4. QED
            BY <2>2, <2>5, <3>1, <3>2, <3>3 DEF RaceInv
    <2>6. InState({"STARTING", "RUNNING"})' \subseteq InState({"STARTING", "RUNNING"})
        BY <2>2, <2>3 DEF InState
    <2>7. OneLiveUnlessRaced'
        BY <1>1, <2>6 DEF RaceInv, OneLiveUnlessRaced
    <2>8. \A g \in Handlers :
              /\ handler[g].cand \subseteq Runs
              /\ handler[g].pc = "stop" => handler[g].run \in Runs
        BY DEF RaceInv, ForwardInv, TypeOK, HandlerType
    <2>9. \A g \in Handlers :
              /\ handler[g].pc = "insert" /\ since[g] = {} =>
                     InState({"STARTING", "RUNNING"})' = {}
              /\ handler[g].pc = "stop" /\ handler[g].run \notin since[g] =>
                     row'[handler[g].run] \in Stoppable
              /\ \A r \in handler[g].cand \ since[g] : row'[r] = "RUNNING"
        BY <2>2, <2>4, <2>6, <2>8 DEF RaceInv
    <2>10. QED
        BY <1>1, <2>5, <2>7, <2>9 DEF RaceInv
<1>2. CASE InvokeFails(w)
    BY <1>1, <1>2 DEF InvokeFails, races
<1>3. CASE InvokeReturns(w)
    <2>1. (ctl[worker[w].ctl].pc = "ok") \in BOOLEAN
        OBVIOUS
    <2>2. QED
        BY <1>1, <1>3, <2>1 DEF InvokeReturns, races
<1>4. CASE InvokeTimesOut(w)
    BY <1>1, <1>4 DEF InvokeTimesOut, races
<1>5. ASSUME NEW c \in Controllers, Invoke(w, c)
      PROVE  RaceInv'
    <2>1. UNCHANGED <<row, handler, since, raced>>
        BY <1>5 DEF Invoke, races
    <2>2. \A v \in Workers : /\ worker'[v].run = worker[v].run /\ worker'[v].kind = worker[v].kind
                             /\ worker'[v].pc # "idle" => worker[v].pc # "idle"
        BY <1>5 DEF Invoke, TypeOK, WorkerType
    <2>3. QED
        BY <2>1, <2>2 DEF RaceInv, OneLiveUnlessRaced, InState
<1>6. QED
    BY <1>2, <1>3, <1>4, <1>5 DEF WorkerStep

LEMMA RaceStep ==
    ASSUME RaceInv, TypeOK, [Next]_vars
    PROVE  RaceInv'
<1>1. ForwardInv'
    BY ForwardStep DEF RaceInv
<1>2. ASSUME NEW h \in Handlers, RequestStep(h)
      PROVE  RaceInv'
    <2>1. ASSUME NEW r \in Runs, InsertFails(h, r)
          PROVE  RaceInv'
        BY <1>1, <2>1 DEF InsertFails, ReadsAgain, IdleHandler, RaceInv, OneLiveUnlessRaced,
                          InState, Stoppable, TypeOK, HandlerType, ForwardInv
    <2>2. QED
        BY <1>1, <1>2, <2>1, RaceReads, RaceCommitStop, RaceLost, RaceInsert DEF RequestStep
<1>3. ASSUME NEW w \in Workers, WorkerStep(w)
      PROVE  RaceInv'
    BY <1>1, <1>3, RaceWorker
<1>4. ASSUME UNCHANGED <<row, handler, worker, since, raced>>
      PROVE  RaceInv'
    BY <1>1, <1>4 DEF RaceInv, OneLiveUnlessRaced, InState
<1>5. ASSUME NEW c \in Controllers, CtlStep(c)
      PROVE  RaceInv'
    BY <1>4, <1>5 DEF CtlStep, CtlLoad, CtlPreflight, CtlLaunch, CtlAttached, CtlGivesUp,
                      CtlReadRegistry, CtlTerminate, CtlUnlink, CtlExits, races
<1>6. ASSUME NEW leave, NEW orphans, ThreadsLost(leave, orphans)
      PROVE  RaceInv'
    <2>1. /\ \A r \in Runs : row'[r] \in {row[r], "LOST"}
          /\ \A h \in Handlers : handler'[h] = IdleHandler
          /\ \A w \in Workers : worker'[w] = IdleWorker
          /\ raced' = raced /\ since' = [h \in Handlers |-> {}]
        BY <1>6 DEF ThreadsLost, StartupRows, TypeOK
    <2>2. OneLiveUnlessRaced'
        BY <2>1 DEF RaceInv, OneLiveUnlessRaced, InState
    <2>3. QED
        BY <1>1, <2>1, <2>2 DEF RaceInv, IdleHandler, IdleWorker
<1>7. CASE ManagerRestarts \/ HostReboots
    BY <1>6, <1>7 DEF ManagerRestarts, HostReboots
<1>8. ASSUME NEW s \in Stacks, StackCrashes(s)
      PROVE  RaceInv'
    BY <1>4, <1>8 DEF StackCrashes, races
<1>9. CASE UNCHANGED vars
    BY <1>4, <1>9 DEF vars, races
<1>10. QED
    BY <1>2, <1>3, <1>5, <1>7, <1>8, <1>9 DEF Next

LEMMA RaceInit == Init => RaceInv
BY ForwardInit DEF Init, RaceInv, OneLiveUnlessRaced, InState, IdleHandler, IdleWorker

\* Whatever requests overlap, of two runs that are STARTING or RUNNING one was
\* inserted after another request's INSERT had overtaken its SELECT: restarts,
\* timeouts, stale reconciliations and late workers never make two runs live.
THEOREM OneLive == Spec => []OneLiveUnlessRaced
<1>1. RaceInv /\ TypeOK /\ [Next]_vars => RaceInv'
    BY RaceStep
<1>2. RaceInv => OneLiveUnlessRaced
    BY DEF RaceInv
<1>3. QED
    BY <1>1, <1>2, RaceInit, TypeCorrect, PTL DEF Spec

\* A step that changes one row, along a move, is a step of the contract.
LEMMA MoveAllowed ==
    ASSUME RaceInv, TypeOK, TypeOK', RaceInv', raced \subseteq raced',
           NEW r \in Runs, NEW s, row' = [row EXCEPT ![r] = s],
           r \in raced' \/ <<row[r], s>> \in Contract!Moves,
           r \in raced' \/ (s = "STARTING" => InState({"STARTING", "RUNNING"}) = {})
    PROVE  Contract!Next
<1>1. \A q \in Runs : row'[q] = IF q = r THEN s ELSE row[q]
    BY DEF TypeOK
<1>2. row' \in [Runs -> Contract!States] /\ raced' \subseteq Runs
    BY DEF TypeOK, RowStates, Contract!States, RaceInv
<1>3. ASSUME NEW q \in Contract!Moving \ raced'
      PROVE  /\ <<row[q], row'[q]>> \in Contract!Moves
             /\ row'[q] = "STARTING" => Contract!Holding = {} /\ Contract!Moving = {q}
    <2>1. q = r /\ row'[q] = s
        BY <1>1 DEF Contract!Moving
    <2>2. Contract!Moving = {q}
        BY <1>1, <2>1 DEF Contract!Moving
    <2>3. QED
        BY <2>1, <2>2 DEF Contract!Holding, InState
<1>4. QED
    BY <1>2, <1>3 DEF Contract!Next

\* So is one that loses rows which are starting, running or stopping.
LEMMA LossAllowed ==
    ASSUME RaceInv, TypeOK, TypeOK', RaceInv', raced \subseteq raced',
           \A r \in Runs \ raced' : row'[r] # row[r] => row[r] \in Occupying /\ row'[r] = "LOST"
    PROVE  Contract!Next
<1>1. row' \in [Runs -> Contract!States] /\ raced' \subseteq Runs
    BY DEF TypeOK, RowStates, Contract!States, RaceInv
<1>2. \A s \in Occupying : <<s, "LOST">> \in Contract!Moves
    BY DEF Occupying, Contract!Moves
<1>3. \A q \in Contract!Moving \ raced' :
          <<row[q], row'[q]>> \in Contract!Moves /\ row'[q] # "STARTING"
    BY <1>2 DEF Contract!Moving
<1>4. QED
    BY <1>1, <1>3 DEF Contract!Next

\* What a worker writes into an unraced row is one of the moves, because the row
\* is still in the transition the worker was started for.
LEMMA FinishAllowed ==
    ASSUME RaceInv, RaceInv', TypeOK, TypeOK', NEW w \in Workers, worker[w].pc # "idle",
           NEW ok \in BOOLEAN, Finish(w, ok), UNCHANGED raced
    PROVE  Contract!Next
<1>1. worker[w].kind \in {"start", "stop"}
    BY DEF TypeOK, WorkerType
<1>2. /\ worker[w].run \in Runs
      /\ worker[w].kind = "start" => row[worker[w].run] = "STARTING"
      /\ worker[w].kind = "stop" /\ worker[w].run \notin raced =>
             row[worker[w].run] = "STOPPING"
    BY DEF RaceInv, ForwardInv
<1>3. /\ worker[w].run \notin raced =>
             <<row[worker[w].run], OutcomeRow(worker[w].kind, ok)>> \in Contract!Moves
      /\ OutcomeRow(worker[w].kind, ok) # "STARTING"
    BY <1>1, <1>2 DEF OutcomeRow, Contract!Moves
<1>4. row' = [row EXCEPT ![worker[w].run] = OutcomeRow(worker[w].kind, ok)]
    BY DEF Finish
<1>5. QED
    BY <1>2, <1>3, <1>4, MoveAllowed

LEMMA ContractRequest ==
    ASSUME RaceInv, RaceInv', TypeOK, TypeOK', NEW h \in Handlers, RequestStep(h)
    PROVE  Contract!Next \/ UNCHANGED <<row, raced>>
<1>1. CASE \/ PostRun(h) \/ ReconcileStatus(h) \/ SelectActive(h)
           \/ \E r \in Runs : PostStop(h, r)
    BY <1>1 DEF PostRun, ReconcileStatus, SelectActive, PostStop, races
<1>2. CASE ReconcileLost(h)
    <2>1. raced' = raced \cup (since[h] \cap handler[h].cand)
        BY <1>2 DEF ReconcileLost
    <2>2. \A r \in handler[h].cand \ since[h] : row[r] = "RUNNING"
        BY DEF RaceInv
    <2>3. \A r \in Runs \ raced' : row'[r] # row[r] => row[r] \in Occupying /\ row'[r] = "LOST"
        BY <1>2, <2>1, <2>2 DEF ReconcileLost, Occupying
    <2>4. QED
        BY <2>1, <2>3, LossAllowed
<1>3. ASSUME NEW r \in Runs, InsertFails(h, r)
      PROVE  Contract!Next
    <2>1. /\ <<row[r], "ABORTED">> \in Contract!Moves
          /\ row' = [row EXCEPT ![r] = "ABORTED"] /\ raced' = raced
        BY <1>3 DEF InsertFails, Contract!Moves
    <2>2. QED
        BY <2>1, MoveAllowed
<1>4. ASSUME NEW r \in Runs, NEW w \in Workers, InsertRun(h, r, w)
      PROVE  Contract!Next
    <2>1. /\ <<row[r], "STARTING">> \in Contract!Moves
          /\ row' = [row EXCEPT ![r] = "STARTING"]
          /\ raced' = IF since[h] = {} THEN raced ELSE raced \cup {r}
        BY <1>4 DEF InsertRun, Contract!Moves
    <2>2. since[h] = {} => InState({"STARTING", "RUNNING"}) = {}
        BY <1>4 DEF InsertRun, RaceInv
    <2>3. QED
        BY <2>1, <2>2, MoveAllowed
<1>5. ASSUME NEW w \in Workers, CommitStop(h, w)
      PROVE  Contract!Next
    <2>1. /\ handler[h].run \in Runs
          /\ handler[h].run \notin since[h] => row[handler[h].run] \in Stoppable
        BY <1>5 DEF CommitStop, RaceInv, ForwardInv
    <2>2. /\ row' = [row EXCEPT ![handler[h].run] = "STOPPING"]
          /\ raced' = raced \cup (since[h] \cap {handler[h].run})
        BY <1>5 DEF CommitStop
    <2>3. handler[h].run \in raced' \/ <<row[handler[h].run], "STOPPING">> \in Contract!Moves
        BY <2>1, <2>2 DEF Stoppable, Contract!Moves
    <2>4. QED
        BY <2>1, <2>2, <2>3, MoveAllowed
<1>6. QED
    BY <1>1, <1>2, <1>3, <1>4, <1>5 DEF RequestStep

LEMMA ContractStep ==
    ASSUME RaceInv, TypeOK, [Next]_vars
    PROVE  [Contract!Next]_<<row, raced>>
<1>0. RaceInv' /\ TypeOK'
    BY RaceStep, StepTyped
<1>1. ASSUME NEW h \in Handlers, RequestStep(h)
      PROVE  Contract!Next \/ UNCHANGED <<row, raced>>
    BY <1>0, <1>1, ContractRequest
<1>2. ASSUME NEW w \in Workers, WorkerStep(w)
      PROVE  Contract!Next \/ UNCHANGED <<row, raced>>
    <2>1. CASE InvokeFails(w)
        BY <1>0, <2>1, FinishAllowed DEF InvokeFails, races
    <2>2. CASE InvokeReturns(w)
        <3>1. (ctl[worker[w].ctl].pc = "ok") \in BOOLEAN
            OBVIOUS
        <3>2. QED
            BY <1>0, <2>2, <3>1, FinishAllowed DEF InvokeReturns, races
    <2>3. CASE InvokeTimesOut(w)
        BY <1>0, <2>3, FinishAllowed DEF InvokeTimesOut, races
    <2>4. ASSUME NEW c \in Controllers, Invoke(w, c)
          PROVE  UNCHANGED <<row, raced>>
        BY <2>4 DEF Invoke, races
    <2>5. QED
        BY <1>2, <2>1, <2>2, <2>3, <2>4 DEF WorkerStep
<1>3. ASSUME NEW c \in Controllers, CtlStep(c)
      PROVE  UNCHANGED <<row, raced>>
    BY <1>3 DEF CtlStep, CtlLoad, CtlPreflight, CtlLaunch, CtlAttached, CtlGivesUp,
                CtlReadRegistry, CtlTerminate, CtlUnlink, CtlExits, races
<1>4. ASSUME NEW leave, NEW orphans, ThreadsLost(leave, orphans)
      PROVE  Contract!Next
    <2>1. /\ \A r \in Runs : row'[r] # row[r] => row[r] \in Occupying /\ row'[r] = "LOST"
          /\ raced' = raced
        BY <1>4 DEF ThreadsLost, StartupRows
    <2>2. QED
        BY <1>0, <2>1, LossAllowed
<1>5. CASE ManagerRestarts \/ HostReboots
    BY <1>4, <1>5 DEF ManagerRestarts, HostReboots
<1>6. ASSUME NEW s \in Stacks, StackCrashes(s)
      PROVE  UNCHANGED <<row, raced>>
    BY <1>6 DEF StackCrashes, races
<1>7. CASE UNCHANGED vars
    BY <1>7 DEF vars, races
<1>8. QED
    BY <1>1, <1>2, <1>3, <1>5, <1>6, <1>7 DEF Next

\* However many requests, workers, reconciliations and faults overlap, every
\* change of a row is one the contract allows, unless a request wrote it on a
\* read that another request's write had overtaken: a final state stays final,
\* and a run becomes STARTING only while no other holds the stack.
THEOREM RowsKeepContract == Spec => ImplementsContract
<1>1. Init => Contract!Init
    BY DEF Init, Contract!Init
<1>2. RaceInv /\ TypeOK /\ [Next]_vars => RaceInv'
    BY RaceStep
<1>3. RaceInv /\ TypeOK /\ [Next]_vars => [Contract!Next]_<<row, raced>>
    BY ContractStep
<1>4. QED
    BY <1>1, <1>2, <1>3, RaceInit, TypeCorrect, PTL
       DEF Spec, ImplementsContract, Contract!Spec
=============================================================================
