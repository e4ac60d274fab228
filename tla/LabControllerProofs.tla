-------------------------- MODULE LabControllerProofs --------------------------
(***************************************************************************)
(* Proofs about LabController for any number of commands, components and   *)
(* faults.                                                                 *)
(***************************************************************************)
EXTENDS LabController, TLAPS

Kinds == {"start", "stop", "recover"}
CmdRecords == [pc : Pcs, kind : Kinds, cfg : Configs \cup {None}, want : Configs \cup {None},
               next : 1 .. Len(Components) + 1, listed : SUBSET Groups, live : SUBSET Groups]

------------------------------------------------------------------------------
(* Types.                                                                   *)

\* A command that has not launched yet is at its first component, one that
\* launches was told to start, and one that is about to has a configuration.
Sound(r) ==
    /\ r.pc \in {"idle", "load", "preflight", "check"} \/ r.kind = "recover" => r.next = 1
    /\ r.pc \in {"load", "preflight", "spawn", "register", "attach"} => r.kind = "start"
    /\ r.pc = "check" => r.kind = "recover"
    /\ r.pc = "preflight" => r.cfg # None
    /\ r.pc \in {"spawn", "register"} => r.cfg # None /\ r.next <= Len(Components)

Cmd == cmd \in [Cmds -> CmdRecords] /\ \A c \in Cmds : Sound(cmd[c])

\* What the types say besides the commands.
WorldOK ==
    /\ active \in Runs \cup {None}
    /\ file \in SUBSET Groups /\ leaders \in SUBSET Groups /\ children \in SUBSET Groups
    /\ foreign \in SUBSET Groups
    /\ faults \in 0 .. MaxFaults
    /\ seen \subseteq FaultKinds
    /\ overlapped \in BOOLEAN

Typed == WorldOK /\ Cmd

LEMMA TypedMeansTypeOK ==
    ASSUME Typed
    PROVE  TypeOK
BY DEF Typed, TypeOK, WorldOK, Cmd, Sound, CmdRecords, Kinds

LEMMA ComponentFacts ==
    /\ Len(Components) \in Nat \ {0}
    /\ \A i \in 1 .. Len(Components) : Components[i] \in STRING
    /\ None \notin Configs /\ Runs \subseteq Configs /\ Baseline \in Configs
BY ComponentsAreNamedOnce, ConfigurationsAreDistinct DEF Configs

LEMMA RuntimeConfigType ==
    ASSUME WorldOK
    PROVE  RuntimeConfig \in Configs /\ RuntimeConfig # None
BY ComponentFacts DEF RuntimeConfig, WorldOK

LEMMA GroupFacts ==
    ASSUME Cmd, NEW c \in Cmds
    PROVE  /\ cmd[c].next <= Len(Components) => Newest(c) \in Groups
           /\ Started(c) \in SUBSET Groups
<1>1. cmd[c].next \in 1 .. Len(Components) + 1 /\ Len(Components) \in Nat
    BY ComponentFacts DEF Cmd, CmdRecords
<1>2. cmd[c].next <= Len(Components) => Newest(c) \in Groups
    BY <1>1 DEF Newest, Groups
<1>3. Started(c) \in SUBSET Groups
    BY <1>1 DEF Started, Groups
<1>4. QED
    BY <1>2, <1>3

\* A step that changes one command and leaves it sound.
LEMMA OneCmdSound ==
    ASSUME Cmd, NEW c \in Cmds, NEW r \in CmdRecords, Sound(r), cmd' = [cmd EXCEPT ![c] = r]
    PROVE  Cmd'
<1>1. \A d \in Cmds : cmd'[d] = IF d = c THEN r ELSE cmd[d]
    BY DEF Cmd
<1>2. cmd' \in [Cmds -> CmdRecords]
    BY DEF Cmd
<1>3. QED
    BY <1>1, <1>2 DEF Cmd, Sound

\* Moving a command on, where the new place needs no more than the old one.
LEMMA MovesSound ==
    ASSUME Cmd, NEW c \in Cmds, NEW from, NEW to \in Pcs, Moves(c, from, to),
           to \notin {"idle", "load", "preflight", "check"},
           to \in {"spawn", "register"} =>
               cmd[c].cfg # None /\ cmd[c].next <= Len(Components),
           to \in {"spawn", "register", "attach"} => cmd[c].kind = "start"
    PROVE  Cmd'
<1> DEFINE r == [cmd[c] EXCEPT !.pc = to]
<1>1. cmd[c] \in CmdRecords /\ cmd' = [cmd EXCEPT ![c] = r]
    BY DEF Cmd, Moves
<1>2. /\ r \in CmdRecords /\ r.pc = to /\ r.kind = cmd[c].kind /\ r.cfg = cmd[c].cfg
      /\ r.next = cmd[c].next
    BY <1>1 DEF CmdRecords
<1>3. cmd[c].kind = "recover" => cmd[c].next = 1
    BY DEF Cmd, Sound
<1> HIDE DEF r
<1>4. Sound(r)
    BY <1>2, <1>3 DEF Sound
<1>5. QED
    BY <1>1, <1>2, <1>4, OneCmdSound

LEMMA CmdStepSound ==
    ASSUME Typed, NEW c \in Cmds, CmdStep(c) \/ RegisterFails(c)
    PROVE  Cmd'
<1>1. Cmd /\ cmd[c] \in CmdRecords /\ Sound(cmd[c]) /\ Len(Components) \in Nat \ {0}
    BY ComponentFacts DEF Typed, Cmd
<1>2. CASE Load(c)
    <2> DEFINE r == [cmd[c] EXCEPT !.pc = "preflight", !.cfg = RuntimeConfig]
    <2>1. /\ r \in CmdRecords /\ r.pc = "preflight" /\ r.cfg # None
          /\ r.next = cmd[c].next /\ r.kind = cmd[c].kind
        BY <1>1, RuntimeConfigType DEF Typed, CmdRecords, Pcs
    <2>2. cmd[c].next = 1 /\ cmd[c].kind = "start" /\ cmd' = [cmd EXCEPT ![c] = r]
        BY <1>1, <1>2 DEF Load, Sound, Cmd
    <2> HIDE DEF r
    <2>3. Sound(r)
        BY <2>1, <2>2 DEF Sound
    <2>4. QED
        BY <1>1, <2>1, <2>2, <2>3, OneCmdSound
<1>3. CASE Preflight(c)
    <2>1. cmd[c].cfg # None /\ cmd[c].next = 1 /\ cmd[c].kind = "start"
        BY <1>1, <1>3 DEF Preflight, Moves, Sound
    <2>2. Moves(c, "preflight", "spawn") \/ Moves(c, "preflight", "err")
        BY <1>3 DEF Preflight
    <2>3. QED
        BY <1>1, <2>1, <2>2, MovesSound DEF Pcs
<1>4. CASE Spawn(c)
    <2>1. /\ Moves(c, "spawn", "register") /\ cmd[c].kind = "start"
          /\ cmd[c].cfg # None /\ cmd[c].next <= Len(Components)
        BY <1>1, <1>4 DEF Spawn, Moves, Sound
    <2>2. QED
        BY <1>1, <2>1, MovesSound DEF Pcs
<1>5. CASE Register(c)
    <2> DEFINE to == IF cmd[c].next < Len(Components) THEN "spawn" ELSE "attach"
               r == [cmd[c] EXCEPT !.next = @ + 1, !.pc = to]
    <2>1. /\ cmd[c].cfg # None /\ cmd[c].next <= Len(Components) /\ cmd[c].next \in Nat \ {0}
          /\ cmd[c].kind = "start"
        BY <1>1, <1>5 DEF Register, Sound, CmdRecords
    <2>2. cmd' = [cmd EXCEPT ![c] = r]
        BY <1>1, <1>5 DEF Register, Cmd
    <2>3. to \in {"spawn", "attach"} /\ (to = "spawn" => cmd[c].next + 1 <= Len(Components))
        BY <1>1, <2>1
    <2> HIDE DEF to
    <2>4. cmd[c].next + 1 \in 1 .. Len(Components) + 1
        BY <1>1, <2>1
    <2>5. /\ r \in CmdRecords /\ r.pc = to /\ r.next = cmd[c].next + 1
          /\ r.kind = cmd[c].kind /\ r.cfg = cmd[c].cfg
        BY <1>1, <2>3, <2>4 DEF CmdRecords, Pcs
    <2> HIDE DEF r
    <2>6. Sound(r)
        BY <2>1, <2>3, <2>5 DEF Sound
    <2>7. QED
        BY <1>1, <2>2, <2>5, <2>6, OneCmdSound
<1>6. CASE Attached(c) \/ GivesUp(c) \/ EndBatch(c) \/ RegisterFails(c) \/ LoadRaises(c)
    <2>1. \/ Moves(c, "attach", "ok") \/ Moves(c, "attach", "read") \/ Moves(c, "spawn", "read")
          \/ Moves(c, "register", "read") \/ Moves(c, "first", "rest") \/ Moves(c, "rest", "unlink")
          \/ Moves(c, "load", "err") \/ Moves(c, "check", "gone")
        BY <1>6 DEF Attached, GivesUp, EndBatch, RegisterFails, LoadRaises
    <2>2. QED
        BY <1>1, <2>1, MovesSound DEF Pcs
<1>7. CASE ReadRegistry(c)
    <2> DEFINE r == [cmd[c] EXCEPT !.pc = "first", !.listed = file,
                                   !.live = {p \in file : RegisteredRunning(p)}]
    <2>1. /\ r \in CmdRecords /\ r.pc = "first" /\ r.kind = cmd[c].kind /\ r.next = cmd[c].next
        BY <1>1 DEF CmdRecords, Typed, WorldOK, Pcs
    <2>2. cmd' = [cmd EXCEPT ![c] = r]
        BY <1>1, <1>7 DEF ReadRegistry, Cmd
    <2> HIDE DEF r
    <2>3. Sound(r)
        BY <1>1, <2>1 DEF Sound
    <2>4. QED
        BY <1>1, <2>1, <2>2, <2>3, OneCmdSound
<1>8. CASE RecoverLoads(c)
    <2> DEFINE r == [cmd[c] EXCEPT !.pc = "read", !.want = RuntimeConfig]
    <2>1. /\ r \in CmdRecords /\ r.pc = "read" /\ r.kind = cmd[c].kind /\ r.next = cmd[c].next
        BY <1>1, RuntimeConfigType DEF CmdRecords, Typed, Pcs
    <2>2. cmd' = [cmd EXCEPT ![c] = r]
        BY <1>1, <1>8 DEF RecoverLoads, Cmd
    <2> HIDE DEF r
    <2>3. Sound(r)
        BY <1>1, <2>1 DEF Sound
    <2>4. QED
        BY <1>1, <2>1, <2>2, <2>3, OneCmdSound
<1>9. ASSUME Unlink(c)
      PROVE  Cmd'
    <2>1. PICK to \in {"load", "err", "ok"}, k \in {"start", "stop"} :
              /\ cmd' = [cmd EXCEPT ![c] = [cmd[c] EXCEPT !.pc = to, !.kind = k,
                                                          !.listed = {}, !.live = {}]]
              /\ to = "load" => cmd[c].next = 1 /\ k = "start"
        <3>1. cmd[c].kind \in Kinds
            BY <1>1 DEF CmdRecords
        <3>2. CASE cmd[c].kind = "recover"
            BY <1>1, <1>9, <3>2 DEF Unlink, Cmd, Sound
        <3>3. CASE cmd[c].kind = "start"
            BY <1>1, <1>9, <3>3 DEF Unlink, Cmd
        <3>4. CASE cmd[c].kind = "stop"
            BY <1>1, <1>9, <3>4 DEF Unlink, Cmd
        <3>5. QED
            BY <3>1, <3>2, <3>3, <3>4 DEF Kinds
    <2> DEFINE r == [cmd[c] EXCEPT !.pc = to, !.kind = k, !.listed = {}, !.live = {}]
    <2>2. /\ r \in CmdRecords /\ r.pc = to /\ r.next = cmd[c].next /\ r.kind = k
        BY <1>1 DEF CmdRecords, Kinds, Pcs
    <2>3. cmd' = [cmd EXCEPT ![c] = r]
        BY <2>1
    <2> HIDE DEF r
    <2>4. Sound(r)
        BY <2>1, <2>2 DEF Sound
    <2>5. QED
        BY <1>1, <2>2, <2>3, <2>4, OneCmdSound
<1>10. QED
    BY <1>2, <1>3, <1>4, <1>5, <1>6, <1>7, <1>8, <1>9 DEF CmdStep

LEMMA TypedInit ==
    ASSUME Init
    PROVE  Typed
<1>1. IdleCmd \in CmdRecords /\ Sound(IdleCmd)
    BY ComponentFacts DEF IdleCmd, CmdRecords, Kinds, Pcs, Sound
<1>2. Cmd
    BY <1>1 DEF Init, Cmd
<1>3. WorldOK
    <2>1. 0 \in 0 .. MaxFaults
        BY BoundsAreNat
    <2>2. QED
        BY <2>1 DEF Init, WorldOK
<1>4. QED
    BY <1>2, <1>3 DEF Typed

LEMMA TypedNext ==
    ASSUME Typed, [Next]_vars
    PROVE  Typed'
<1> USE DEF world, history
<1>1. WorldOK /\ Cmd /\ cmd \in [Cmds -> CmdRecords]
    BY DEF Typed, Cmd
<1>2. CASE UNCHANGED vars
    BY <1>2 DEF vars, Typed, WorldOK, Cmd, Sound
<1>3. ASSUME NEW r \in Runs, Configure(r)
      PROVE  Typed'
    <2>1. WorldOK'
        BY <1>1, <1>3 DEF Configure, WorldOK
    <2>2. Cmd'
        BY <1>1, <1>3 DEF Configure, Cmd, Sound
    <2>3. QED
        BY <2>1, <2>2 DEF Typed
<1>4. ASSUME NEW c \in Cmds, NEW kind \in Kinds, Issue(c, kind)
      PROVE  Typed'
    <2> DEFINE r == [cmd[c] EXCEPT !.pc = FirstPc(kind), !.kind = kind]
    <2>1. cmd[c] \in CmdRecords /\ Sound(cmd[c]) /\ cmd[c].pc = "idle"
        BY <1>1, <1>4 DEF Issue, Cmd
    <2>2. /\ FirstPc(kind) \in {"load", "read", "check"}
          /\ FirstPc(kind) = "load" => kind = "start"
          /\ FirstPc(kind) = "check" => kind = "recover"
        BY DEF FirstPc, Kinds
    <2>3. r \in CmdRecords /\ r.pc = FirstPc(kind) /\ r.kind = kind /\ r.next = cmd[c].next
        BY <2>1, <2>2 DEF CmdRecords, Pcs
    <2>4. cmd' = [cmd EXCEPT ![c] = r]
        BY <1>1, <1>4 DEF Issue
    <2> HIDE DEF r
    <2>5. Sound(r)
        BY <2>1, <2>2, <2>3 DEF Sound
    <2>6. Cmd'
        BY <1>1, <2>3, <2>4, <2>5, OneCmdSound
    <2>7. WorldOK'
        BY <1>1, <1>4 DEF Issue, WorldOK
    <2>8. QED
        BY <2>6, <2>7 DEF Typed
<1>5. ASSUME NEW c \in Cmds, CmdStep(c) \/ RegisterFails(c)
      PROVE  Typed'
    <2>1. Newest(c) \in Groups \/ cmd[c].pc \notin {"spawn", "register"}
        BY <1>1, GroupFacts DEF Cmd, Sound
    <2>2. Started(c) \in SUBSET Groups
        BY <1>1, GroupFacts
    <2>3. file' \in SUBSET Groups
        <3>1. file' \in {file, {}} \/ (cmd[c].pc = "register" /\ file' = Started(c) \cup {Newest(c)})
            BY <1>5 DEF CmdStep, Load, Preflight, Spawn, Register, Attached, GivesUp, ReadRegistry,
                        EndBatch, Unlink, RecoverLoads, LoadRaises, RegisterFails
        <3>2. QED
            BY <1>1, <2>1, <2>2, <3>1 DEF WorldOK
    <2>4. leaders' \in SUBSET Groups /\ children' \in SUBSET Groups /\ foreign' \in SUBSET Groups
        <3>1. CASE Spawn(c)
            BY <1>1, <2>1, <3>1 DEF Spawn, Moves, WorldOK
        <3>2. CASE ~Spawn(c)
            <4>1. leaders' \subseteq leaders /\ children' \subseteq children /\ foreign' \subseteq foreign
                BY <1>5, <3>2 DEF CmdStep, Load, Preflight, Register, Attached, GivesUp, ReadRegistry,
                                  EndBatch, Unlink, RecoverLoads, LoadRaises, RegisterFails
            <4>2. QED
                BY <1>1, <4>1 DEF WorldOK
        <3>3. QED
            BY <3>1, <3>2
    <2>5. active' \in Runs \cup {None}
        <3>1. active' \in {active, None}
            BY <1>5 DEF CmdStep, Load, Preflight, Spawn, Register, Attached, GivesUp, ReadRegistry,
                        EndBatch, Unlink, RecoverLoads, LoadRaises, RegisterFails
        <3>2. QED
            BY <1>1, <3>1 DEF WorldOK
    <2>6. faults' \in 0 .. MaxFaults /\ seen' \subseteq FaultKinds /\ overlapped' \in BOOLEAN
        <3>1. CASE RegisterFails(c)
            BY <1>1, <3>1, BoundsAreNat DEF RegisterFails, Fault, WorldOK
        <3>2. CASE ~RegisterFails(c)
            <4>1. UNCHANGED <<faults, seen, overlapped>>
                BY <1>5, <3>2 DEF CmdStep, Load, Preflight, Spawn, Register, Attached, GivesUp,
                                  ReadRegistry, EndBatch, Unlink, RecoverLoads, LoadRaises
            <4>2. QED
                BY <1>1, <4>1 DEF WorldOK
        <3>3. QED
            BY <3>1, <3>2
    <2>7. WorldOK'
        BY <2>3, <2>4, <2>5, <2>6 DEF WorldOK
    <2>8. QED
        BY <1>5, <2>7, CmdStepSound DEF Typed
<1>6. ASSUME NEW c \in Cmds, NEW p \in Groups, Ends(c, p)
      PROVE  Typed'
    <2>1. WorldOK'
        BY <1>1, <1>6 DEF Ends, WorldOK
    <2>2. Cmd'
        BY <1>1, <1>6 DEF Ends, Cmd, Sound
    <2>3. QED
        BY <2>1, <2>2 DEF Typed
<1>7. ASSUME NEW p \in Groups, ComponentCrashes(p) \/ WrapperDies(p)
      PROVE  Typed'
    <2>1. WorldOK'
        BY <1>1, <1>7, BoundsAreNat DEF ComponentCrashes, WrapperDies, Fault, WorldOK
    <2>2. Cmd'
        BY <1>1, <1>7 DEF ComponentCrashes, WrapperDies, Cmd, Sound
    <2>3. QED
        BY <2>1, <2>2 DEF Typed
<1>8. CASE HostReboots
    <2>1. WorldOK'
        BY <1>1, <1>8, BoundsAreNat DEF HostReboots, Fault, WorldOK
    <2>2. ASSUME NEW c \in Cmds
          PROVE  cmd'[c] \in CmdRecords /\ Sound(cmd'[c])
        <3>1. cmd[c] \in CmdRecords /\ Sound(cmd[c])
            BY <1>1 DEF Cmd
        <3>2. cmd'[c] = cmd[c] \/ cmd'[c] = [cmd[c] EXCEPT !.pc = "gone"]
            BY <1>8 DEF HostReboots
        <3>3. QED
            BY <3>1, <3>2 DEF CmdRecords, Sound, Pcs
    <2>3. cmd' = [c \in Cmds |-> cmd'[c]]
        BY <1>8 DEF HostReboots
    <2>4. Cmd'
        BY <2>2, <2>3 DEF Cmd
    <2>5. QED
        BY <2>1, <2>4 DEF Typed
<1>9. QED
    BY <1>2, <1>3, <1>4, <1>5, <1>6, <1>7, <1>8 DEF Next, Kinds

------------------------------------------------------------------------------
(* What a step of one command leaves alone.                                 *)

\* It is busy before the step, and no other command changes.
LEMMA StepFrame ==
    ASSUME Typed, NEW c \in Cmds, CmdStep(c) \/ RegisterFails(c)
    PROVE  /\ Busy(c)
           /\ cmd'[c].pc # "idle"
           /\ \A d \in Cmds : d # c => cmd'[d] = cmd[d]
<1>1. cmd \in [Cmds -> CmdRecords] /\ cmd[c] \in CmdRecords
    BY DEF Typed, Cmd
<1>2. CASE Unlink(c)
    <2>1. cmd[c].kind \in Kinds
        BY <1>1 DEF CmdRecords
    <2>2. Busy(c) /\ \A d \in Cmds : d # c => cmd'[d] = cmd[d]
        BY <1>1, <1>2 DEF Unlink, Busy
    <2>3. CASE cmd[c].kind = "recover"
        BY <1>1, <1>2, <2>2, <2>3 DEF Unlink
    <2>4. CASE cmd[c].kind = "start"
        BY <1>1, <1>2, <2>2, <2>4 DEF Unlink
    <2>5. CASE cmd[c].kind = "stop"
        BY <1>1, <1>2, <2>2, <2>5 DEF Unlink
    <2>6. QED
        BY <2>1, <2>3, <2>4, <2>5 DEF Kinds
<1>3. CASE Register(c)
    BY <1>1, <1>3 DEF Register, Busy
<1>4. ASSUME NEW from \in Pcs \ {"idle", "ok", "err", "gone"}, NEW to \in Pcs \ {"idle"},
             Moves(c, from, to)
      PROVE  Busy(c) /\ cmd'[c].pc # "idle" /\ \A d \in Cmds : d # c => cmd'[d] = cmd[d]
    BY <1>1, <1>4 DEF Moves, Busy
<1>5. CASE \/ Preflight(c) \/ Spawn(c) \/ Attached(c) \/ GivesUp(c) \/ EndBatch(c)
           \/ RegisterFails(c) \/ LoadRaises(c)
    <2>1. \/ Moves(c, "preflight", "spawn") \/ Moves(c, "preflight", "err")
          \/ Moves(c, "spawn", "register") \/ Moves(c, "attach", "ok") \/ Moves(c, "attach", "read")
          \/ Moves(c, "spawn", "read") \/ Moves(c, "register", "read")
          \/ Moves(c, "first", "rest") \/ Moves(c, "rest", "unlink")
          \/ Moves(c, "load", "err") \/ Moves(c, "check", "gone")
        BY <1>5 DEF Preflight, Spawn, Attached, GivesUp, EndBatch, RegisterFails, LoadRaises
    <2>2. QED
        BY <1>4, <2>1 DEF Pcs
<1>6. CASE Load(c)
    BY <1>1, <1>6 DEF Load, Busy
<1>7. CASE ReadRegistry(c)
    BY <1>1, <1>7 DEF ReadRegistry, Busy
<1>8. CASE RecoverLoads(c)
    BY <1>1, <1>8 DEF RecoverLoads, Busy
<1>9. QED
    BY <1>2, <1>3, <1>5, <1>6, <1>7, <1>8 DEF CmdStep

------------------------------------------------------------------------------
(* Pids that name other processes.                                          *)

\* A registered pid belongs to a command that has begun, one that names another
\* process since a reboot to one that is over, and nobody is about to signal it.
ForeignInv ==
    /\ \A p \in file : cmd[p[1]].pc # "idle"
    /\ \A p \in foreign : ~Busy(p[1]) /\ cmd[p[1]].pc # "idle" /\ p \notin leaders
    /\ \A c \in Cmds : cmd[c].pc \in {"first", "rest"} => cmd[c].live \cap foreign = {}

LEMMA BatchIsLive ==
    ASSUME NEW c \in Cmds
    PROVE  /\ Batch(c) \subseteq cmd[c].live
           /\ cmd[c].pc \notin {"first", "rest"} => Batch(c) = {}
BY DEF Batch

LEMMA ForeignNext ==
    ASSUME Typed, ForeignInv, [Next]_vars
    PROVE  ForeignInv'
<1> USE DEF world, history
<1>1. /\ cmd \in [Cmds -> CmdRecords] /\ \A p \in Groups : p[1] \in Cmds
      /\ file \subseteq Groups /\ foreign \subseteq Groups
    BY DEF Typed, Cmd, WorldOK, Groups
<1>2. CASE UNCHANGED vars \/ \E r \in Runs : Configure(r)
    BY <1>2 DEF vars, Configure, ForeignInv, Busy
<1>3. ASSUME NEW c \in Cmds, NEW kind \in Kinds, Issue(c, kind)
      PROVE  ForeignInv'
    <2>1. FirstPc(kind) \in {"load", "read", "check"}
        BY DEF FirstPc, Kinds
    <2>2. /\ cmd[c].pc = "idle" /\ cmd'[c].pc = FirstPc(kind)
          /\ \A d \in Cmds : d # c => cmd'[d] = cmd[d]
          /\ UNCHANGED <<file, foreign, leaders>>
        BY <1>1, <1>3 DEF Issue
    <2>3. QED
        BY <1>1, <2>1, <2>2 DEF ForeignInv, Busy
<1>4. ASSUME NEW c \in Cmds, CmdStep(c) \/ RegisterFails(c)
      PROVE  ForeignInv'
    <2>1. Busy(c) /\ cmd'[c].pc # "idle" /\ \A d \in Cmds : d # c => cmd'[d] = cmd[d]
        BY <1>4, StepFrame
    <2>2. \A p \in foreign : p[1] \in Cmds /\ p[1] # c
        BY <1>1, <2>1 DEF ForeignInv
    <2>3. /\ file' \subseteq file \cup Started(c) \cup {Newest(c)}
          /\ leaders' \subseteq leaders \cup {Newest(c)}
          /\ foreign' \subseteq foreign
        BY <1>4 DEF CmdStep, Load, Preflight, Spawn, Register, Attached, GivesUp, ReadRegistry,
                    EndBatch, Unlink, RecoverLoads, LoadRaises, RegisterFails
    <2>4. Newest(c)[1] = c /\ \A p \in Started(c) : p[1] = c
        BY DEF Newest, Started
    <2>5. \A p \in file' : cmd'[p[1]].pc # "idle"
        BY <1>1, <2>1, <2>3, <2>4 DEF ForeignInv
    <2>6. \A p \in foreign' : ~Busy(p[1])' /\ cmd'[p[1]].pc # "idle" /\ p \notin leaders'
        BY <2>1, <2>2, <2>3, <2>4 DEF ForeignInv, Busy
    <2>7. \A d \in Cmds : d # c => (cmd'[d].pc \in {"first", "rest"} => cmd'[d].live \cap foreign' = {})
        BY <2>1, <2>3 DEF ForeignInv
    <2>8. cmd'[c].pc \in {"first", "rest"} => cmd'[c].live \cap foreign' = {}
        <3>1. CASE ReadRegistry(c)
            <4>1. cmd'[c].live \subseteq leaders /\ foreign' = foreign
                BY <1>1, <3>1 DEF ReadRegistry, RegisteredRunning
            <4>2. QED
                BY <4>1 DEF ForeignInv
        <3>2. CASE EndBatch(c)
            <4>1. cmd[c].pc \in {"first", "rest"} /\ cmd'[c].live = cmd[c].live /\ foreign' \subseteq foreign
                BY <1>1, <3>2 DEF EndBatch, Moves, CmdRecords
            <4>2. QED
                BY <4>1 DEF ForeignInv
        <3>3. CASE Unlink(c)
            <4>1. cmd'[c].live = {}
                BY <1>1, <3>3 DEF Unlink, CmdRecords
            <4>2. QED
                BY <4>1
        <3>4. CASE ~ReadRegistry(c) /\ ~EndBatch(c) /\ ~Unlink(c)
            <4>1. cmd'[c].pc \notin {"first", "rest"}
                BY <1>1, <1>4, <3>4 DEF CmdStep, Load, Preflight, Spawn, Register, Attached, GivesUp,
                                        RecoverLoads, LoadRaises, RegisterFails, Moves, CmdRecords
            <4>2. QED
                BY <4>1
        <3>5. QED
            BY <3>1, <3>2, <3>3, <3>4
    <2>9. QED
        BY <2>5, <2>6, <2>7, <2>8 DEF ForeignInv
<1>5. ASSUME NEW c \in Cmds, NEW p \in Groups, Ends(c, p)
      PROVE  ForeignInv'
    BY <1>5 DEF Ends, ForeignInv, Busy
<1>6. ASSUME NEW p \in Groups, ComponentCrashes(p) \/ WrapperDies(p)
      PROVE  ForeignInv'
    BY <1>6 DEF ComponentCrashes, WrapperDies, ForeignInv, Busy
<1>7. CASE HostReboots
    <2>1. \A c \in Cmds : cmd'[c] = IF Busy(c) THEN [cmd[c] EXCEPT !.pc = "gone"] ELSE cmd[c]
        BY <1>7 DEF HostReboots
    <2>2. \A c \in Cmds : /\ ~Busy(c)' /\ cmd'[c].pc \notin {"first", "rest"}
                          /\ cmd[c].pc # "idle" => cmd'[c].pc # "idle"
        BY <1>1, <2>1 DEF Busy, CmdRecords
    <2>3. file' = file /\ foreign' \subseteq file /\ leaders' = {}
        BY <1>7 DEF HostReboots
    <2>4. \A p \in file : p[1] \in Cmds /\ cmd'[p[1]].pc # "idle" /\ ~Busy(p[1])'
        BY <1>1, <2>2 DEF ForeignInv
    <2>5. QED
        BY <2>2, <2>3, <2>4 DEF ForeignInv
<1>8. QED
    BY <1>2, <1>3, <1>4, <1>5, <1>6, <1>7 DEF Next, Kinds

LEMMA ForeignStep ==
    ASSUME Typed, ForeignInv, [Next]_vars
    PROVE  foreign \subseteq foreign' \/ ("reboot" \in FaultKinds /\ faults' # faults)
<1> USE DEF world, history
<1>1. \A c \in Cmds : Batch(c) \cap foreign = {}
    BY BatchIsLive DEF ForeignInv
<1>2. CASE HostReboots
    <2>1. faults \in Nat /\ "reboot" \in FaultKinds /\ faults' = faults + 1
        BY <1>2, BoundsAreNat DEF HostReboots, Fault, Typed, WorldOK
    <2>2. QED
        BY <2>1
<1>3. ASSUME NEW c \in Cmds, NEW p \in Groups, Ends(c, p)
      PROVE  foreign \subseteq foreign'
    BY <1>1, <1>3 DEF Ends
<1>4. ASSUME NEW c \in Cmds, EndBatch(c)
      PROVE  foreign \subseteq foreign'
    BY <1>1, <1>4 DEF EndBatch
<1>5. CASE \/ UNCHANGED vars \/ \E r \in Runs : Configure(r)
           \/ \E c \in Cmds, kind \in {"start", "stop", "recover"} : Issue(c, kind)
           \/ \E c \in Cmds : \/ Load(c) \/ Preflight(c) \/ Spawn(c) \/ Register(c) \/ Attached(c)
                              \/ GivesUp(c) \/ ReadRegistry(c) \/ Unlink(c) \/ RecoverLoads(c)
                              \/ LoadRaises(c)
                              \/ RegisterFails(c)
           \/ \E p \in Groups : ComponentCrashes(p) \/ WrapperDies(p)
    <2>1. foreign' = foreign
        BY <1>5 DEF vars, Configure, Issue, Load, Preflight, Spawn, Register, Attached, GivesUp,
                    ReadRegistry, Unlink, RecoverLoads, LoadRaises, RegisterFails, ComponentCrashes, WrapperDies
    <2>2. QED
        BY <2>1
<1>6. QED
    BY <1>2, <1>3, <1>4, <1>5 DEF Next, CmdStep

------------------------------------------------------------------------------
(* Commands that do not overlap.                                            *)

Alone == \A c, d \in Cmds : Busy(c) /\ Busy(d) => c = d
AloneInv == overlapped \/ Alone

\* Overlaps are remembered.
LEMMA OverlapsStay ==
    ASSUME Typed, [Next]_vars
    PROVE  overlapped => overlapped'
<1> USE DEF world, history
<1>1. overlapped \in BOOLEAN
    BY DEF Typed, WorldOK
<1>2. CASE (\E r \in Runs : Configure(r)) \/ \E c \in Cmds, kind \in {"start", "stop", "recover"} : Issue(c, kind)
    <2>1. overlapped' = (overlapped \/ ~Quiet)
        BY <1>2 DEF Configure, Issue
    <2>2. QED
        BY <1>1, <2>1
<1>3. CASE \/ UNCHANGED vars \/ \E c \in Cmds : CmdStep(c) \/ RegisterFails(c)
           \/ \E c \in Cmds, p \in Groups : Ends(c, p)
           \/ \E p \in Groups : ComponentCrashes(p) \/ WrapperDies(p)
           \/ HostReboots
    <2>1. overlapped' = overlapped
        BY <1>3 DEF vars, CmdStep, Load, Preflight, Spawn, Register, Attached, GivesUp, ReadRegistry,
                    EndBatch, Unlink, RecoverLoads, LoadRaises, RegisterFails, Ends, ComponentCrashes, WrapperDies,
                    HostReboots, Fault
    <2>2. QED
        BY <2>1
<1>4. QED
    BY <1>2, <1>3 DEF Next

\* A command is issued, or active-run.json changes, while nothing is under way.
LEMMA QuietBefore ==
    ASSUME Typed, ~overlapped',
           \/ \E r \in Runs : Configure(r)
           \/ \E c \in Cmds, kind \in Kinds : Issue(c, kind)
    PROVE  \A d \in Cmds : ~Busy(d)
<1>1. overlapped' = (overlapped \/ ~Quiet)
    BY DEF Configure, Issue
<1>2. QED
    BY <1>1 DEF Quiet

LEMMA AloneNext ==
    ASSUME Typed, AloneInv, [Next]_vars
    PROVE  AloneInv'
<1> USE DEF world, history
<1>1. cmd \in [Cmds -> CmdRecords]
    BY DEF Typed, Cmd
<1>2. SUFFICES ASSUME ~overlapped'
               PROVE  Alone'
    BY DEF AloneInv
<1>3. Alone
    BY <1>2, OverlapsStay DEF AloneInv
<1>4. CASE UNCHANGED cmd
    BY <1>3, <1>4 DEF Alone, Busy
<1>5. ASSUME NEW c \in Cmds, NEW kind \in Kinds, Issue(c, kind)
      PROVE  Alone'
    <2>1. \A d \in Cmds : ~Busy(d)
        BY <1>2, <1>5, QuietBefore
    <2>2. \A d \in Cmds : d # c => cmd'[d] = cmd[d]
        BY <1>1, <1>5 DEF Issue
    <2>3. QED
        BY <2>1, <2>2 DEF Alone, Busy
<1>6. ASSUME NEW c \in Cmds, CmdStep(c) \/ RegisterFails(c)
      PROVE  Alone'
    <2>1. Busy(c) /\ \A d \in Cmds : d # c => cmd'[d] = cmd[d]
        BY <1>6, StepFrame
    <2>2. \A d \in Cmds : d # c => ~Busy(d)
        BY <1>3, <2>1 DEF Alone
    <2>3. QED
        BY <2>1, <2>2 DEF Alone, Busy
<1>7. CASE HostReboots
    <2>1. \A d \in Cmds : cmd'[d] = IF Busy(d) THEN [cmd[d] EXCEPT !.pc = "gone"] ELSE cmd[d]
        BY <1>7 DEF HostReboots
    <2>2. \A d \in Cmds : ~Busy(d)'
        BY <1>1, <2>1 DEF Busy, CmdRecords
    <2>3. QED
        BY <2>2 DEF Alone
<1>8. CASE \/ UNCHANGED vars \/ (\E r \in Runs : Configure(r))
           \/ (\E c \in Cmds, p \in Groups : Ends(c, p))
           \/ \E p \in Groups : ComponentCrashes(p) \/ WrapperDies(p)
    BY <1>4, <1>8 DEF vars, Configure, Ends, ComponentCrashes, WrapperDies
<1>9. QED
    BY <1>5, <1>6, <1>7, <1>8 DEF Next, Kinds

------------------------------------------------------------------------------
(* recover_ue.                                                              *)

\* It is still to load what it will start.
ToLoad(c) ==
    \/ cmd[c].pc = "load"
    \/ cmd[c].kind = "recover" /\ cmd[c].pc \in {"read", "first", "rest", "unlink"}

Recovers(c) ==
    /\ cmd[c].pc = "idle" => cmd[c].want = None
    /\ cmd[c].kind = "recover" \/ cmd[c].pc \in {"idle", "load"} => cmd[c].cfg = None
    /\ cmd[c].want # None /\ ToLoad(c) => cmd[c].want = RuntimeConfig
    /\ cmd[c].want # None /\ cmd[c].cfg # None => cmd[c].cfg = cmd[c].want

RecoverInv == overlapped \/ \A c \in Cmds : Recovers(c)

LEMMA RecoverNext ==
    ASSUME Typed, AloneInv, RecoverInv, [Next]_vars
    PROVE  RecoverInv'
<1> USE DEF world, history
<1>1. cmd \in [Cmds -> CmdRecords] /\ \A c \in Cmds : cmd[c] \in CmdRecords /\ Sound(cmd[c])
    BY DEF Typed, Cmd
<1>2. SUFFICES ASSUME ~overlapped'
               PROVE  \A c \in Cmds : Recovers(c)'
    BY DEF RecoverInv
<1>3. Alone /\ \A c \in Cmds : Recovers(c)
    BY <1>2, OverlapsStay DEF AloneInv, RecoverInv
<1>4. CASE UNCHANGED <<cmd, active>>
    BY <1>3, <1>4 DEF Recovers, ToLoad, RuntimeConfig
<1>5. ASSUME NEW r \in Runs, Configure(r)
      PROVE  \A c \in Cmds : Recovers(c)'
    <2>1. cmd' = cmd /\ \A c \in Cmds : ~Busy(c)
        BY <1>2, <1>5, QuietBefore DEF Configure
    <2>2. \A c \in Cmds : ~ToLoad(c)'
        BY <2>1 DEF ToLoad, Busy
    <2>3. QED
        BY <1>3, <2>1, <2>2 DEF Recovers
<1>6. ASSUME NEW c \in Cmds, NEW kind \in Kinds, Issue(c, kind)
      PROVE  \A d \in Cmds : Recovers(d)'
    <2>1. /\ cmd[c].pc = "idle" /\ active' = active
          /\ cmd'[c].pc = FirstPc(kind) /\ cmd'[c].want = cmd[c].want /\ cmd'[c].cfg = cmd[c].cfg
          /\ \A d \in Cmds : d # c => cmd'[d] = cmd[d]
        BY <1>1, <1>6 DEF Issue, CmdRecords
    <2>2. cmd'[c].want = None /\ cmd'[c].cfg = None
        BY <1>3, <2>1 DEF Recovers
    <2>3. Recovers(c)'
        BY <2>2 DEF Recovers
    <2>4. \A d \in Cmds : d # c => Recovers(d)'
        BY <1>3, <2>1 DEF Recovers, ToLoad, RuntimeConfig
    <2>5. QED
        BY <2>3, <2>4
<1>7. ASSUME NEW c \in Cmds, CmdStep(c) \/ RegisterFails(c)
      PROVE  \A d \in Cmds : Recovers(d)'
    <2>1. Busy(c) /\ \A d \in Cmds : d # c => cmd'[d] = cmd[d]
        BY <1>7, StepFrame
    <2>2. \A d \in Cmds : d # c => ~Busy(d)
        BY <1>3, <2>1 DEF Alone
    <2>3. \A d \in Cmds : d # c => Recovers(d)'
        BY <1>3, <2>1, <2>2 DEF Recovers, ToLoad, Busy
    <2>4. Recovers(c) /\ (active' = active => RuntimeConfig' = RuntimeConfig)
        BY <1>3 DEF RuntimeConfig
    <2>5. ASSUME Load(c)
          PROVE  Recovers(c)'
        <3>1. /\ cmd[c].pc = "load" /\ cmd[c].kind = "start" /\ cmd'[c].kind = cmd[c].kind
              /\ cmd'[c].pc = "preflight" /\ cmd'[c].cfg = RuntimeConfig /\ cmd'[c].want = cmd[c].want
            BY <1>1, <2>5 DEF Load, CmdRecords, Sound
        <3>2. QED
            BY <2>4, <3>1 DEF Recovers, ToLoad
    <2>6. ASSUME RecoverLoads(c)
          PROVE  Recovers(c)'
        <3>1. /\ cmd[c].pc = "check" /\ cmd[c].kind = "recover" /\ cmd'[c].kind = cmd[c].kind
              /\ cmd'[c].pc = "read" /\ cmd'[c].cfg = cmd[c].cfg /\ cmd'[c].want = RuntimeConfig
              /\ active' = active
            BY <1>1, <2>6 DEF RecoverLoads, CmdRecords, Sound
        <3>2. QED
            BY <2>4, <3>1 DEF Recovers, ToLoad
    <2>7. ASSUME Unlink(c)
          PROVE  Recovers(c)'
        <3>1. /\ cmd[c].pc = "unlink" /\ cmd'[c].cfg = cmd[c].cfg /\ cmd'[c].want = cmd[c].want
              /\ cmd[c].kind \in Kinds
            BY <1>1, <2>7 DEF Unlink, CmdRecords
        <3>2. CASE cmd[c].kind = "recover"
            <4>1. cmd'[c].pc = "load" /\ cmd'[c].kind = "start" /\ active' = active
                BY <1>1, <2>7, <3>2 DEF Unlink, CmdRecords
            <4>2. QED
                BY <2>4, <3>1, <3>2, <4>1 DEF Recovers, ToLoad
        <3>3. CASE cmd[c].kind = "start"
            <4>1. cmd'[c].pc = "err" /\ cmd'[c].kind = "start"
                BY <1>1, <2>7, <3>3 DEF Unlink, CmdRecords
            <4>2. QED
                BY <2>4, <3>1, <4>1 DEF Recovers, ToLoad
        <3>4. CASE cmd[c].kind = "stop"
            <4>1. cmd'[c].pc = "ok" /\ cmd'[c].kind = "stop"
                BY <1>1, <2>7, <3>4 DEF Unlink, CmdRecords
            <4>2. QED
                BY <2>4, <3>1, <4>1 DEF Recovers, ToLoad
        <3>5. QED
            BY <3>1, <3>2, <3>3, <3>4 DEF Kinds
    <2>8. ASSUME NEW from, NEW to \in Pcs \ {"idle", "load"}, Moves(c, from, to), active' = active,
                 \/ to \in {"err", "gone"}
                 \/ cmd[c].kind = "recover" => from \in {"read", "first", "rest", "unlink"}
          PROVE  Recovers(c)'
        <3>1. /\ cmd[c].pc = from /\ cmd'[c].pc = to /\ cmd'[c].kind = cmd[c].kind
              /\ cmd'[c].cfg = cmd[c].cfg /\ cmd'[c].want = cmd[c].want
            BY <1>1, <2>8 DEF Moves, CmdRecords
        <3>2. QED
            BY <2>4, <2>8, <3>1 DEF Recovers, ToLoad
    <2>9. ASSUME \/ Preflight(c) \/ Spawn(c) \/ Attached(c) \/ GivesUp(c) \/ EndBatch(c)
                 \/ RegisterFails(c) \/ LoadRaises(c)
          PROVE  Recovers(c)'
        <3>1. /\ active' = active
              /\ \/ Moves(c, "preflight", "spawn") \/ Moves(c, "preflight", "err")
                 \/ Moves(c, "spawn", "register") \/ Moves(c, "attach", "ok")
                 \/ Moves(c, "attach", "read") \/ Moves(c, "spawn", "read")
                 \/ Moves(c, "register", "read")
                 \/ Moves(c, "first", "rest") \/ Moves(c, "rest", "unlink")
                 \/ Moves(c, "load", "err") \/ Moves(c, "check", "gone")
            BY <2>9 DEF Preflight, Spawn, Attached, GivesUp, EndBatch, RegisterFails, LoadRaises
        <3>2. cmd[c].kind = "recover" => cmd[c].pc \notin {"preflight", "spawn", "register", "attach"}
            BY <1>1 DEF Sound
        <3>3. QED
            BY <2>8, <3>1, <3>2 DEF Pcs, Moves
    <2>10. ASSUME ReadRegistry(c)
          PROVE  Recovers(c)'
        <3>1. /\ cmd[c].pc = "read" /\ cmd'[c].pc = "first" /\ cmd'[c].kind = cmd[c].kind
              /\ cmd'[c].cfg = cmd[c].cfg /\ cmd'[c].want = cmd[c].want /\ active' = active
            BY <1>1, <2>10 DEF ReadRegistry, CmdRecords
        <3>2. QED
            BY <2>4, <3>1 DEF Recovers, ToLoad
    <2>11. ASSUME Register(c)
          PROVE  Recovers(c)'
        <3>1. /\ cmd[c].pc = "register" /\ cmd'[c].pc \in {"spawn", "attach"}
              /\ cmd'[c].kind = cmd[c].kind /\ cmd[c].kind = "start"
              /\ cmd'[c].cfg = cmd[c].cfg /\ cmd'[c].want = cmd[c].want
            BY <1>1, <2>11 DEF Register, CmdRecords, Sound
        <3>2. QED
            BY <2>4, <3>1 DEF Recovers, ToLoad
    <2>12. QED
        BY <1>7, <2>3, <2>5, <2>6, <2>7, <2>9, <2>10, <2>11 DEF CmdStep
<1>8. CASE HostReboots
    <2>1. /\ \A c \in Cmds : cmd'[c] = IF Busy(c) THEN [cmd[c] EXCEPT !.pc = "gone"] ELSE cmd[c]
          /\ active' = active
        BY <1>8 DEF HostReboots
    <2>2. \A c \in Cmds : /\ cmd'[c].kind = cmd[c].kind /\ cmd'[c].cfg = cmd[c].cfg
                          /\ cmd'[c].want = cmd[c].want /\ cmd'[c].pc \in {cmd[c].pc, "gone"}
        BY <1>1, <2>1 DEF CmdRecords
    <2>3. QED
        BY <1>3, <2>1, <2>2 DEF Recovers, ToLoad, RuntimeConfig
<1>9. CASE \/ UNCHANGED vars \/ (\E c \in Cmds, p \in Groups : Ends(c, p))
           \/ \E p \in Groups : ComponentCrashes(p) \/ WrapperDies(p)
    BY <1>4, <1>9 DEF vars, Ends, ComponentCrashes, WrapperDies
<1>10. QED
    BY <1>5, <1>6, <1>7, <1>8, <1>9 DEF Next, Kinds

------------------------------------------------------------------------------
(* What the registry knows.                                                 *)

\* What may be alive at each point of c: while it launches, what it has started;
\* while it stops, what it has found in the registry and not yet terminated.
Bounded(c) ==
    /\ cmd[c].pc = "spawn" => GroupsAlive \subseteq Started(c)
    /\ cmd[c].pc = "register" => GroupsAlive \subseteq Started(c) \cup {Newest(c)}
    /\ cmd[c].pc = "first" => GroupsAlive \subseteq cmd[c].live
    /\ cmd[c].pc = "rest" => GroupsAlive \subseteq {p \in cmd[c].live : p[2] # "kpm"}
    /\ cmd[c].pc = "unlink" => GroupsAlive = {}

\* A child without its leader is one that is being terminated.
Tracked ==
    /\ GroupsAlive \subseteq file \cup InFlight
    /\ \A p \in children : p \in leaders \/ \E c \in Cmds : p \in Batch(c)
    /\ \A c \in Cmds : Bounded(c)

LeakInv == overlapped \/ BlindSpot \/ Tracked

LEMMA FaultsStay ==
    ASSUME [Next]_vars
    PROVE  seen \subseteq seen'
BY DEF Next, vars, world, history, Configure, Issue, CmdStep, Load, Preflight, Spawn, Register, Attached,
       GivesUp, ReadRegistry, EndBatch, Unlink, RecoverLoads, LoadRaises, RegisterFails, Ends, ComponentCrashes,
       WrapperDies, HostReboots, Fault

\* Commands that are not busy have nothing in flight and terminate nothing.
LEMMA NotBusy ==
    ASSUME NEW c \in Cmds, ~Busy(c)
    PROVE  /\ cmd[c].pc \notin {"spawn", "register", "first", "rest", "unlink"}
           /\ Batch(c) = {} /\ Bounded(c)
<1>1. cmd[c].pc \in {"idle", "ok", "err", "gone"}
    BY DEF Busy
<1>2. QED
    BY <1>1 DEF Batch, Bounded

LEMMA TrackedStep ==
    ASSUME Typed, Alone, Tracked, NEW c \in Cmds, CmdStep(c)
    PROVE  Tracked'
<1> USE DEF world, history
<1>1. /\ cmd \in [Cmds -> CmdRecords] /\ cmd[c] \in CmdRecords /\ Sound(cmd[c])
      /\ Len(Components) \in Nat \ {0}
    BY ComponentFacts DEF Typed, Cmd
<1>2. Busy(c) /\ \A d \in Cmds : d # c => cmd'[d] = cmd[d]
    BY StepFrame
<1>3. \A d \in Cmds : d # c => ~Busy(d)
    BY <1>2 DEF Alone
<1>4. \A d \in Cmds : d # c =>
          /\ cmd[d].pc \notin {"spawn", "register", "first", "rest", "unlink"}
          /\ Batch(d) = {}
    BY <1>3, NotBusy
<1>5. /\ cmd[c].pc # "register" => InFlight = {}
      /\ cmd[c].pc = "register" => InFlight = {Newest(c)}
    BY <1>4 DEF InFlight
<1>6. GroupsAlive \subseteq file \cup InFlight /\ Bounded(c)
    BY DEF Tracked
<1>7. \A p \in children : p \in leaders \/ p \in Batch(c)
    BY <1>4 DEF Tracked
<1>8. ASSUME GroupsAlive' \subseteq file' \cup (IF cmd'[c].pc = "register" THEN {Newest(c)'} ELSE {}),
             \A p \in children' : p \in leaders' \/ p \in Batch(c)',
             Bounded(c)'
      PROVE  Tracked'
    <2>1. \A d \in Cmds : d # c => Bounded(d)'
        BY <1>2, <1>4 DEF Bounded
    <2>2. cmd'[c].pc = "register" => Newest(c)' \in InFlight'
        BY DEF InFlight
    <2>3. QED
        BY <1>8, <2>1, <2>2 DEF Tracked
<1>9. ASSUME UNCHANGED <<file, leaders, children>>, NEW to,
             cmd'[c].pc = to, to \in {"preflight", "err", "ok", "read", "gone"},
             cmd[c].pc \in {"load", "preflight", "attach", "spawn", "check"}
      PROVE  Tracked'
    <2>1. GroupsAlive' = GroupsAlive /\ InFlight = {}
        BY <1>5, <1>9 DEF GroupsAlive
    <2>2. Batch(c) = {}
        BY <1>9 DEF Batch
    <2>3. Bounded(c)'
        BY <1>9 DEF Bounded
    <2>4. QED
        BY <1>6, <1>7, <1>8, <1>9, <2>1, <2>2, <2>3
<1>10. ASSUME Load(c) \/ Attached(c) \/ GivesUp(c) \/ RecoverLoads(c) \/ LoadRaises(c)
       PROVE  Tracked'
    <2>1. CASE Load(c)
        BY <1>1, <1>9, <2>1 DEF Load, CmdRecords
    <2>2. CASE Attached(c)
        BY <1>1, <1>9, <2>2 DEF Attached, Moves, CmdRecords
    <2>3. CASE GivesUp(c)
        BY <1>1, <1>9, <2>3 DEF GivesUp, Moves, CmdRecords
    <2>4. CASE RecoverLoads(c)
        BY <1>1, <1>9, <2>4 DEF RecoverLoads, CmdRecords
    <2>5. CASE LoadRaises(c)
        BY <1>1, <1>9, <2>5 DEF LoadRaises, Moves, CmdRecords
    <2>6. QED
        BY <1>10, <2>1, <2>2, <2>3, <2>4, <2>5
<1>11. ASSUME Preflight(c)
       PROVE  Tracked'
    <2>1. cmd[c].pc = "preflight" /\ UNCHANGED <<file, leaders, children>>
        BY <1>11 DEF Preflight, Moves
    <2>2. CASE Moves(c, "preflight", "err")
        BY <1>1, <1>9, <2>1, <2>2 DEF Moves, CmdRecords
    <2>3. CASE ~StatusRunning /\ Moves(c, "preflight", "spawn")
        <3>1. Batch(c) = {} /\ InFlight = {}
            BY <1>5, <2>1 DEF Batch
        <3>2. GroupsAlive \subseteq leaders /\ GroupsAlive \subseteq file
            BY <1>6, <1>7, <3>1 DEF GroupsAlive
        <3>3. GroupsAlive = {}
            BY <2>3, <3>2 DEF StatusRunning, RegisteredRunning
        <3>4. GroupsAlive' = {} /\ children' = {} /\ cmd'[c].pc = "spawn"
            BY <1>1, <2>1, <2>3, <3>3 DEF GroupsAlive, Moves, CmdRecords
        <3>5. Bounded(c)'
            BY <3>4 DEF Bounded
        <3>6. QED
            BY <1>8, <3>4, <3>5
    <2>4. QED
        BY <1>11, <2>2, <2>3 DEF Preflight
<1>12. ASSUME Spawn(c)
       PROVE  Tracked'
    <2>1. /\ cmd[c].pc = "spawn" /\ cmd'[c].pc = "register" /\ cmd'[c].next = cmd[c].next
          /\ file' = file /\ leaders' = leaders \cup {Newest(c)}
          /\ children' \subseteq children \cup {Newest(c)}
        BY <1>1, <1>12 DEF Spawn, Moves, CmdRecords
    <2>2. Newest(c)' = Newest(c) /\ Started(c)' = Started(c) /\ Batch(c) = {} /\ InFlight = {}
        BY <1>5, <2>1 DEF Newest, Started, Batch
    <2>3. GroupsAlive' \subseteq GroupsAlive \cup {Newest(c)}
        BY <2>1 DEF GroupsAlive
    <2>4. GroupsAlive \subseteq Started(c) /\ GroupsAlive \subseteq file
        BY <1>6, <2>1, <2>2 DEF Bounded
    <2>5. Bounded(c)'
        BY <2>1, <2>2, <2>3, <2>4 DEF Bounded
    <2>6. QED
        BY <1>7, <1>8, <2>1, <2>2, <2>3, <2>4, <2>5
<1>13. ASSUME Register(c)
       PROVE  Tracked'
    <2>1. /\ cmd[c].pc = "register" /\ cmd'[c].pc \in {"spawn", "attach"}
          /\ cmd'[c].next = cmd[c].next + 1 /\ cmd[c].next \in Nat \ {0}
          /\ file' = Started(c) \cup {Newest(c)} /\ UNCHANGED <<leaders, children>>
        BY <1>1, <1>13 DEF Register, CmdRecords
    <2>2. Started(c)' = Started(c) \cup {Newest(c)}
        <3>1. 1 .. cmd'[c].next - 1 = (1 .. cmd[c].next - 1) \cup {cmd[c].next}
            BY <2>1
        <3>2. Started(c)' = {<<c, Components[i]>> : i \in 1 .. cmd'[c].next - 1}
            BY DEF Started
        <3>3. QED
            BY <3>1, <3>2 DEF Started, Newest
    <2>3. GroupsAlive' = GroupsAlive /\ GroupsAlive \subseteq Started(c) \cup {Newest(c)}
        BY <1>6, <2>1 DEF Bounded, GroupsAlive
    <2>4. Bounded(c)'
        BY <2>1, <2>2, <2>3 DEF Bounded
    <2>5. Batch(c) = {}
        BY <2>1 DEF Batch
    <2>6. QED
        BY <1>7, <1>8, <2>1, <2>3, <2>4, <2>5
<1>14. ASSUME ReadRegistry(c)
       PROVE  Tracked'
    <2>1. /\ cmd[c].pc = "read" /\ cmd'[c].pc = "first" /\ UNCHANGED <<file, leaders, children>>
          /\ cmd'[c].live = {p \in file : p \in leaders}
        BY <1>1, <1>14 DEF ReadRegistry, RegisteredRunning, CmdRecords
    <2>2. Batch(c) = {} /\ InFlight = {} /\ GroupsAlive' = GroupsAlive
        BY <1>5, <2>1 DEF Batch, GroupsAlive
    <2>3. GroupsAlive \subseteq cmd'[c].live /\ GroupsAlive \subseteq file
        BY <1>6, <1>7, <2>1, <2>2 DEF GroupsAlive
    <2>4. Bounded(c)'
        BY <2>1, <2>2, <2>3 DEF Bounded
    <2>5. QED
        BY <1>7, <1>8, <2>1, <2>2, <2>3, <2>4
<1>15. ASSUME EndBatch(c)
       PROVE  Tracked'
    <2>1. /\ \/ cmd[c].pc = "first" /\ cmd'[c].pc = "rest"
             \/ cmd[c].pc = "rest" /\ cmd'[c].pc = "unlink"
          /\ cmd'[c].live = cmd[c].live /\ file' = file
          /\ leaders' = leaders \ Batch(c) /\ children' = children \ Batch(c)
        BY <1>1, <1>15 DEF EndBatch, Moves, CmdRecords
    <2>2. GroupsAlive' = GroupsAlive \ Batch(c) /\ InFlight = {}
        BY <1>5, <2>1 DEF GroupsAlive
    <2>3. Bounded(c)'
        <3>1. CASE cmd[c].pc = "first"
            <4>1. GroupsAlive \subseteq cmd[c].live /\ Batch(c) = {p \in cmd[c].live : p[2] = "kpm"}
                BY <1>6, <3>1 DEF Bounded, Batch
            <4>2. GroupsAlive' \subseteq {p \in cmd'[c].live : p[2] # "kpm"} /\ cmd'[c].pc = "rest"
                BY <2>1, <2>2, <3>1, <4>1
            <4>3. QED
                BY <4>2 DEF Bounded
        <3>2. CASE cmd[c].pc = "rest"
            <4>1. GroupsAlive \subseteq Batch(c)
                BY <1>6, <3>2 DEF Bounded, Batch
            <4>2. GroupsAlive' = {} /\ cmd'[c].pc = "unlink"
                BY <2>1, <2>2, <3>2, <4>1
            <4>3. QED
                BY <4>2 DEF Bounded
        <3>3. QED
            BY <2>1, <3>1, <3>2
    <2>4. GroupsAlive' \subseteq file'
        BY <1>6, <2>1, <2>2
    <2>5. \A p \in children' : p \in leaders'
        BY <1>7, <2>1
    <2>6. QED
        BY <1>8, <2>3, <2>4, <2>5
<1>16. ASSUME Unlink(c)
       PROVE  Tracked'
    <2>1. /\ cmd[c].pc = "unlink" /\ UNCHANGED <<leaders, children>>
          /\ cmd'[c].pc \in {"load", "err", "ok"}
        <3>1. cmd[c].kind \in Kinds
            BY <1>1 DEF CmdRecords
        <3>2. CASE cmd[c].kind = "recover"
            BY <1>1, <1>16, <3>2 DEF Unlink, CmdRecords
        <3>3. CASE cmd[c].kind = "start"
            BY <1>1, <1>16, <3>3 DEF Unlink, CmdRecords
        <3>4. CASE cmd[c].kind = "stop"
            BY <1>1, <1>16, <3>4 DEF Unlink, CmdRecords
        <3>5. QED
            BY <3>1, <3>2, <3>3, <3>4 DEF Kinds
    <2>2. GroupsAlive' = {} /\ children' = {}
        BY <1>6, <2>1 DEF Bounded, GroupsAlive
    <2>3. Bounded(c)'
        BY <2>2 DEF Bounded
    <2>4. QED
        BY <1>8, <2>2, <2>3
<1>17. QED
    BY <1>10, <1>11, <1>12, <1>13, <1>14, <1>15, <1>16 DEF CmdStep

LEMMA LeakNext ==
    ASSUME Typed, AloneInv, LeakInv, [Next]_vars
    PROVE  LeakInv'
<1> USE DEF world, history
<1>1. SUFFICES ASSUME ~overlapped', ~BlindSpot'
               PROVE  Tracked'
    BY DEF LeakInv
<1>2. Alone /\ Tracked /\ "write" \notin seen' /\ "orphan" \notin seen'
    BY <1>1, OverlapsStay, FaultsStay DEF AloneInv, LeakInv, BlindSpot
<1>3. cmd \in [Cmds -> CmdRecords]
    BY DEF Typed, Cmd
<1>4. CASE UNCHANGED <<file, leaders, children, cmd>>
    BY <1>2, <1>4 DEF Tracked, GroupsAlive, InFlight, Newest, Started, Batch, Bounded
<1>5. ASSUME NEW c \in Cmds, NEW kind \in Kinds, Issue(c, kind)
      PROVE  Tracked'
    <2>1. \A d \in Cmds : ~Busy(d)
        BY <1>1, <1>5, QuietBefore
    <2>2. \A d \in Cmds : cmd[d].pc # "register" /\ Batch(d) = {}
        BY <2>1, NotBusy
    <2>3. GroupsAlive \subseteq file /\ children \subseteq leaders
        BY <1>2, <2>2 DEF Tracked, InFlight
    <2>4. /\ \A d \in Cmds : d # c => cmd'[d] = cmd[d]
          /\ cmd'[c].pc \in {"load", "read", "check"}
          /\ UNCHANGED <<file, leaders, children>>
        BY <1>3, <1>5 DEF Issue, FirstPc, CmdRecords, Kinds
    <2>5. \A d \in Cmds : cmd'[d].pc \notin {"spawn", "register", "first", "rest", "unlink"}
        BY <2>1, <2>4, NotBusy
    <2>6. \A d \in Cmds : Bounded(d)'
        BY <2>5 DEF Bounded
    <2>7. GroupsAlive' \subseteq file' /\ children' \subseteq leaders'
        BY <2>3, <2>4 DEF GroupsAlive
    <2>8. QED
        BY <2>6, <2>7 DEF Tracked
<1>6. ASSUME NEW c \in Cmds, CmdStep(c)
      PROVE  Tracked'
    BY <1>2, <1>6, TrackedStep
<1>7. ASSUME NEW c \in Cmds, NEW p \in Groups, Ends(c, p)
      PROVE  Tracked'
    <2>1. /\ p \in Batch(c) /\ UNCHANGED <<file, cmd>>
          /\ \/ leaders' = leaders \ {p} /\ children' = children
             \/ children' = children \ {p} /\ leaders' = leaders
        BY <1>7 DEF Ends
    <2>2. GroupsAlive' \subseteq GroupsAlive
        BY <2>1 DEF GroupsAlive
    <2>3. /\ InFlight' = InFlight
          /\ \A d \in Cmds : Batch(d)' = Batch(d) /\ Started(d)' = Started(d) /\ Newest(d)' = Newest(d)
        BY <2>1 DEF InFlight, Batch, Started, Newest
    <2>4. \A d \in Cmds : Bounded(d)'
        BY <1>2, <2>1, <2>2, <2>3 DEF Tracked, Bounded
    <2>5. \A q \in children' : q \in leaders' \/ \E d \in Cmds : q \in Batch(d)'
        BY <1>2, <2>1, <2>3 DEF Tracked
    <2>6. QED
        BY <1>2, <2>1, <2>2, <2>3, <2>4, <2>5 DEF Tracked
<1>8. ASSUME NEW p \in Groups, ComponentCrashes(p)
      PROVE  Tracked'
    <2>1. UNCHANGED <<file, cmd>> /\ leaders' = leaders \ {p} /\ children' = children \ {p}
        BY <1>8 DEF ComponentCrashes
    <2>2. GroupsAlive' \subseteq GroupsAlive
        BY <2>1 DEF GroupsAlive
    <2>3. /\ InFlight' = InFlight
          /\ \A d \in Cmds : Batch(d)' = Batch(d) /\ Started(d)' = Started(d) /\ Newest(d)' = Newest(d)
        BY <2>1 DEF InFlight, Batch, Started, Newest
    <2>4. \A d \in Cmds : Bounded(d)'
        BY <1>2, <2>1, <2>2, <2>3 DEF Tracked, Bounded
    <2>5. \A q \in children' : q \in leaders' \/ \E d \in Cmds : q \in Batch(d)'
        BY <1>2, <2>1, <2>3 DEF Tracked
    <2>6. QED
        BY <1>2, <2>1, <2>2, <2>3, <2>4, <2>5 DEF Tracked
<1>9. CASE HostReboots
    <2>1. GroupsAlive' = {} /\ children' = {}
        BY <1>9 DEF HostReboots, GroupsAlive
    <2>2. \A d \in Cmds : Bounded(d)'
        BY <2>1 DEF Bounded
    <2>3. QED
        BY <2>1, <2>2 DEF Tracked
<1>10. ASSUME \/ \E c \in Cmds : RegisterFails(c)
              \/ \E p \in Groups : WrapperDies(p)
       PROVE  FALSE
    BY <1>2, <1>10 DEF RegisterFails, WrapperDies, Fault
<1>11. CASE UNCHANGED vars \/ \E r \in Runs : Configure(r)
    BY <1>4, <1>11 DEF vars, Configure
<1>12. QED
    BY <1>5, <1>6, <1>7, <1>8, <1>9, <1>10, <1>11 DEF Next, Kinds

------------------------------------------------------------------------------
(* Which process groups there can be, for the refinement.                   *)

\* A command that has not loaded a configuration has started nothing.
NamedInv ==
    \A c \in Cmds :
        /\ cmd[c].pc \in {"idle", "load", "check"} \/ cmd[c].kind = "recover" => cmd[c].cfg = None
        /\ cmd[c].cfg = None => cmd[c].next = 1

\* processes.json lists all that the last command to write it has registered.
FileInv == file = {} \/ \E c \in Cmds : file = Started(c)

\* What runs has been registered or is about to be, and that does run.
LeadersInv ==
    /\ "write" \in seen \/ \A p \in leaders : p \in Started(p[1]) \cup InFlight
    /\ "orphan" \in seen \/ InFlight \subseteq leaders

\* What a stop has read: groups of one command, with all of them that still run.
StopInv ==
    \A c \in Cmds :
        /\ cmd[c].live \subseteq cmd[c].listed
        /\ \A p \in cmd[c].listed : p \in Started(p[1])
        /\ \A p, q \in cmd[c].listed : p[1] = q[1]
        /\ cmd[c].pc \in {"first", "rest"} => cmd[c].listed \cap leaders \subseteq cmd[c].live
        /\ cmd[c].pc = "rest" => \A p \in cmd[c].live \cap leaders : p[2] # "kpm"

GroupsInv == NamedInv /\ FileInv /\ LeadersInv /\ StopInv

LEMMA StartedFacts ==
    ASSUME Typed, NEW c \in Cmds
    PROVE  /\ cmd[c].next \in Nat \ {0}
           /\ \A p \in Started(c) : p[1] = c
           /\ Newest(c)[1] = c
           /\ cmd[c].next <= Len(Components) => Newest(c) \notin Started(c)
           /\ cmd[c].next = 1 => Started(c) = {}
           /\ cmd'[c].next = cmd[c].next => Started(c)' = Started(c) /\ Newest(c)' = Newest(c)
           /\ cmd'[c].next = cmd[c].next + 1 => Started(c)' = Started(c) \cup {Newest(c)}
<1>1. /\ cmd[c].next \in 1 .. Len(Components) + 1 /\ Len(Components) \in Nat \ {0}
      /\ \A i, j \in 1 .. Len(Components) : Components[i] = Components[j] => i = j
    BY ComponentFacts, ComponentsAreNamedOnce DEF Typed, Cmd, CmdRecords
<1>2. cmd[c].next <= Len(Components) => Newest(c) \notin Started(c)
    BY <1>1 DEF Started, Newest
<1>3. cmd[c].next = 1 => Started(c) = {}
    BY <1>1 DEF Started
<1>4. cmd'[c].next = cmd[c].next => Started(c)' = Started(c) /\ Newest(c)' = Newest(c)
    BY DEF Started, Newest
<1>5. ASSUME cmd'[c].next = cmd[c].next + 1
      PROVE  Started(c)' = Started(c) \cup {Newest(c)}
    <2>1. 1 .. cmd'[c].next - 1 = (1 .. cmd[c].next - 1) \cup {cmd[c].next}
        BY <1>1, <1>5
    <2>2. Started(c)' = {<<c, Components[i]>> : i \in 1 .. cmd'[c].next - 1}
        BY DEF Started
    <2>3. QED
        BY <2>1, <2>2 DEF Started, Newest
<1>6. (\A p \in Started(c) : p[1] = c) /\ Newest(c)[1] = c
    BY DEF Started, Newest
<1>7. QED
    BY <1>1, <1>2, <1>3, <1>4, <1>5, <1>6

\* What a step does to one command.
CmdMoves(c) ==
    \/ cmd'[c] = cmd[c]
    \/ cmd[c].pc = "idle" /\ cmd'[c].pc \in {"load", "read", "check"}
       /\ cmd'[c].cfg = cmd[c].cfg /\ cmd'[c].next = cmd[c].next
       /\ cmd'[c].listed = cmd[c].listed /\ cmd'[c].live = cmd[c].live
    \/ cmd[c].pc = "load" /\ cmd'[c].pc = "preflight" /\ cmd'[c].kind = cmd[c].kind
       /\ cmd'[c].cfg # None /\ cmd'[c].next = cmd[c].next
       /\ cmd'[c].listed = cmd[c].listed /\ cmd'[c].live = cmd[c].live
    \/ cmd[c].pc = "read" /\ cmd'[c].pc = "first" /\ cmd'[c].kind = cmd[c].kind
       /\ cmd'[c].cfg = cmd[c].cfg /\ cmd'[c].next = cmd[c].next
       /\ cmd'[c].listed = file /\ cmd'[c].live = file \cap leaders
       /\ UNCHANGED leaders
    \/ cmd[c].pc = "unlink"
       /\ (cmd'[c].pc = "load" => cmd[c].kind = "recover")
       /\ cmd'[c].pc \in {"load", "err", "ok"} /\ cmd'[c].kind # "recover"
       /\ cmd'[c].cfg = cmd[c].cfg /\ cmd'[c].next = cmd[c].next
       /\ cmd'[c].listed = {} /\ cmd'[c].live = {}
    \/ cmd[c].pc = "register" /\ Register(c) /\ cmd'[c].pc \in {"spawn", "attach"}
       /\ cmd'[c].kind = cmd[c].kind
       /\ cmd'[c].cfg = cmd[c].cfg /\ cmd'[c].next = cmd[c].next + 1
       /\ cmd'[c].listed = cmd[c].listed /\ cmd'[c].live = cmd[c].live
       /\ file' = Started(c) \cup {Newest(c)} /\ UNCHANGED leaders
    \/ /\ cmd'[c].kind = cmd[c].kind /\ cmd'[c].cfg = cmd[c].cfg /\ cmd'[c].next = cmd[c].next
       /\ cmd'[c].listed = cmd[c].listed /\ cmd'[c].live = cmd[c].live
       /\ \/ cmd[c].pc = "spawn" /\ cmd'[c].pc = "register" /\ leaders' = leaders \cup {Newest(c)}
          \/ cmd[c].pc = "first" /\ cmd'[c].pc = "rest" /\ leaders' = leaders \ Batch(c)
          \/ cmd[c].pc = "register" /\ cmd'[c].pc = "read" /\ "write" \in seen'
          \/ cmd[c].pc # "idle" /\ cmd'[c].pc = "gone" /\ leaders' = {}
          \/ cmd[c].pc = "check" /\ cmd'[c].pc \in {"read", "gone"}
          \/ cmd[c].pc = "load" /\ cmd'[c].pc = "err"
          \/ cmd[c].pc \in {"preflight", "spawn", "rest", "attach"}
             /\ cmd'[c].pc \in {"spawn", "err", "read", "unlink", "ok"}

LEMMA CmdMovesStep ==
    ASSUME Typed, [Next]_vars
    PROVE  \A c \in Cmds : CmdMoves(c)
<1> USE DEF world, history
<1>1. cmd \in [Cmds -> CmdRecords] /\ \A c \in Cmds : cmd[c] \in CmdRecords /\ Sound(cmd[c])
    BY DEF Typed, Cmd
<1>2. CASE UNCHANGED cmd
    BY <1>2 DEF CmdMoves
<1>3. ASSUME NEW c \in Cmds, NEW kind \in Kinds, Issue(c, kind), NEW d \in Cmds
      PROVE  CmdMoves(d)
    <2>1. FirstPc(kind) \in {"load", "read", "check"}
        BY DEF FirstPc, Kinds
    <2>2. CASE d # c
        BY <1>1, <1>3, <2>2 DEF Issue, CmdMoves
    <2>3. CASE d = c
        BY <1>1, <1>3, <2>1, <2>3 DEF Issue, CmdMoves, CmdRecords
    <2>4. QED
        BY <2>2, <2>3
<1>4. ASSUME NEW c \in Cmds, CmdStep(c) \/ RegisterFails(c)
      PROVE  CmdMoves(c)
    <2>1. cmd[c] \in CmdRecords /\ Sound(cmd[c])
        BY <1>1
    <2>2. CASE Load(c)
        BY <1>1, <2>1, <2>2, RuntimeConfigType DEF Load, CmdMoves, CmdRecords, Typed
    <2>3. CASE Preflight(c)
        BY <1>1, <2>1, <2>3 DEF Preflight, Moves, CmdMoves, CmdRecords
    <2>4. CASE Spawn(c)
        BY <1>1, <2>1, <2>4 DEF Spawn, Moves, CmdMoves, CmdRecords
    <2>5. CASE Register(c)
        BY <1>1, <2>1, <2>5 DEF Register, CmdMoves, CmdRecords
    <2>6. CASE Attached(c) \/ GivesUp(c)
        BY <1>1, <2>1, <2>6 DEF Attached, GivesUp, Moves, CmdMoves, CmdRecords
    <2>7. CASE ReadRegistry(c)
        <3>1. {p \in file : RegisteredRunning(p)} = file \cap leaders
            BY DEF RegisteredRunning
        <3>2. QED
            BY <1>1, <2>1, <2>7, <3>1 DEF ReadRegistry, CmdMoves, CmdRecords
    <2>8. CASE EndBatch(c)
        BY <1>1, <2>1, <2>8 DEF EndBatch, Moves, CmdMoves, CmdRecords
    <2>9. CASE Unlink(c)
        <3>1. cmd[c].kind \in Kinds
            BY <2>1 DEF CmdRecords
        <3>2. CASE cmd[c].kind = "recover"
            BY <1>1, <2>1, <2>9, <3>2 DEF Unlink, CmdMoves, CmdRecords
        <3>3. CASE cmd[c].kind = "start"
            BY <1>1, <2>1, <2>9, <3>3 DEF Unlink, CmdMoves, CmdRecords
        <3>4. CASE cmd[c].kind = "stop"
            BY <1>1, <2>1, <2>9, <3>4 DEF Unlink, CmdMoves, CmdRecords
        <3>5. QED
            BY <3>1, <3>2, <3>3, <3>4 DEF Kinds
    <2>10. CASE RecoverLoads(c)
        BY <1>1, <2>1, <2>10 DEF RecoverLoads, CmdMoves, CmdRecords
    <2>11. CASE RegisterFails(c)
        BY <1>1, <2>1, <2>11 DEF RegisterFails, Fault, Moves, CmdMoves, CmdRecords
    <2>12. CASE LoadRaises(c)
        BY <1>1, <2>1, <2>12 DEF LoadRaises, Moves, CmdMoves, CmdRecords
    <2>13. QED
        BY <1>4, <2>2, <2>3, <2>4, <2>5, <2>6, <2>7, <2>8, <2>9, <2>10, <2>11, <2>12 DEF CmdStep
<1>5. ASSUME NEW c \in Cmds, CmdStep(c) \/ RegisterFails(c), NEW d \in Cmds
      PROVE  CmdMoves(d)
    <2>1. d # c => cmd'[d] = cmd[d]
        BY <1>5, StepFrame
    <2>2. CASE d = c
        BY <1>4, <1>5, <2>2
    <2>3. CASE d # c
        BY <2>1, <2>3 DEF CmdMoves
    <2>4. QED
        BY <2>2, <2>3
<1>6. ASSUME HostReboots, NEW c \in Cmds
      PROVE  CmdMoves(c)
    <2>1. cmd[c] \in CmdRecords /\ leaders' = {}
        BY <1>1, <1>6 DEF HostReboots
    <2>2. CASE Busy(c)
        <3>1. cmd'[c] = [cmd[c] EXCEPT !.pc = "gone"] /\ cmd[c].pc # "idle"
            BY <1>6, <2>2 DEF HostReboots, Busy
        <3>2. QED
            BY <2>1, <3>1 DEF CmdMoves, CmdRecords
    <2>3. CASE ~Busy(c)
        BY <1>6, <2>3 DEF HostReboots, CmdMoves
    <2>4. QED
        BY <2>2, <2>3
<1>7. CASE UNCHANGED vars \/ \E r \in Runs : Configure(r)
    BY <1>2, <1>7 DEF vars, Configure
<1>8. ASSUME NEW p \in Groups, ComponentCrashes(p) \/ WrapperDies(p) \/ \E c \in Cmds : Ends(c, p)
      PROVE  UNCHANGED cmd
    BY <1>8 DEF ComponentCrashes, WrapperDies, Ends
<1>9. QED
    BY <1>2, <1>3, <1>5, <1>6, <1>7, <1>8 DEF Next, Kinds

\* What a step does to the processes and to processes.json.
LEMMA WorldMovesStep ==
    ASSUME Typed, [Next]_vars
    PROVE  /\ \/ leaders' \subseteq leaders
              \/ \E c \in Cmds : /\ cmd[c].pc = "spawn" /\ leaders' = leaders \cup {Newest(c)}
                                 /\ cmd'[c].pc = "register" /\ UNCHANGED file
           /\ file' \in {file, {}} \/ \E c \in Cmds : Register(c)
           /\ \A p \in leaders \ leaders' : \/ \E c \in Cmds : p \in cmd[c].live
                                            \/ p \notin InFlight
                                            \/ "orphan" \in seen'
                                            \/ \A c \in Cmds : cmd'[c].pc # "register"
<1> USE DEF world, history
<1>1. cmd \in [Cmds -> CmdRecords]
    BY DEF Typed, Cmd
<1>2. CASE UNCHANGED <<leaders, file>>
    BY <1>2
<1>3. ASSUME NEW c \in Cmds, CmdStep(c)
      PROVE  /\ \/ leaders' \subseteq leaders
                \/ /\ cmd[c].pc = "spawn" /\ leaders' = leaders \cup {Newest(c)}
                   /\ cmd'[c].pc = "register" /\ UNCHANGED file
             /\ file' \in {file, {}} \/ Register(c)
             /\ leaders \ leaders' \subseteq cmd[c].live
    <2>1. CASE Spawn(c)
        BY <1>1, <2>1 DEF Spawn, Moves, CmdRecords
    <2>2. CASE EndBatch(c)
        BY <2>2, BatchIsLive DEF EndBatch
    <2>3. CASE ~Spawn(c) /\ ~EndBatch(c)
        BY <1>3, <2>3 DEF CmdStep, Load, Preflight, Register, Attached, GivesUp, ReadRegistry,
                          Unlink, RecoverLoads, LoadRaises, Moves
    <2>4. QED
        BY <2>1, <2>2, <2>3
<1>4. ASSUME NEW c \in Cmds, NEW p \in Groups, Ends(c, p)
      PROVE  leaders' \subseteq leaders /\ leaders \ leaders' \subseteq cmd[c].live /\ UNCHANGED file
    BY <1>4, BatchIsLive DEF Ends
<1>5. ASSUME NEW p \in Groups, ComponentCrashes(p) \/ WrapperDies(p)
      PROVE  /\ leaders' \subseteq leaders /\ UNCHANGED file
             /\ leaders \ leaders' \subseteq leaders \ InFlight \/ "orphan" \in seen'
    BY <1>5 DEF ComponentCrashes, WrapperDies, Fault
<1>6. CASE HostReboots
    <2>1. \A c \in Cmds : cmd'[c].pc # "register"
        <3>1. SUFFICES ASSUME NEW c \in Cmds
                       PROVE  cmd'[c].pc # "register"
            OBVIOUS
        <3>2. CASE Busy(c)
            BY <1>1, <1>6, <3>2 DEF HostReboots, CmdRecords
        <3>3. CASE ~Busy(c)
            BY <1>6, <3>3 DEF HostReboots, Busy
        <3>4. QED
            BY <3>2, <3>3
    <2>2. QED
        BY <1>6, <2>1 DEF HostReboots
<1>7. ASSUME \/ UNCHANGED vars
             \/ \E r \in Runs : Configure(r)
             \/ \E c \in Cmds, kind \in Kinds : Issue(c, kind)
             \/ \E c \in Cmds : RegisterFails(c)
      PROVE  UNCHANGED <<leaders, file>>
    BY <1>7 DEF vars, Configure, Issue, RegisterFails
<1>8. QED
    BY <1>2, <1>3, <1>4, <1>5, <1>6, <1>7 DEF Next, Kinds

LEMMA NamedNext ==
    ASSUME Typed, NamedInv, [Next]_vars
    PROVE  NamedInv'
<1> SUFFICES ASSUME NEW c \in Cmds
             PROVE  /\ cmd'[c].pc \in {"idle", "load", "check"} \/ cmd'[c].kind = "recover"
                           => cmd'[c].cfg = None
                    /\ cmd'[c].cfg = None => cmd'[c].next = 1
    BY DEF NamedInv
<1>1. /\ cmd[c].pc \in {"idle", "load", "check"} \/ cmd[c].kind = "recover" => cmd[c].cfg = None
      /\ cmd[c].cfg = None => cmd[c].next = 1
    BY DEF NamedInv
<1>2. CmdMoves(c) /\ Sound(cmd[c]) /\ Sound(cmd'[c])
    BY CmdMovesStep, TypedNext DEF Typed, Cmd
<1>3. QED
    BY <1>1, <1>2 DEF CmdMoves, Sound

\* How the groups a command has started change.
LEMMA StartedNext ==
    ASSUME Typed, [Next]_vars, NEW c \in Cmds
    PROVE  /\ Started(c) \subseteq Started(c)'
           /\ Started(c)' = Started(c) \/ (Register(c) /\ Started(c)' = Started(c) \cup {Newest(c)}
                                           /\ file' = Started(c)' /\ UNCHANGED leaders)
<1>1. CmdMoves(c)
    BY CmdMovesStep
<1>2. cmd'[c].next = cmd[c].next \/ (Register(c) /\ cmd'[c].next = cmd[c].next + 1
                                     /\ file' = Started(c) \cup {Newest(c)} /\ UNCHANGED leaders)
    BY <1>1 DEF CmdMoves
<1>3. QED
    BY <1>2, StartedFacts

LEMMA FileNext ==
    ASSUME Typed, FileInv, [Next]_vars
    PROVE  FileInv'
<1>1. CASE \E c \in Cmds : Register(c)
    <2>1. PICK c \in Cmds : Register(c)
        BY <1>1
    <2>2. cmd'[c].next = cmd[c].next + 1 /\ file' = Started(c) \cup {Newest(c)}
        BY <2>1 DEF Register, Typed, Cmd, CmdRecords
    <2>3. file' = Started(c)'
        BY <2>2, StartedFacts
    <2>4. QED
        BY <2>3 DEF FileInv
<1>2. CASE file' \in {file, {}} /\ ~ \E c \in Cmds : Register(c)
    <2>1. \A c \in Cmds : Started(c)' = Started(c)
        BY <1>2, StartedNext
    <2>2. QED
        BY <1>2, <2>1 DEF FileInv
<1>3. QED
    BY <1>1, <1>2, WorldMovesStep

LEMMA LeadersNext ==
    ASSUME Typed, NamedInv, LeadersInv, StopInv, [Next]_vars
    PROVE  LeadersInv'
<1>1. seen \subseteq seen'
    BY FaultsStay
<1>2. \A c \in Cmds : CmdMoves(c)
    BY CmdMovesStep
<1>3. \A c \in Cmds : Started(c) \subseteq Started(c)'
    BY StartedNext
<1>4. Typed' /\ \A p \in leaders : p[1] \in Cmds
    BY TypedNext DEF Typed, WorldOK, Groups
<1>5. ASSUME "write" \notin seen', NEW p \in leaders'
      PROVE  p \in Started(p[1])' \cup InFlight'
    <2>1. CASE p \in leaders
        <3>1. p \in Started(p[1]) \/ p \in InFlight
            BY <1>1, <1>5, <2>1 DEF LeadersInv
        <3>2. CASE p \in Started(p[1])
            BY <1>3, <1>4, <2>1, <3>2
        <3>3. ASSUME NEW c \in Cmds, cmd[c].pc = "register", p = Newest(c)
              PROVE  p \in Started(p[1])' \cup InFlight'
            <4>1. p[1] = c
                BY <3>3 DEF Newest
            <4>2. CASE cmd'[c].next = cmd[c].next + 1
                BY <3>3, <4>1, <4>2, StartedFacts
            <4>3. CASE cmd'[c].pc = "register" /\ cmd'[c].next = cmd[c].next
                BY <3>3, <4>3, StartedFacts DEF InFlight
            <4>4. CASE leaders' = {}
                BY <1>5, <4>4
            <4>5. QED
                BY <1>2, <1>5, <3>3, <4>2, <4>3, <4>4 DEF CmdMoves
        <3>4. QED
            BY <3>1, <3>2, <3>3 DEF InFlight
    <2>2. CASE p \notin leaders
        <3>1. PICK c \in Cmds : /\ cmd[c].pc = "spawn" /\ leaders' = leaders \cup {Newest(c)}
                                /\ cmd'[c].pc = "register"
            BY <1>5, <2>2, WorldMovesStep
        <3>2. p = Newest(c) /\ cmd'[c].next = cmd[c].next
            BY <1>2, <1>5, <2>2, <3>1 DEF CmdMoves
        <3>3. QED
            BY <3>1, <3>2, StartedFacts DEF InFlight
    <2>3. QED
        BY <2>1, <2>2
<1>6. ASSUME "orphan" \notin seen', NEW c \in Cmds, cmd'[c].pc = "register"
      PROVE  Newest(c)' \in leaders'
    <2>1. CASE cmd[c].pc = "spawn"
        <3>1. cmd'[c].next = cmd[c].next /\ leaders' = leaders \cup {Newest(c)}
            BY <1>2, <1>6, <2>1 DEF CmdMoves
        <3>2. QED
            BY <3>1, StartedFacts
    <2>2. CASE cmd[c].pc # "spawn"
        <3>1. cmd[c].pc = "register" /\ cmd'[c] = cmd[c]
            BY <1>2, <1>6, <2>2 DEF CmdMoves
        <3>2. Newest(c)' = Newest(c) /\ Newest(c) \in InFlight
            BY <3>1, StartedFacts DEF InFlight
        <3>3. Newest(c) \in leaders
            BY <1>1, <1>6, <3>2 DEF LeadersInv
        <3>4. Newest(c) \notin Started(c) /\ Newest(c)[1] = c
            BY <3>1, StartedFacts DEF Typed, Cmd, Sound
        <3>5. \A d \in Cmds : Newest(c) \notin cmd[d].live
            BY <3>4 DEF StopInv
        <3>6. QED
            BY <1>6, <3>2, <3>3, <3>5, WorldMovesStep
    <2>3. QED
        BY <2>1, <2>2
<1>7. QED
    BY <1>5, <1>6 DEF LeadersInv, InFlight

LEMMA StopNext ==
    ASSUME Typed, NamedInv, FileInv, StopInv, [Next]_vars
    PROVE  StopInv'
<1> SUFFICES ASSUME NEW c \in Cmds
             PROVE  /\ cmd'[c].live \subseteq cmd'[c].listed
                    /\ \A p \in cmd'[c].listed : p \in Started(p[1])'
                    /\ \A p, q \in cmd'[c].listed : p[1] = q[1]
                    /\ cmd'[c].pc \in {"first", "rest"} =>
                           cmd'[c].listed \cap leaders' \subseteq cmd'[c].live
                    /\ cmd'[c].pc = "rest" => \A p \in cmd'[c].live \cap leaders' : p[2] # "kpm"
    BY DEF StopInv
<1>1. CmdMoves(c)
    BY CmdMovesStep
<1>2. /\ cmd[c].live \subseteq cmd[c].listed
      /\ \A p \in cmd[c].listed : p \in Started(p[1])
      /\ \A p, q \in cmd[c].listed : p[1] = q[1]
      /\ cmd[c].pc \in {"first", "rest"} => cmd[c].listed \cap leaders \subseteq cmd[c].live
      /\ cmd[c].pc = "rest" => \A p \in cmd[c].live \cap leaders : p[2] # "kpm"
    BY DEF StopInv
<1>3. /\ cmd[c].listed \subseteq Groups /\ \A p \in Groups : p[1] \in Cmds
      /\ \A d \in Cmds : Started(d) \subseteq Started(d)'
    BY StartedNext DEF Typed, Cmd, CmdRecords, Groups
<1>4. /\ \A p, q \in file : p[1] = q[1]
      /\ \A p \in file : p[1] \in Cmds /\ p \in Started(p[1])
    BY StartedFacts DEF FileInv
<1>5. \/ cmd'[c].listed = cmd[c].listed /\ cmd'[c].live = cmd[c].live
      \/ cmd'[c].listed = file /\ cmd'[c].live = file \cap leaders
      \/ cmd'[c].listed = {} /\ cmd'[c].live = {}
    BY <1>1 DEF CmdMoves
<1>6. /\ cmd'[c].live \subseteq cmd'[c].listed
      /\ \A p \in cmd'[c].listed : p \in Started(p[1])'
      /\ \A p, q \in cmd'[c].listed : p[1] = q[1]
    BY <1>2, <1>3, <1>4, <1>5
<1>7. \A p \in cmd[c].listed : p \in leaders' => p \in leaders
    <2>1. CASE leaders' \subseteq leaders
        BY <2>1
    <2>2. ASSUME NEW d \in Cmds, cmd[d].pc = "spawn", leaders' = leaders \cup {Newest(d)}
          PROVE  \A p \in cmd[c].listed : p \in leaders' => p \in leaders
        <3>1. Newest(d) \notin Started(d) /\ Newest(d)[1] = d
            BY <2>2, StartedFacts DEF Typed, Cmd, Sound
        <3>2. QED
            BY <1>2, <2>2, <3>1
    <2>3. QED
        BY <2>1, <2>2, WorldMovesStep
<1>8. CASE cmd'[c] = cmd[c]
    BY <1>2, <1>6, <1>7, <1>8
<1>9. CASE cmd[c].pc = "read" /\ cmd'[c].pc = "first"
    <2>1. cmd'[c].listed = file /\ cmd'[c].live = file \cap leaders /\ leaders' = leaders
        BY <1>1, <1>9 DEF CmdMoves
    <2>2. QED
        BY <1>6, <1>9, <2>1
<1>10. CASE cmd[c].pc = "first" /\ cmd'[c].pc = "rest"
    <2>1. /\ cmd'[c].listed = cmd[c].listed /\ cmd'[c].live = cmd[c].live
          /\ leaders' = leaders \ Batch(c)
        BY <1>1, <1>10 DEF CmdMoves
    <2>2. Batch(c) = {p \in cmd[c].live : p[2] = "kpm"}
        BY <1>10 DEF Batch
    <2>3. QED
        BY <1>2, <1>6, <1>10, <2>1, <2>2
<1>11. CASE cmd'[c].pc \notin {"first", "rest"}
    BY <1>6, <1>11
<1>12. QED
    BY <1>1, <1>8, <1>9, <1>10, <1>11 DEF CmdMoves

\* All of it is kept by every step.
LEMMA GroupsNext ==
    ASSUME Typed, GroupsInv, [Next]_vars
    PROVE  GroupsInv'
BY NamedNext, FileNext, LeadersNext, StopNext DEF GroupsInv

LEMMA GroupsInit ==
    ASSUME Init
    PROVE  GroupsInv
BY TypedInit, StartedFacts DEF Init, GroupsInv, NamedInv, FileInv, LeadersInv, StopInv, InFlight, IdleCmd

------------------------------------------------------------------------------
(* The refinement mapping.                                                  *)

\* The groups of one command have it as their owner, whichever is looked at.
LEMMA Owner ==
    ASSUME NEW S, NEW c, S # {}, \A p \in S : p[1] = c
    PROVE  (CHOOSE p \in S : TRUE)[1] = c
BY Zenon

\* The value of the mapping for one command.
AbsCmd(c) ==
    [pc     |-> AbsPc(c),
     kind   |-> IF AbsPc(c) # "idle" /\ cmd[c].kind = "stop" THEN "stop" ELSE "start",
     cfg    |-> IF AbsPc(c) # "idle" THEN cmd[c].cfg ELSE None,
     target |-> AbsTarget(c)]

LEMMA AbsCtlIs ==
    /\ AbsCtl = [c \in Cmds |-> AbsCmd(c)]
    /\ AbsCtl' = [c \in Cmds |-> AbsCmd(c)']
BY DEF AbsCtl, AbsCmd

\* The mapping, field by field.
LEMMA AbsFields ==
    ASSUME NEW d \in Cmds
    PROVE  /\ AbsCtl[d] = AbsCmd(d) /\ AbsCtl[d].pc = AbsPc(d) /\ AbsCtl[d].target = AbsTarget(d)
           /\ AbsCtl'[d] = AbsCmd(d)' /\ AbsCtl'[d].pc = AbsPc(d)'
<1>1. AbsCtl[d] = AbsCmd(d) /\ AbsCtl'[d] = AbsCmd(d)'
    BY AbsCtlIs
<1>2. AbsCmd(d).pc = AbsPc(d) /\ AbsCmd(d).target = AbsTarget(d) /\ (AbsCmd(d).pc)' = AbsPc(d)'
    BY DEF AbsCmd
<1>3. QED
    BY <1>1, <1>2

\* A configuration with a group in processes.json, or running and no longer in
\* flight, keeps its name.
LEMMA NamesStay ==
    ASSUME Typed, GroupsInv, [Next]_vars, NEW c \in Cmds, Started(c) # {}
    PROVE  cmd'[c].cfg = cmd[c].cfg /\ cmd[c].cfg # None
<1>1. cmd[c].next # 1
    BY StartedFacts
<1>2. cmd[c].cfg # None /\ cmd[c].pc # "load"
    BY <1>1 DEF GroupsInv, NamedInv
<1>3. CmdMoves(c)
    BY CmdMovesStep
<1>4. QED
    BY <1>2, <1>3 DEF CmdMoves

\* The whole of a stack is visible through the registry.
LEMMA AliveFacts ==
    ASSUME Typed, GroupsInv, ~BlindSpot
    PROVE  /\ \A p \in leaders \ InFlight : p[1] \in Cmds /\ p \in Started(p[1])
           /\ InFlight \subseteq leaders
           /\ \A p \in file : p[1] \in Cmds /\ p \in Started(p[1])
           /\ file = {} \/ \E c \in Cmds : file = Started(c)
           /\ \A c \in Cmds : \A p \in cmd[c].listed : p[1] \in Cmds /\ p \in Started(p[1])
           /\ \A c \in Cmds : \A p, q \in cmd[c].listed : p[1] = q[1]
           /\ \A c \in Cmds : cmd[c].live \subseteq cmd[c].listed
           /\ \A c \in Cmds : cmd[c].live \cap InFlight = {}
<1>1. "write" \notin seen /\ "orphan" \notin seen
    BY DEF BlindSpot
<1>2. /\ \A p \in leaders : p[1] \in Cmds
      /\ \A c \in Cmds : \A p \in cmd[c].listed : p[1] \in Cmds
    BY DEF Typed, WorldOK, Cmd, CmdRecords, Groups
<1>3. \A p \in file : p[1] \in Cmds /\ p \in Started(p[1])
    BY StartedFacts DEF GroupsInv, FileInv
<1>4. \A c \in Cmds : cmd[c].live \cap InFlight = {}
    <2>1. SUFFICES ASSUME NEW c \in Cmds, NEW d \in Cmds, cmd[d].pc = "register",
                          Newest(d) \in cmd[c].live
                   PROVE  FALSE
        BY DEF InFlight
    <2>2. Newest(d) \in Started(Newest(d)[1])
        BY <2>1 DEF GroupsInv, StopInv
    <2>3. QED
        BY <2>1, <2>2, StartedFacts DEF Typed, Cmd, Sound
<1>5. QED
    BY <1>1, <1>2, <1>3, <1>4 DEF GroupsInv, LeadersInv, StopInv, FileInv

\* A stack keeps its name as long as the commands keep their configuration.
LEMMA SameStack ==
    ASSUME NEW S, \A p \in S : p[1] \in Cmds /\ cmd'[p[1]].cfg = cmd[p[1]].cfg
    PROVE  StackOf(S)' = StackOf(S)
<1>1. CASE S = {}
    BY <1>1 DEF StackOf
<1>2. CASE S # {}
    <2>1. (CHOOSE p \in S : TRUE) \in S
        BY <1>2
    <2>2. cmd'[(CHOOSE p \in S : TRUE)[1]].cfg = cmd[(CHOOSE p \in S : TRUE)[1]].cfg
        BY <2>1
    <2>3. QED
        BY <1>2, <2>2 DEF StackOf
<1>3. QED
    BY <1>1, <1>2

\* A step that neither ends nor registers a group, of command c at most.
LEMMA ViewFrame ==
    ASSUME Typed, GroupsInv, [Next]_vars, ~BlindSpot, NEW c \in Cmds, UNCHANGED file,
           \A d \in Cmds : d # c => cmd'[d] = cmd[d],
           cmd'[c].next = cmd[c].next,
           leaders' \ InFlight' = leaders \ InFlight,
           \A d \in Cmds : cmd[d].live \cap leaders' = cmd[d].live \cap leaders
    PROVE  /\ UNCHANGED <<AbsRegistry, AbsAlive>>
           /\ \A d \in Cmds : d # c => AbsCmd(d)' = AbsCmd(d)
<1>1. \A d \in Cmds : Started(d)' = Started(d)
    BY StartedFacts
<1>2. \A p : p[1] \in Cmds /\ p \in Started(p[1]) => cmd'[p[1]].cfg = cmd[p[1]].cfg
    BY NamesStay
<1>3. AbsAlive' = AbsAlive
    BY <1>2, AliveFacts DEF AbsAlive
<1>4. AbsRegistry' = AbsRegistry
    BY <1>2, AliveFacts, SameStack DEF AbsRegistry
<1>5. ASSUME NEW d \in Cmds, d # c
      PROVE  AbsCmd(d)' = AbsCmd(d)
    <2>1. cmd'[d] = cmd[d]
        BY <1>5
    <2>2. AbsPc(d)' = AbsPc(d)
        BY <2>1 DEF AbsPc
    <2>3. StackOf(cmd[d].listed)' = StackOf(cmd[d].listed)
        BY <1>2, <2>1, AliveFacts, SameStack
    <2>4. AbsTarget(d)' = AbsTarget(d)
        BY <1>1, <2>1, <2>2, <2>3 DEF AbsTarget
    <2>5. QED
        BY <2>1, <2>2, <2>4 DEF AbsCmd
<1>6. QED
    BY <1>3, <1>4, <1>5

------------------------------------------------------------------------------
(* How the steps look to RunLifecycle.                                      *)

\* One controller of RunLifecycle, and the ways its steps change it.
Ctl(pc, kind, cfg, target) == [pc |-> pc, kind |-> kind, cfg |-> cfg, target |-> target]
SetPc(f, c, a) == [f EXCEPT ![c].pc = a]
SetKind(f, c, a, b) == [f EXCEPT ![c].pc = a, ![c].kind = b]
SetCfg(f, c, a, b) == [f EXCEPT ![c].pc = a, ![c].cfg = b]
SetTarget(f, c, a, b) == [f EXCEPT ![c].pc = a, ![c].target = b]
Terminated(r) == [r EXCEPT !.pc = "unlink", !.target = None]

LEMMA SetPcCtl ==
    ASSUME NEW f, NEW c \in Cmds, NEW pc, NEW kind, NEW cfg, NEW target, NEW a, NEW b,
           DOMAIN f = Cmds, f[c] = Ctl(pc, kind, cfg, target)
    PROVE  SetPc(f, c, a) = [f EXCEPT ![c] = Ctl(a, kind, cfg, target)]
<1> DEFINE r == f[c]
           q == [r EXCEPT !.pc = a]
           s == Ctl(a, kind, cfg, target)
<1>1. r = Ctl(pc, kind, cfg, target)
    OBVIOUS
<1>2. [f EXCEPT ![c].pc = a] = [f EXCEPT ![c] = q]
    OBVIOUS
<1> HIDE DEF r
<1>3. q = [x \in {"pc", "kind", "cfg", "target"} |-> q[x]]
    BY <1>1 DEF Ctl
<1>4. s = [x \in {"pc", "kind", "cfg", "target"} |-> s[x]]
    BY DEF Ctl
<1>5. q.pc = s.pc /\ q.kind = s.kind /\ q.cfg = s.cfg /\ q.target = s.target
    BY <1>1 DEF Ctl
<1> HIDE DEF q, s
<1>6. q = s
    BY <1>3, <1>4, <1>5
<1>7. QED
    BY <1>2, <1>6 DEF SetPc, s

LEMMA SetKindCtl ==
    ASSUME NEW f, NEW c \in Cmds, NEW pc, NEW kind, NEW cfg, NEW target, NEW a, NEW b,
           DOMAIN f = Cmds, f[c] = Ctl(pc, kind, cfg, target)
    PROVE  SetKind(f, c, a, b) = [f EXCEPT ![c] = Ctl(a, b, cfg, target)]
<1> DEFINE r == f[c]
           q == [r EXCEPT !.pc = a, !.kind = b]
           s == Ctl(a, b, cfg, target)
<1>1. r = Ctl(pc, kind, cfg, target)
    OBVIOUS
<1>2. [f EXCEPT ![c].pc = a, ![c].kind = b] = [f EXCEPT ![c] = q]
    OBVIOUS
<1> HIDE DEF r
<1>3. q = [x \in {"pc", "kind", "cfg", "target"} |-> q[x]]
    BY <1>1 DEF Ctl
<1>4. s = [x \in {"pc", "kind", "cfg", "target"} |-> s[x]]
    BY DEF Ctl
<1>5. q.pc = s.pc /\ q.kind = s.kind /\ q.cfg = s.cfg /\ q.target = s.target
    BY <1>1 DEF Ctl
<1> HIDE DEF q, s
<1>6. q = s
    BY <1>3, <1>4, <1>5
<1>7. QED
    BY <1>2, <1>6 DEF SetKind, s

LEMMA SetCfgCtl ==
    ASSUME NEW f, NEW c \in Cmds, NEW pc, NEW kind, NEW cfg, NEW target, NEW a, NEW b,
           DOMAIN f = Cmds, f[c] = Ctl(pc, kind, cfg, target)
    PROVE  SetCfg(f, c, a, b) = [f EXCEPT ![c] = Ctl(a, kind, b, target)]
<1> DEFINE r == f[c]
           q == [r EXCEPT !.pc = a, !.cfg = b]
           s == Ctl(a, kind, b, target)
<1>1. r = Ctl(pc, kind, cfg, target)
    OBVIOUS
<1>2. [f EXCEPT ![c].pc = a, ![c].cfg = b] = [f EXCEPT ![c] = q]
    OBVIOUS
<1> HIDE DEF r
<1>3. q = [x \in {"pc", "kind", "cfg", "target"} |-> q[x]]
    BY <1>1 DEF Ctl
<1>4. s = [x \in {"pc", "kind", "cfg", "target"} |-> s[x]]
    BY DEF Ctl
<1>5. q.pc = s.pc /\ q.kind = s.kind /\ q.cfg = s.cfg /\ q.target = s.target
    BY <1>1 DEF Ctl
<1> HIDE DEF q, s
<1>6. q = s
    BY <1>3, <1>4, <1>5
<1>7. QED
    BY <1>2, <1>6 DEF SetCfg, s

LEMMA SetTargetCtl ==
    ASSUME NEW f, NEW c \in Cmds, NEW pc, NEW kind, NEW cfg, NEW target, NEW a, NEW b,
           DOMAIN f = Cmds, f[c] = Ctl(pc, kind, cfg, target)
    PROVE  SetTarget(f, c, a, b) = [f EXCEPT ![c] = Ctl(a, kind, cfg, b)]
<1> DEFINE r == f[c]
           q == [r EXCEPT !.pc = a, !.target = b]
           s == Ctl(a, kind, cfg, b)
<1>1. r = Ctl(pc, kind, cfg, target)
    OBVIOUS
<1>2. [f EXCEPT ![c].pc = a, ![c].target = b] = [f EXCEPT ![c] = q]
    OBVIOUS
<1> HIDE DEF r
<1>3. q = [x \in {"pc", "kind", "cfg", "target"} |-> q[x]]
    BY <1>1 DEF Ctl
<1>4. s = [x \in {"pc", "kind", "cfg", "target"} |-> s[x]]
    BY DEF Ctl
<1>5. q.pc = s.pc /\ q.kind = s.kind /\ q.cfg = s.cfg /\ q.target = s.target
    BY <1>1 DEF Ctl
<1> HIDE DEF q, s
<1>6. q = s
    BY <1>3, <1>4, <1>5
<1>7. QED
    BY <1>2, <1>6 DEF SetTarget, s

LEMMA TerminatedCtl ==
    ASSUME NEW r, NEW pc, NEW kind, NEW cfg, NEW target, r = Ctl(pc, kind, cfg, target)
    PROVE  Terminated(r) = Ctl("unlink", kind, cfg, None)
<1> DEFINE q == [r EXCEPT !.pc = "unlink", !.target = None]
           s == Ctl("unlink", kind, cfg, None)
<1>1. q = [x \in {"pc", "kind", "cfg", "target"} |-> q[x]]
    BY DEF Ctl
<1>2. s = [x \in {"pc", "kind", "cfg", "target"} |-> s[x]]
    BY DEF Ctl
<1>3. q.pc = s.pc /\ q.kind = s.kind /\ q.cfg = s.cfg /\ q.target = s.target
    BY DEF Ctl
<1> HIDE DEF q, s
<1>4. q = s
    BY <1>1, <1>2, <1>3
<1>5. QED
    BY <1>4 DEF q, s, Terminated

\* A step of one command that leaves processes and processes.json alone.
LEMMA QuietStep ==
    ASSUME Typed, GroupsInv, [Next]_vars, ~BlindSpot, NEW c \in Cmds, UNCHANGED <<file, leaders>>,
           \A d \in Cmds : d # c => cmd'[d] = cmd[d],
           cmd'[c].next = cmd[c].next, cmd[c].pc # "register", cmd'[c].pc # "register"
    PROVE  /\ UNCHANGED <<AbsRegistry, AbsAlive>>
           /\ AbsCtl' = [AbsCtl EXCEPT ![c] = AbsCmd(c)']
           /\ AbsCtl[c] = AbsCmd(c) /\ DOMAIN AbsCtl = Cmds
<1>1. \A d \in Cmds : cmd[d].pc = "register" => cmd'[d].pc = "register" /\ Newest(d)' = Newest(d)
    BY StartedFacts
<1>2. \A d \in Cmds : cmd'[d].pc = "register" => cmd[d].pc = "register" /\ Newest(d)' = Newest(d)
    BY StartedFacts
<1>3. InFlight' = InFlight
    BY <1>1, <1>2 DEF InFlight
<1>4. UNCHANGED <<AbsRegistry, AbsAlive>> /\ \A d \in Cmds : d # c => AbsCmd(d)' = AbsCmd(d)
    BY <1>3, ViewFrame
<1>5. QED
    BY <1>4, AbsCtlIs

\* Both controllers agree on whether what processes.json lists is running.
LEMMA StatusAgrees ==
    ASSUME Typed, GroupsInv, ~BlindSpot, ~Twins
    PROVE  (AbsRegistry \in AbsAlive) <=> StatusRunning
<1>1. StatusRunning <=> file \cap leaders # {}
    BY DEF StatusRunning, RegisteredRunning
<1>2. CASE file = {}
    <2>1. AbsRegistry = None
        BY <1>2 DEF AbsRegistry, StackOf
    <2>2. \A p \in leaders \ InFlight : cmd[p[1]].cfg # None
        BY AliveFacts, StartedFacts DEF GroupsInv, NamedInv
    <2>3. QED
        BY <1>1, <1>2, <2>1, <2>2 DEF AbsAlive
<1>3. ASSUME NEW e \in Cmds, file = Started(e), file # {}
      PROVE  (AbsRegistry \in AbsAlive) <=> StatusRunning
    <2>1. \A p \in file : p[1] = e
        BY <1>3, StartedFacts
    <2>2. AbsRegistry = cmd[e].cfg
        BY <1>3, <2>1, Owner DEF AbsRegistry, StackOf
    <2>3. ASSUME NEW p \in file \cap leaders
          PROVE  AbsRegistry \in AbsAlive
        <3>1. p \notin InFlight
            <4>1. SUFFICES ASSUME NEW d \in Cmds, cmd[d].pc = "register", p = Newest(d)
                           PROVE  FALSE
                BY DEF InFlight
            <4>2. d = e /\ cmd[d].next <= Len(Components)
                BY <2>1, <2>3, <4>1, StartedFacts DEF Typed, Cmd, Sound
            <4>3. QED
                BY <1>3, <2>3, <4>1, <4>2, StartedFacts
        <3>2. QED
            BY <2>1, <2>2, <2>3, <3>1 DEF AbsAlive
    <2>4. ASSUME NEW q \in leaders \ InFlight, cmd[q[1]].cfg = cmd[e].cfg
          PROVE  q \in file \cap leaders
        <3>1. PICK p \in file : TRUE
            BY <1>3
        <3>2. q[1] = e
            BY <2>1, <2>4, <3>1 DEF Twins
        <3>3. QED
            BY <1>3, <2>4, <3>2, AliveFacts
    <2>5. QED
        BY <1>1, <2>2, <2>3, <2>4 DEF AbsAlive
<1>4. QED
    BY <1>2, <1>3, AliveFacts

\* A command that is issued is one the Manager or an operator invokes there.
LEMMA IssueView ==
    ASSUME Typed, GroupsInv, [Next]_vars, ~BlindSpot,
           NEW c \in Cmds, NEW kind \in Kinds, Issue(c, kind)
    PROVE  AbsEnvironment
<1> USE DEF world, history
<1>1. cmd[c] \in CmdRecords /\ cmd[c].pc = "idle" /\ cmd[c].cfg = None
    BY DEF Issue, Typed, Cmd, GroupsInv, NamedInv
<1>2. /\ UNCHANGED <<file, leaders, active>> /\ \A d \in Cmds : d # c => cmd'[d] = cmd[d]
      /\ cmd'[c] = [cmd[c] EXCEPT !.pc = FirstPc(kind), !.kind = kind]
    BY DEF Issue, Typed, Cmd
<1>3. /\ UNCHANGED <<AbsRegistry, AbsAlive>>
      /\ AbsCtl' = [AbsCtl EXCEPT ![c] = AbsCmd(c)']
      /\ AbsCtl[c] = AbsCmd(c) /\ DOMAIN AbsCtl = Cmds
    <2>1. cmd'[c].next = cmd[c].next /\ cmd'[c].pc # "register"
        BY <1>1, <1>2 DEF CmdRecords, FirstPc, Kinds
    <2>2. QED
        BY <1>1, <1>2, <2>1, QuietStep
<1>4. AbsCmd(c) = Ctl("idle", "start", None, None)
    BY <1>1 DEF AbsCmd, AbsPc, AbsTarget, Ctl
<1>5. CASE kind = "recover"
    <2>1. cmd'[c].pc = "check"
        BY <1>1, <1>2, <1>5 DEF CmdRecords, FirstPc
    <2>2. AbsCmd(c)' = AbsCmd(c)
        BY <1>4, <2>1 DEF AbsCmd, AbsPc, AbsTarget, Ctl
    <2>3. AbsCtl' = AbsCtl
        BY <1>3, <2>2, AbsCtlIs
    <2>4. QED
        BY <1>3, <2>3 DEF AbsEnvironment
<1>6. ASSUME NEW pc \in {"load", "read"}, kind \in {"start", "stop"}, FirstPc(kind) = pc
      PROVE  AbsEnvironment
    <2>1. cmd'[c].pc = pc /\ cmd'[c].kind = kind /\ cmd'[c].cfg = None
        BY <1>1, <1>2, <1>6 DEF CmdRecords
    <2>2. AbsCmd(c)' = Ctl(pc, kind, None, None)
        BY <1>6, <2>1 DEF AbsCmd, AbsPc, AbsTarget, Ctl
    <2>3. AbsCtl[c].pc = "idle"
        BY <1>3, <1>4 DEF Ctl
    <2>4. AbsCtl' = [AbsCtl EXCEPT ![c].pc = pc, ![c].kind = kind]
        <3>1. AbsCtl[c] = Ctl("idle", "start", None, None)
            BY <1>3, <1>4
        <3>2. AbsCtl' = [AbsCtl EXCEPT ![c] = Ctl(pc, kind, None, None)]
            BY <1>3, <2>2
        <3>3. AbsCtl' = SetKind(AbsCtl, c, pc, kind)
            BY <1>3, <3>1, <3>2, SetKindCtl
        <3>4. QED
            BY <3>3, Zenon DEF SetKind
    <2>5. QED
        BY <1>2, <1>3, <1>6, <2>3, <2>4 DEF AbsEnvironment
<1>7. QED
    BY <1>5, <1>6 DEF Kinds, FirstPc

\* recover_ue begins as a stop.
LEMMA RecoverLoadsView ==
    ASSUME Typed, GroupsInv, [Next]_vars, ~BlindSpot, NEW c \in Cmds, RecoverLoads(c)
    PROVE  AbsEnvironment
<1> USE DEF world, history
<1>1. cmd[c] \in CmdRecords /\ cmd[c].pc = "check" /\ cmd[c].cfg = None /\ cmd[c].kind = "recover"
    BY DEF RecoverLoads, Typed, Cmd, Sound, GroupsInv, NamedInv
<1>2. /\ UNCHANGED <<file, leaders, active>> /\ \A d \in Cmds : d # c => cmd'[d] = cmd[d]
      /\ cmd'[c] = [cmd[c] EXCEPT !.pc = "read", !.want = RuntimeConfig]
    BY DEF RecoverLoads, Typed, Cmd
<1>3. cmd'[c].next = cmd[c].next /\ cmd'[c].pc = "read" /\ cmd'[c].cfg = None /\ cmd'[c].kind = "recover"
    BY <1>1, <1>2 DEF CmdRecords
<1>4. /\ UNCHANGED <<AbsRegistry, AbsAlive>>
      /\ AbsCtl' = [AbsCtl EXCEPT ![c] = AbsCmd(c)']
      /\ AbsCtl[c] = AbsCmd(c) /\ DOMAIN AbsCtl = Cmds
    BY <1>1, <1>2, <1>3, QuietStep
<1>5. AbsCmd(c) = Ctl("idle", "start", None, None)
    BY <1>1 DEF AbsCmd, AbsPc, AbsTarget, Ctl
<1>6. AbsCmd(c)' = Ctl("read", "start", None, None)
    BY <1>3 DEF AbsCmd, AbsPc, AbsTarget, Ctl
<1>7. AbsCtl[c].pc = "idle"
    BY <1>4, <1>5 DEF Ctl
<1>8. AbsCtl' = [AbsCtl EXCEPT ![c].pc = "read", ![c].kind = "start"]
    <2>1. AbsCtl[c] = Ctl("idle", "start", None, None)
        BY <1>4, <1>5
    <2>2. AbsCtl' = [AbsCtl EXCEPT ![c] = Ctl("read", "start", None, None)]
        BY <1>4, <1>6
    <2>3. AbsCtl' = SetKind(AbsCtl, c, "read", "start")
        BY <1>4, <2>1, <2>2, SetKindCtl
    <2>4. QED
        BY <2>3, Zenon DEF SetKind
<1>9. QED
    BY <1>2, <1>4, <1>7, <1>8 DEF AbsEnvironment

\* Only the pc of a command shows.
LEMMA PcMoves ==
    ASSUME Typed, GroupsInv, [Next]_vars, ~BlindSpot, NEW c \in Cmds, UNCHANGED <<file, leaders, active>>,
           \A d \in Cmds : d # c => cmd'[d] = cmd[d],
           NEW from \in Pcs \ {"register", "first", "rest"}, NEW to \in Pcs \ {"register", "first", "rest"},
           cmd[c].pc = from, cmd' = [cmd EXCEPT ![c].pc = to],
           AbsPc(c) # "idle", AbsPc(c)' # "idle"
    PROVE  /\ AbsCtl[c].pc = AbsPc(c)
           /\ AbsCtl' = [AbsCtl EXCEPT ![c].pc = AbsPc(c)']
           /\ UNCHANGED <<AbsRegistry, AbsAlive>>
<1>1. cmd'[c] = [cmd[c] EXCEPT !.pc = to] /\ cmd[c] \in CmdRecords
    BY DEF Typed, Cmd
<1>2. /\ cmd'[c].next = cmd[c].next /\ cmd'[c].kind = cmd[c].kind /\ cmd'[c].cfg = cmd[c].cfg
      /\ cmd'[c].pc = to
    BY <1>1 DEF CmdRecords
<1>3. /\ UNCHANGED <<AbsRegistry, AbsAlive>>
      /\ AbsCtl' = [AbsCtl EXCEPT ![c] = AbsCmd(c)']
      /\ AbsCtl[c] = AbsCmd(c) /\ DOMAIN AbsCtl = Cmds
    BY <1>2, QuietStep
<1> DEFINE kind == IF cmd[c].kind = "stop" THEN "stop" ELSE "start"
<1>4. AbsTarget(c) = None /\ AbsTarget(c)' = None
    BY <1>2 DEF AbsTarget, AbsPc, Pcs
<1>5. AbsCmd(c) = Ctl(AbsPc(c), kind, cmd[c].cfg, None)
    BY <1>4 DEF AbsCmd, Ctl
<1>6. AbsCmd(c)' = Ctl(AbsPc(c)', kind, cmd[c].cfg, None)
    BY <1>2, <1>4 DEF AbsCmd, Ctl
<1>7. AbsCtl' = SetPc(AbsCtl, c, AbsPc(c)')
    BY <1>3, <1>5, <1>6, SetPcCtl
<1>8. AbsCtl[c].pc = AbsPc(c)
    BY <1>3, <1>5 DEF Ctl
<1>9. QED
    BY <1>3, <1>7, <1>8, Zenon DEF SetPc

\* preflight, the last step of a start, and giving it up.
LEMMA MovesView ==
    ASSUME Typed, GroupsInv, [Next]_vars, ~BlindSpot, ~Twins, NEW c \in Cmds,
           Preflight(c) \/ Attached(c) \/ GivesUp(c)
    PROVE  cmd'[c] # cmd[c] /\ R!CtlStep(c)
<1> USE DEF world, history
<1>1. cmd \in [Cmds -> CmdRecords] /\ cmd[c] \in CmdRecords
    BY DEF Typed, Cmd
<1>2. UNCHANGED <<file, leaders, active>> /\ cmd'[c] # cmd[c] /\ \A d \in Cmds : d # c => cmd'[d] = cmd[d]
    <2>1. UNCHANGED <<file, leaders, active>>
        BY DEF Preflight, Attached, GivesUp
    <2>2. \/ Moves(c, "preflight", "spawn") \/ Moves(c, "preflight", "err") \/ Moves(c, "attach", "ok")
          \/ Moves(c, "spawn", "read") \/ Moves(c, "attach", "read")
        BY DEF Preflight, Attached, GivesUp
    <2>3. ASSUME NEW from, NEW to, from # to, Moves(c, from, to)
          PROVE  cmd'[c] # cmd[c] /\ \A d \in Cmds : d # c => cmd'[d] = cmd[d]
        BY <1>1, <2>3 DEF Moves, CmdRecords
    <2>4. QED
        BY <2>1, <2>2, <2>3
<1>3. CASE Moves(c, "preflight", "spawn") /\ ~StatusRunning
    <2>1. cmd[c].pc = "preflight" /\ cmd' = [cmd EXCEPT ![c].pc = "spawn"] /\ cmd'[c].pc = "spawn"
        BY <1>1, <1>3 DEF Moves
    <2>2. AbsPc(c) = "preflight" /\ AbsPc(c)' = "launch"
        BY <2>1 DEF AbsPc
    <2>3. /\ AbsCtl[c].pc = "preflight" /\ AbsCtl' = [AbsCtl EXCEPT ![c].pc = "launch"]
          /\ UNCHANGED <<AbsRegistry, AbsAlive>>
        BY <1>2, <2>1, <2>2, PcMoves DEF Pcs
    <2>4. AbsRegistry \notin AbsAlive
        BY <1>3, StatusAgrees
    <2>5. R!CtlPreflight(c)
        BY <1>2, <2>3, <2>4 DEF R!CtlPreflight, R!CtlMoves, R!StatusRunning
    <2>6. QED
        BY <1>2, <2>5 DEF R!CtlStep
<1>4. CASE Moves(c, "preflight", "err")
    <2>1. cmd[c].pc = "preflight" /\ cmd' = [cmd EXCEPT ![c].pc = "err"] /\ cmd'[c].pc = "err"
        BY <1>1, <1>4 DEF Moves
    <2>2. AbsPc(c) = "preflight" /\ AbsPc(c)' = "err"
        BY <2>1 DEF AbsPc
    <2>3. /\ AbsCtl[c].pc = "preflight" /\ AbsCtl' = [AbsCtl EXCEPT ![c].pc = "err"]
          /\ UNCHANGED <<AbsRegistry, AbsAlive>>
        BY <1>2, <2>1, <2>2, PcMoves DEF Pcs
    <2>4. R!CtlPreflight(c)
        BY <1>2, <2>3 DEF R!CtlPreflight, R!CtlMoves
    <2>5. QED
        BY <1>2, <2>4 DEF R!CtlStep
<1>5. CASE Moves(c, "attach", "ok") /\ Attached(c)
    <2>1. cmd[c].pc = "attach" /\ cmd' = [cmd EXCEPT ![c].pc = "ok"] /\ cmd'[c].pc = "ok"
        BY <1>1, <1>5 DEF Moves
    <2>2. AbsPc(c) = "attach" /\ AbsPc(c)' = "ok"
        BY <2>1 DEF AbsPc
    <2>3. /\ AbsCtl[c].pc = "attach" /\ AbsCtl' = [AbsCtl EXCEPT ![c].pc = "ok"]
          /\ UNCHANGED <<AbsRegistry, AbsAlive>>
        BY <1>2, <2>1, <2>2, PcMoves DEF Pcs
    <2>4. R!CtlAttached(c)
        BY <1>2, <2>3 DEF R!CtlAttached, R!CtlMoves
    <2>5. QED
        BY <1>2, <2>4 DEF R!CtlStep
<1>6. ASSUME NEW from \in {"spawn", "attach"}, Moves(c, from, "read")
      PROVE  cmd'[c] # cmd[c] /\ R!CtlStep(c)
    <2>1. cmd[c].pc = from /\ cmd' = [cmd EXCEPT ![c].pc = "read"] /\ cmd'[c].pc = "read"
        BY <1>1, <1>6 DEF Moves
    <2>2. AbsPc(c) \in {"launch", "attach"} /\ AbsPc(c)' = "read"
        BY <1>6, <2>1 DEF AbsPc
    <2>3. /\ AbsCtl[c].pc \in {"launch", "attach"} /\ AbsCtl' = [AbsCtl EXCEPT ![c].pc = "read"]
          /\ UNCHANGED <<AbsRegistry, AbsAlive>>
        BY <1>2, <1>6, <2>1, <2>2, PcMoves DEF Pcs
    <2>4. R!CtlGivesUp(c)
        BY <1>2, <2>3 DEF R!CtlGivesUp, R!CtlMoves
    <2>5. QED
        BY <1>2, <2>4 DEF R!CtlStep
<1>7. QED
    BY <1>3, <1>4, <1>5, <1>6 DEF Preflight, Attached, GivesUp

\* load_runtime_config.
LEMMA LoadView ==
    ASSUME Typed, GroupsInv, [Next]_vars, ~BlindSpot, NEW c \in Cmds, Load(c)
    PROVE  cmd'[c] # cmd[c] /\ R!CtlStep(c)
<1> USE DEF world, history
<1>1. /\ cmd[c] \in CmdRecords /\ cmd[c].pc = "load" /\ cmd[c].cfg = None /\ cmd[c].next = 1
      /\ cmd[c].kind = "start"
    BY DEF Load, Typed, Cmd, Sound, GroupsInv, NamedInv
<1>2. /\ UNCHANGED <<file, leaders, active>> /\ \A d \in Cmds : d # c => cmd'[d] = cmd[d]
      /\ cmd'[c] = [cmd[c] EXCEPT !.pc = "preflight", !.cfg = RuntimeConfig]
    BY DEF Load, Typed, Cmd
<1>3. /\ cmd'[c].pc = "preflight" /\ cmd'[c].cfg = RuntimeConfig /\ cmd'[c].next = cmd[c].next
      /\ cmd'[c].kind = cmd[c].kind
    BY <1>1, <1>2 DEF CmdRecords
<1>4. /\ UNCHANGED <<AbsRegistry, AbsAlive>>
      /\ AbsCtl' = [AbsCtl EXCEPT ![c] = AbsCmd(c)']
      /\ AbsCtl[c] = AbsCmd(c) /\ DOMAIN AbsCtl = Cmds
    BY <1>1, <1>2, <1>3, QuietStep
<1>5. AbsCmd(c) = Ctl("load", "start", None, None)
    BY <1>1 DEF AbsCmd, AbsPc, AbsTarget, Ctl
<1>6. AbsCmd(c)' = Ctl("preflight", "start", RuntimeConfig, None)
    BY <1>1, <1>3 DEF AbsCmd, AbsPc, AbsTarget, Ctl
<1>7. AbsCtl' = SetCfg(AbsCtl, c, "preflight", RuntimeConfig)
    BY <1>4, <1>5, <1>6, SetCfgCtl
<1>8. AbsCtl' = [AbsCtl EXCEPT ![c].pc = "preflight", ![c].cfg = IF active = None THEN Baseline ELSE active]
    BY <1>7, Zenon DEF SetCfg, RuntimeConfig
<1>9. AbsCtl[c].pc = "load"
    BY <1>4, <1>5 DEF Ctl
<1>10. R!CtlLoad(c)
    BY <1>2, <1>4, <1>8, <1>9 DEF R!CtlLoad
<1>11. cmd'[c] # cmd[c]
    BY <1>1, <1>3
<1>12. QED
    BY <1>10, <1>11 DEF R!CtlStep

\* A command that cannot load its configuration ends: start() in both models,
\* recover_ue before RunLifecycle has seen it.
LEMMA LoadRaisesView ==
    ASSUME Typed, GroupsInv, [Next]_vars, ~BlindSpot, NEW c \in Cmds, LoadRaises(c)
    PROVE  (cmd'[c] # cmd[c] /\ R!CtlStep(c)) \/ AbsEnvironment
<1> USE DEF world, history
<1>1. cmd \in [Cmds -> CmdRecords] /\ cmd[c] \in CmdRecords
    BY DEF Typed, Cmd
<1>2. UNCHANGED <<file, leaders, active>> /\ \A d \in Cmds : d # c => cmd'[d] = cmd[d]
    BY <1>1 DEF LoadRaises, Moves
<1>3. CASE Moves(c, "load", "err")
    <2>1. cmd[c].pc = "load" /\ cmd' = [cmd EXCEPT ![c].pc = "err"] /\ cmd'[c].pc = "err"
        BY <1>1, <1>3 DEF Moves
    <2>2. AbsPc(c) = "load" /\ AbsPc(c)' = "err"
        BY <2>1 DEF AbsPc
    <2>3. /\ AbsCtl[c].pc = "load" /\ AbsCtl' = [AbsCtl EXCEPT ![c].pc = "err"]
          /\ UNCHANGED <<AbsRegistry, AbsAlive>>
        BY <1>2, <2>1, <2>2, PcMoves DEF Pcs
    <2>4. R!CtlLoad(c)
        BY <1>2, <2>3 DEF R!CtlLoad, R!CtlMoves
    <2>5. QED
        BY <2>1, <2>4 DEF R!CtlStep
<1>4. CASE Moves(c, "check", "gone")
    <2>1. cmd[c].pc = "check" /\ cmd' = [cmd EXCEPT ![c].pc = "gone"] /\ cmd'[c].pc = "gone"
        BY <1>1, <1>4 DEF Moves
    <2>2. cmd[c].cfg = None /\ cmd'[c].cfg = None /\ cmd'[c].next = cmd[c].next
        BY <1>1, <2>1 DEF GroupsInv, NamedInv, CmdRecords
    <2>3. /\ UNCHANGED <<AbsRegistry, AbsAlive>>
          /\ AbsCtl' = [AbsCtl EXCEPT ![c] = AbsCmd(c)']
          /\ AbsCtl[c] = AbsCmd(c) /\ DOMAIN AbsCtl = Cmds
        BY <1>1, <1>2, <2>1, <2>2, QuietStep
    <2>4. AbsCmd(c)' = AbsCmd(c)
        BY <2>1 DEF AbsCmd, AbsPc, AbsTarget, Ctl
    <2>5. AbsCtl' = AbsCtl
        <3>1. AbsCtl = [d \in Cmds |-> AbsCtl[d]]
            BY DEF AbsCtl
        <3>2. QED
            BY <2>3, <2>4, <3>1
    <2>6. QED
        BY <2>3, <2>5 DEF AbsEnvironment
<1>5. QED
    BY <1>3, <1>4 DEF LoadRaises

\* Both controllers read the registry alike: a stack that is up is the target.
LEMMA ReadRegistryView ==
    ASSUME Typed, GroupsInv, [Next]_vars, ~BlindSpot, ~Twins, NEW c \in Cmds, ReadRegistry(c)
    PROVE  cmd'[c] # cmd[c] /\ R!CtlStep(c)
<1> USE DEF world, history
<1>1. cmd[c] \in CmdRecords /\ cmd[c].pc = "read"
    BY DEF ReadRegistry, Typed, Cmd
<1>2. {p \in file : RegisteredRunning(p)} = file \cap leaders
    BY DEF RegisteredRunning
<1>3. /\ UNCHANGED <<file, leaders, active>> /\ \A d \in Cmds : d # c => cmd'[d] = cmd[d]
      /\ cmd'[c] = [cmd[c] EXCEPT !.pc = "first", !.listed = file, !.live = file \cap leaders]
    BY <1>2 DEF ReadRegistry, Typed, Cmd
<1>4. /\ cmd'[c].pc = "first" /\ cmd'[c].cfg = cmd[c].cfg /\ cmd'[c].next = cmd[c].next
      /\ cmd'[c].kind = cmd[c].kind /\ cmd'[c].listed = file /\ cmd'[c].live = file \cap leaders
    BY <1>1, <1>3 DEF CmdRecords
<1>5. /\ UNCHANGED <<AbsRegistry, AbsAlive>>
      /\ AbsCtl' = [AbsCtl EXCEPT ![c] = AbsCmd(c)']
      /\ AbsCtl[c] = AbsCmd(c) /\ DOMAIN AbsCtl = Cmds
    BY <1>1, <1>3, <1>4, QuietStep
<1> DEFINE kind == IF cmd[c].kind = "stop" THEN "stop" ELSE "start"
           target == IF AbsRegistry \in AbsAlive THEN AbsRegistry ELSE None
<1>6. AbsCmd(c) = Ctl("read", kind, cmd[c].cfg, None)
    BY <1>1 DEF AbsCmd, AbsPc, AbsTarget, Ctl
<1>7. AbsPc(c)' = "kill"
    BY <1>3, <1>4 DEF AbsPc
<1>8. AbsTarget(c)' = target
    <2>1. AbsRegistry \in AbsAlive <=> file \cap leaders # {}
        BY StatusAgrees DEF StatusRunning, RegisteredRunning
    <2>2. \A d \in Cmds : file \cap Started(d) = {} \/ file = Started(d)
        BY AliveFacts, StartedFacts
    <2>3. \A d \in Cmds : Started(d)' = Started(d)
        BY <1>3, <1>4, StartedFacts
    <2>4. AbsTarget(c)' = IF file \cap leaders # {} THEN AbsRegistry' ELSE None
        BY <1>3, <1>4, <1>7, <2>2, <2>3 DEF AbsTarget, AbsRegistry, StackOf
    <2>5. QED
        BY <1>5, <2>1, <2>4
<1>9. AbsCmd(c)' = Ctl("kill", kind, cmd[c].cfg, target)
    BY <1>4, <1>7, <1>8 DEF AbsCmd, Ctl
<1>10. AbsCtl' = SetTarget(AbsCtl, c, "kill", target)
    <2> HIDE DEF kind, target
    <2>1. QED
        BY <1>5, <1>6, <1>9, SetTargetCtl
<1>11. AbsCtl' = [AbsCtl EXCEPT ![c].pc = "kill", ![c].target = target]
    BY <1>10, Zenon DEF SetTarget
<1>12. AbsCtl[c].pc = "read"
    BY <1>5, <1>6 DEF Ctl
<1>13. R!CtlReadRegistry(c)
    <2>1. AbsCtl' = [AbsCtl EXCEPT ![c].pc = "kill",
                                   ![c].target = IF R!StatusRunning THEN AbsRegistry ELSE None]
        BY <1>11, Zenon DEF R!StatusRunning
    <2>2. QED
        BY <1>3, <1>5, <1>12, <2>1 DEF R!CtlReadRegistry
<1>14. cmd'[c] # cmd[c]
    BY <1>1, <1>4
<1>15. QED
    BY <1>13, <1>14 DEF R!CtlStep

\* Nothing that shows is touched.
LEMMA UnseenView ==
    ASSUME UNCHANGED <<file, leaders, cmd>>
    PROVE  UNCHANGED <<AbsRegistry, AbsAlive, AbsCtl>>
<1>1. \A c \in Cmds : AbsCmd(c)' = AbsCmd(c)
    BY DEF AbsCmd, AbsPc, AbsTarget, StackOf, Started
<1>2. AbsCtl' = AbsCtl
    BY <1>1, AbsCtlIs
<1>3. QED
    BY <1>2 DEF AbsRegistry, AbsAlive, StackOf, InFlight, Newest

\* A component that is not registered yet does not show.
LEMMA SpawnView ==
    ASSUME Typed, GroupsInv, [Next]_vars, ~BlindSpot, NEW c \in Cmds, Spawn(c)
    PROVE  AbsEnvironment
<1> USE DEF world, history
<1>1. /\ cmd[c] \in CmdRecords /\ cmd[c].pc = "spawn" /\ cmd[c].next <= Len(Components)
    BY DEF Spawn, Moves, Typed, Cmd, Sound
<1>2. /\ leaders' = leaders \cup {Newest(c)} /\ UNCHANGED <<file, active>>
      /\ \A d \in Cmds : d # c => cmd'[d] = cmd[d]
      /\ cmd'[c] = [cmd[c] EXCEPT !.pc = "register"]
    BY DEF Spawn, Moves, Typed, Cmd
<1>3. /\ cmd'[c].pc = "register" /\ cmd'[c].cfg = cmd[c].cfg /\ cmd'[c].next = cmd[c].next
      /\ cmd'[c].kind = cmd[c].kind
    BY <1>1, <1>2 DEF CmdRecords
<1>4. Newest(c) \notin Started(c) /\ Newest(c)[1] = c /\ Newest(c)' = Newest(c)
    BY <1>1, <1>3, StartedFacts
<1>5. InFlight' = InFlight \cup {Newest(c)}
    <2>1. \A d \in Cmds : /\ cmd[d].pc = "register" => cmd'[d].pc = "register"
                          /\ cmd'[d].pc = "register" => cmd[d].pc = "register" \/ d = c
                          /\ Newest(d)' = Newest(d)
        BY <1>1, <1>2, <1>3, StartedFacts
    <2>2. QED
        BY <1>3, <2>1 DEF InFlight
<1>6. Newest(c) \notin leaders
    <2>1. Newest(c) \notin InFlight
        BY <1>1, <1>4, StartedFacts DEF InFlight
    <2>2. QED
        BY <1>4, <2>1, AliveFacts
<1>7. \A d \in Cmds : Newest(c) \notin cmd[d].live
    BY <1>4, AliveFacts
<1>8. UNCHANGED <<AbsRegistry, AbsAlive>> /\ \A d \in Cmds : d # c => AbsCmd(d)' = AbsCmd(d)
    BY <1>2, <1>3, <1>5, <1>6, <1>7, ViewFrame
<1>9. AbsCmd(c)' = AbsCmd(c)
    BY <1>1, <1>3 DEF AbsCmd, AbsPc, AbsTarget
<1>10. AbsCtl' = AbsCtl
    BY <1>8, <1>9, AbsCtlIs
<1>11. QED
    BY <1>2, <1>8, <1>10 DEF AbsEnvironment

\* What a termination aims at: a stack that is still all there was when the
\* registry was read.
TargetIs(c) ==
    \/ (AbsPc(c) # "kill" \/ cmd[c].live = {}) /\ AbsTarget(c) = None
    \/ /\ cmd[c].pc \in {"first", "rest"} /\ cmd[c].live \cap leaders # {}
       /\ \E e \in Cmds :
              /\ \A p \in cmd[c].listed : p[1] = e
              /\ cmd[c].listed \subseteq Started(e)
              /\ AbsTarget(c) = IF cmd[c].listed = Started(e) THEN cmd[e].cfg ELSE None

LEMMA Targets == Typed /\ GroupsInv => \A c \in Cmds : TargetIs(c)
<1> SUFFICES ASSUME Typed, GroupsInv, NEW c \in Cmds
             PROVE  TargetIs(c)
    OBVIOUS
<1>1. CASE AbsPc(c) # "kill" \/ cmd[c].live = {}
    BY <1>1 DEF TargetIs, AbsTarget
<1>2. CASE AbsPc(c) = "kill" /\ cmd[c].live # {}
    <2>1. cmd[c].pc \in {"first", "rest"} /\ cmd[c].live \cap leaders # {}
        BY <1>2 DEF AbsPc, Typed, Cmd, CmdRecords, Pcs
    <2>2. cmd[c].live \subseteq cmd[c].listed /\ cmd[c].listed \subseteq Groups
        BY DEF GroupsInv, StopInv, Typed, Cmd, CmdRecords
    <2>3. PICK q \in cmd[c].listed : TRUE
        BY <1>2, <2>2
    <2>4. PICK e \in Cmds : e = q[1]
        BY <2>2, <2>3 DEF Groups
    <2>5. (\A p \in cmd[c].listed : p[1] = e) /\ cmd[c].listed \subseteq Started(e)
        BY <2>3, <2>4 DEF GroupsInv, StopInv
    <2>6. (\A d \in Cmds : cmd[c].listed \cap Started(d) = {} \/ cmd[c].listed = Started(d))
              <=> cmd[c].listed = Started(e)
        <3>1. \A d \in Cmds : d # e => cmd[c].listed \cap Started(d) = {}
            BY <2>5, StartedFacts
        <3>2. QED
            BY <2>3, <2>5, <3>1
    <2>7. StackOf(cmd[c].listed) = cmd[e].cfg
        BY <2>3, <2>5, Owner DEF StackOf
    <2>8. QED
        BY <1>2, <2>1, <2>5, <2>6, <2>7 DEF TargetIs, AbsTarget
<1>3. QED
    BY <1>1, <1>2

LEMMA TargetsNext ==
    ASSUME Typed, GroupsInv, [Next]_vars
    PROVE  (\A c \in Cmds : TargetIs(c)) /\ (\A c \in Cmds : TargetIs(c))'
<1>1. Typed' /\ GroupsInv'
    BY TypedNext, GroupsNext
<1>2. QED
    BY <1>1, Targets, PTL

\* A launch: other terminations of that stack no longer take it all down.
LEMMA RegisterView ==
    ASSUME Typed, GroupsInv, [Next]_vars, ~BlindSpot, ~Twins, NEW c \in Cmds, Register(c)
    PROVE  cmd'[c] # cmd[c] /\ R!CtlStep(c)
<1> USE DEF world, history
<1> DEFINE g == cmd[c].cfg
           next == IF cmd'[c].pc = "spawn" THEN "launch" ELSE "attach"
<1>1. /\ cmd[c] \in CmdRecords /\ cmd[c].pc = "register" /\ cmd[c].next <= Len(Components)
      /\ g # None /\ cmd[c].next \in Nat
    BY StartedFacts DEF Register, Typed, Cmd, Sound
<1>2. /\ UNCHANGED <<leaders, active>> /\ file' = Started(c) \cup {Newest(c)}
      /\ \A d \in Cmds : d # c => cmd'[d] = cmd[d]
      /\ cmd'[c].pc \in {"spawn", "attach"} /\ cmd'[c].cfg = g /\ cmd'[c].kind = cmd[c].kind
      /\ cmd'[c].next = cmd[c].next + 1
    BY <1>1 DEF Register, Typed, Cmd, CmdRecords
<1>3. /\ Started(c)' = Started(c) \cup {Newest(c)} /\ Newest(c) \notin Started(c)
      /\ \A d \in Cmds : d # c => Started(d)' = Started(d) /\ Newest(d)' = Newest(d)
      /\ \A d \in Cmds : Newest(d)[1] = d /\ \A p \in Started(d)' : p[1] = d
    BY <1>1, <1>2, StartedFacts
<1>4. InFlight' = InFlight \ {Newest(c)} /\ Newest(c) \in leaders
    <2>1. \A d \in Cmds : cmd[d].pc = "register" /\ d # c => Newest(d) # Newest(c)
        BY <1>3
    <2>2. \A d \in Cmds : d # c => (cmd'[d].pc = "register" <=> cmd[d].pc = "register")
        BY <1>2
    <2>3. Newest(c) \in InFlight
        BY <1>1 DEF InFlight
    <2>4. InFlight' = InFlight \ {Newest(c)}
        BY <1>1, <1>2, <1>3, <2>1, <2>2 DEF InFlight
    <2>5. QED
        BY <2>3, <2>4, AliveFacts
<1>5. \A d \in Cmds : cmd'[d].cfg = cmd[d].cfg
    BY <1>2
<1>6. AbsAlive' = AbsAlive \cup {g}
    <2>1. leaders' \ InFlight' = (leaders \ InFlight) \cup {Newest(c)}
        BY <1>2, <1>4
    <2>2. \A p \in leaders : p[1] \in Cmds
        BY DEF Typed, WorldOK, Groups
    <2>3. AbsAlive' = {cmd[p[1]].cfg : p \in leaders' \ InFlight'}
        BY <1>2, <1>5, <2>2 DEF AbsAlive
    <2>4. {cmd[p[1]].cfg : p \in leaders' \ InFlight'} = {cmd[p[1]].cfg : p \in leaders \ InFlight} \cup {g}
        BY <1>3, <2>1
    <2>5. AbsAlive = {cmd[p[1]].cfg : p \in leaders \ InFlight}
        BY DEF AbsAlive
    <2>6. QED
        BY <2>3, <2>4, <2>5
<1>7. AbsRegistry' = g
    <2>1. file' # {} /\ \A p \in file' : p[1] = c
        BY <1>2, <1>3
    <2>2. QED
        BY <1>5, <2>1, Owner DEF AbsRegistry, StackOf
<1>8. ASSUME NEW d \in Cmds, d # c
      PROVE  /\ AbsPc(d)' = AbsPc(d)
             /\ AbsTarget(d)' = IF AbsTarget(d) = g THEN None ELSE AbsTarget(d)
    <2>1. cmd'[d] = cmd[d] /\ AbsPc(d)' = AbsPc(d)
        BY <1>2, <1>8 DEF AbsPc
    <2>2. TargetIs(d) /\ TargetIs(d)'
        BY TargetsNext
    <2>3. CASE AbsPc(d) # "kill" \/ cmd[d].live = {}
        BY <2>1, <2>2, <2>3 DEF TargetIs, AbsTarget
    <2>4. CASE ~(AbsPc(d) # "kill" \/ cmd[d].live = {})
        <3>1. PICK e \in Cmds :
                  /\ \A p \in cmd[d].listed : p[1] = e
                  /\ cmd[d].listed \subseteq Started(e)
                  /\ AbsTarget(d) = IF cmd[d].listed = Started(e) THEN cmd[e].cfg ELSE None
            BY <2>2, <2>4 DEF TargetIs
        <3>2. PICK e2 \in Cmds :
                  /\ \A p \in cmd[d].listed : p[1] = e2
                  /\ AbsTarget(d)' = IF cmd[d].listed = Started(e2)' THEN cmd[e2].cfg ELSE None
            BY <1>5, <2>1, <2>2, <2>4 DEF TargetIs
        <3>3. PICK q \in cmd[d].listed \cap leaders : TRUE
            BY <2>2, <2>4, AliveFacts DEF TargetIs
        <3>4. q[1] = e /\ e2 = e /\ Started(e2)' = Started(e)'
            BY <3>1, <3>2, <3>3 DEF Started
        <3>5. CASE e = c
            <4>1. Started(e2)' = Started(c)' /\ Started(e) = Started(c)
                BY <3>4, <3>5 DEF Started
            <4>2. cmd[d].listed # Started(c)'
                BY <1>3, <3>1, <4>1
            <4>3. cmd[d].listed # Started(e2)'
                BY <4>1, <4>2
            <4>4. AbsTarget(d)' = None
                BY <3>2, <4>3
            <4>5. AbsTarget(d) \in {None, cmd[e].cfg}
                BY <3>1
            <4>6. cmd[e].cfg = g
                BY <3>5
            <4>7. QED
                BY <2>1, <4>4, <4>5, <4>6
        <3>6. CASE e # c
            <4>1. cmd[e].cfg # g
                BY <1>3, <1>4, <3>3, <3>4, <3>6 DEF Twins
            <4>2. Started(e2)' = Started(e) /\ cmd[e2].cfg = cmd[e].cfg
                BY <1>3, <3>4, <3>6
            <4>3. AbsTarget(d)' = AbsTarget(d) /\ AbsTarget(d) # g
                BY <1>1, <3>1, <3>2, <4>1, <4>2
            <4>4. QED
                BY <2>1, <4>3
        <3>7. QED
            BY <3>5, <3>6
    <2>5. QED
        BY <2>1, <2>3, <2>4
<1>9. AbsCtl[c] = AbsCmd(c) /\ AbsCtl'[c] = AbsCmd(c)' /\ DOMAIN AbsCtl = Cmds /\ DOMAIN AbsCtl' = Cmds
    BY AbsCtlIs
<1>10. AbsCtl[c].pc = "launch" /\ AbsCtl[c].cfg = g
    BY <1>1, <1>9 DEF AbsCmd, AbsPc
<1> DEFINE new(d) == IF d = c THEN [AbsCtl[d] EXCEPT !.pc = next]
                     ELSE IF AbsCtl[d].target = AbsCtl[c].cfg THEN [AbsCtl[d] EXCEPT !.target = None]
                     ELSE AbsCtl[d]
<1>11. AbsCmd(c)' = new(c)
    <2>1. AbsPc(c) = "launch" /\ AbsPc(c)' = next
        BY <1>1, <1>2 DEF AbsPc
    <2>2. AbsTarget(c) = None /\ AbsTarget(c)' = None
        BY <2>1 DEF AbsTarget
    <2>3. AbsCmd(c)' = [AbsCmd(c) EXCEPT !.pc = next]
        BY <1>2, <2>1, <2>2 DEF AbsCmd
    <2>4. QED
        BY <1>9, <2>3
<1>12. ASSUME NEW d \in Cmds, d # c
       PROVE  AbsCmd(d)' = new(d)
    <2>1. AbsCtl[d] = AbsCmd(d) /\ AbsCtl[d].target = AbsTarget(d)
        BY AbsCtlIs DEF AbsCmd
    <2>2. cmd'[d] = cmd[d]
        BY <1>2, <1>12
    <2>3. CASE AbsTarget(d) = g
        <3>1. AbsCmd(d)' = [AbsCmd(d) EXCEPT !.target = None]
            BY <1>8, <1>12, <2>2, <2>3 DEF AbsCmd
        <3>2. QED
            BY <1>10, <1>12, <2>1, <2>3, <3>1
    <2>4. CASE AbsTarget(d) # g
        <3>1. AbsCmd(d)' = AbsCmd(d)
            BY <1>8, <1>12, <2>2, <2>4 DEF AbsCmd
        <3>2. QED
            BY <1>10, <1>12, <2>1, <2>4, <3>1
    <2>5. QED
        BY <2>3, <2>4
<1>13. AbsCtl' = [d \in Cmds |-> new(d)]
    <2>1. \A d \in Cmds : AbsCmd(d)' = new(d)
        BY <1>11, <1>12
    <2> HIDE DEF new
    <2>2. QED
        BY <2>1, AbsCtlIs
<1>14. next \in {"launch", "attach"}
    OBVIOUS
<1>15. R!CtlLaunch(c)
    BY <1>2, <1>6, <1>7, <1>10, <1>13, <1>14 DEF R!CtlLaunch
<1>16. cmd'[c] # cmd[c]
    BY <1>1, <1>2
<1>17. QED
    BY <1>15, <1>16 DEF R!CtlStep

\* Processes end, and with them a batch of a stop at most.
LEMMA EndingsView ==
    ASSUME Typed, GroupsInv, [Next]_vars, ~BlindSpot, ~Twins, UNCHANGED <<file, active>>,
           leaders' \subseteq leaders,
           \A d \in Cmds :
               \/ cmd'[d] = cmd[d]
               \/ /\ \/ cmd[d].pc = "first" /\ cmd'[d].pc = "rest"
                     \/ cmd[d].pc = "rest" /\ cmd'[d].pc = "unlink" /\ cmd[d].live \cap leaders' = {}
                  /\ cmd'[d].kind = cmd[d].kind /\ cmd'[d].cfg = cmd[d].cfg
                  /\ cmd'[d].next = cmd[d].next
                  /\ cmd'[d].listed = cmd[d].listed /\ cmd'[d].live = cmd[d].live
    PROVE  AbsTerminations
<1>1. \A d \in Cmds : /\ cmd'[d].kind = cmd[d].kind /\ cmd'[d].cfg = cmd[d].cfg
                      /\ cmd'[d].next = cmd[d].next
                      /\ cmd'[d].listed = cmd[d].listed /\ cmd'[d].live = cmd[d].live
    OBVIOUS
<1>2. \A d \in Cmds : Started(d)' = Started(d) /\ Newest(d)' = Newest(d)
    BY <1>1, StartedFacts
<1>3. InFlight' = InFlight
    <2>1. \A d \in Cmds : cmd'[d].pc = "register" <=> cmd[d].pc = "register"
        OBVIOUS
    <2>2. QED
        BY <1>2, <2>1 DEF InFlight
<1>4. AbsRegistry' = AbsRegistry
    <2>1. \A p \in file : p[1] \in Cmds
        BY AliveFacts
    <2>2. QED
        BY <1>1, <2>1, SameStack DEF AbsRegistry
<1>5. \A d \in Cmds :
          /\ AbsCtl[d] = AbsCmd(d) /\ AbsCtl[d].pc = AbsPc(d) /\ AbsCtl[d].target = AbsTarget(d)
          /\ AbsCtl'[d] = AbsCmd(d)' /\ AbsCtl'[d].pc = AbsPc(d)'
    BY AbsFields
<1>6. ASSUME NEW d \in Cmds
      PROVE  /\ AbsPc(d) # "kill" => AbsPc(d)' = AbsPc(d)
             /\ AbsPc(d) = "kill" => AbsPc(d)' \in {"kill", "unlink"}
             /\ AbsPc(d) = "kill" /\ AbsPc(d)' = "unlink" => cmd[d].live \cap leaders' = {}
    <2>1. cmd[d].live' = cmd[d].live
        BY <1>1, <1>6
    <2>2. CASE cmd'[d] = cmd[d]
        <3>1. CASE cmd[d].pc \in {"first", "rest"}
            BY <2>2, <3>1 DEF AbsPc
        <3>2. CASE cmd[d].pc \notin {"first", "rest"}
            <4>1. AbsPc(d)' = AbsPc(d)
                BY <2>2, <3>2 DEF AbsPc
            <4>2. AbsPc(d) # "kill"
                BY <3>2 DEF AbsPc, Typed, Cmd, CmdRecords, Pcs
            <4>3. QED
                BY <4>1, <4>2
        <3>3. QED
            BY <3>1, <3>2
    <2>3. CASE cmd[d].pc = "first" /\ cmd'[d].pc = "rest"
        BY <2>1, <2>3 DEF AbsPc
    <2>4. CASE cmd[d].pc = "rest" /\ cmd'[d].pc = "unlink" /\ cmd[d].live \cap leaders' = {}
        BY <2>1, <2>4 DEF AbsPc
    <2>5. QED
        BY <1>6, <2>2, <2>3, <2>4
<1> DEFINE done == {c \in Cmds : AbsCtl[c].pc = "kill" /\ AbsCtl'[c].pc = "unlink"}
<1>7. ASSUME NEW d \in Cmds
      PROVE  d \in done <=> AbsPc(d) = "kill" /\ AbsPc(d)' = "unlink"
    BY <1>5, <1>7
<1> HIDE DEF done
<1>8. ASSUME NEW d \in Cmds
      PROVE  AbsCmd(d)' = IF d \in done THEN Terminated(AbsCmd(d)) ELSE AbsCmd(d)
    <2>1. StackOf(cmd[d].listed)' = StackOf(cmd[d].listed)
        <3>1. \A p \in cmd[d].listed : p[1] \in Cmds
            BY AliveFacts
        <3>2. QED
            BY <1>1, <3>1, SameStack
    <2>2. CASE d \in done
        <3>1. AbsPc(d) = "kill" /\ AbsPc(d)' = "unlink" /\ AbsTarget(d)' = None
            BY <1>7, <2>2 DEF AbsTarget
        <3>2. AbsCmd(d) = Ctl("kill", IF cmd[d].kind = "stop" THEN "stop" ELSE "start",
                              cmd[d].cfg, AbsTarget(d))
            BY <3>1 DEF AbsCmd, Ctl
        <3>3. AbsCmd(d)' = Ctl("unlink", IF cmd[d].kind = "stop" THEN "stop" ELSE "start",
                               cmd[d].cfg, None)
            BY <1>1, <3>1 DEF AbsCmd, Ctl
        <3>4. QED
            BY <2>2, <3>2, <3>3, TerminatedCtl
    <2>3. CASE d \notin done
        <3>1. AbsPc(d)' = AbsPc(d)
            BY <1>6, <1>7, <2>3
        <3>2. AbsTarget(d)' = AbsTarget(d)
            BY <1>1, <1>2, <2>1, <3>1 DEF AbsTarget
        <3>3. AbsCmd(d)' = AbsCmd(d)
            BY <1>1, <3>1, <3>2 DEF AbsCmd
        <3>4. QED
            BY <2>3, <3>3
    <2>4. QED
        BY <2>2, <2>3
<1>9. AbsCtl' = [c \in Cmds |-> IF c \in done THEN Terminated(AbsCtl[c]) ELSE AbsCtl[c]]
    BY <1>5, <1>8, AbsCtlIs
<1>10. AbsAlive' \subseteq AbsAlive \ {AbsCtl[c].target : c \in done}
    <2>1. \A p \in leaders : p[1] \in Cmds
        BY DEF Typed, WorldOK, Groups
    <2>2. AbsAlive' = {cmd[p[1]].cfg : p \in leaders' \ InFlight}
        BY <1>1, <1>3, <2>1 DEF AbsAlive
    <2>3. AbsAlive' \subseteq AbsAlive
        BY <2>2 DEF AbsAlive
    <2>4. SUFFICES ASSUME NEW p \in leaders' \ InFlight, NEW d \in done,
                          cmd[p[1]].cfg = AbsCtl[d].target
                   PROVE  FALSE
        BY <2>2, <2>3
    <2>5. d \in Cmds /\ AbsPc(d) = "kill" /\ AbsPc(d)' = "unlink"
        BY <1>7 DEF done
    <2>6. AbsCtl[d].target = AbsTarget(d) /\ cmd[d].live \cap leaders' = {}
        BY <1>5, <1>6, <2>5
    <2>7. p \in Started(p[1]) /\ p[1] \in Cmds /\ cmd[p[1]].cfg # None
        BY AliveFacts, StartedFacts DEF GroupsInv, NamedInv
    <2>8. PICK e \in Cmds :
              /\ \A q \in cmd[d].listed : q[1] = e
              /\ AbsTarget(d) = IF cmd[d].listed = Started(e) THEN cmd[e].cfg ELSE None
        BY <2>4, <2>5, <2>6, <2>7, TargetsNext DEF TargetIs
    <2>9. PICK q \in cmd[d].live \cap leaders : cmd[d].pc \in {"first", "rest"} /\ q[1] = e
        BY <2>4, <2>5, <2>6, <2>7, <2>8, TargetsNext, AliveFacts DEF TargetIs
    <2>10. cmd[d].listed = Started(e) /\ cmd[p[1]].cfg = cmd[e].cfg
        BY <2>4, <2>6, <2>7, <2>8
    <2>11. CASE p[1] = e
        <3>1. p \in cmd[d].listed \cap leaders
            BY <2>4, <2>7, <2>10, <2>11
        <3>2. p \in cmd[d].live
            BY <2>5, <2>9, <3>1 DEF GroupsInv, StopInv
        <3>3. QED
            BY <2>4, <2>6, <3>2
    <2>12. CASE p[1] # e
        BY <2>4, <2>9, <2>10, <2>12 DEF Twins
    <2>13. QED
        BY <2>11, <2>12
<1>11. QED
    BY <1>4, <1>9, <1>10 DEF AbsTerminations, Terminated, done

\* One group ends, by a signal or a crash.
LEMMA EndsView ==
    ASSUME Typed, GroupsInv, [Next]_vars, ~BlindSpot, ~Twins,
           \/ \E c \in Cmds, p \in Groups : Ends(c, p)
           \/ \E p \in Groups : ComponentCrashes(p)
    PROVE  AbsTerminations
<1>1. UNCHANGED <<file, active, cmd>> /\ leaders' \subseteq leaders
    BY DEF Ends, ComponentCrashes
<1>2. QED
    BY <1>1, EndingsView

\* The rest of a batch is killed.
LEMMA EndBatchView ==
    ASSUME Typed, GroupsInv, [Next]_vars, ~BlindSpot, ~Twins, NEW c \in Cmds, EndBatch(c)
    PROVE  AbsTerminations
<1>1. /\ UNCHANGED <<file, active>> /\ leaders' = leaders \ Batch(c)
      /\ cmd \in [Cmds -> CmdRecords] /\ cmd[c] \in CmdRecords
    BY DEF EndBatch, Typed, Cmd
<1>2. ASSUME NEW from, NEW to, Moves(c, from, to)
      PROVE  /\ \A d \in Cmds : d # c => cmd'[d] = cmd[d]
             /\ cmd[c].pc = from /\ cmd'[c].pc = to
             /\ cmd'[c].kind = cmd[c].kind /\ cmd'[c].cfg = cmd[c].cfg /\ cmd'[c].next = cmd[c].next
             /\ cmd'[c].listed = cmd[c].listed /\ cmd'[c].live = cmd[c].live
    BY <1>1, <1>2 DEF Moves, CmdRecords
<1>3. CASE Moves(c, "first", "rest")
    <2>1. cmd[c].pc = "first" /\ cmd'[c].pc = "rest"
        BY <1>2, <1>3
    <2>2. QED
        BY <1>1, <1>2, <1>3, <2>1, EndingsView
<1>4. CASE Moves(c, "rest", "unlink")
    <2>1. cmd[c].pc = "rest" /\ cmd'[c].pc = "unlink"
        BY <1>2, <1>4
    <2>2. \A p \in cmd[c].live \cap leaders : p \in Batch(c)
        BY <2>1 DEF GroupsInv, StopInv, Batch
    <2>3. cmd[c].live \cap leaders' = {}
        BY <1>1, <2>2
    <2>4. QED
        BY <1>1, <1>2, <1>4, <2>1, <2>3, EndingsView
<1>5. QED
    BY <1>3, <1>4 DEF EndBatch

\* stop() ends: a failed start answers with an error, recover_ue starts again.
LEMMA UnlinkView ==
    ASSUME Typed, GroupsInv, [Next]_vars, ~BlindSpot, NEW c \in Cmds, Unlink(c)
    PROVE  (cmd'[c] # cmd[c] /\ R!CtlStep(c)) \/ AbsRebuilds
<1> USE DEF world, history
<1> DEFINE to == CASE cmd[c].kind = "recover" -> "load"
                   [] cmd[c].kind = "start"   -> "err"
                   [] cmd[c].kind = "stop"    -> "ok"
           kind == IF cmd[c].kind = "stop" THEN "stop" ELSE "start"
<1>1. cmd[c] \in CmdRecords /\ cmd[c].kind \in Kinds /\ cmd[c].pc = "unlink"
    BY DEF Unlink, Typed, Cmd, CmdRecords
<1>2. /\ file' = {} /\ leaders' = leaders /\ \A d \in Cmds : d # c => cmd'[d] = cmd[d]
      /\ active' = IF cmd[c].kind = "recover" THEN active ELSE None
      /\ cmd'[c].pc = to /\ cmd'[c].kind = IF cmd[c].kind = "recover" THEN "start" ELSE cmd[c].kind
      /\ cmd'[c].cfg = cmd[c].cfg /\ cmd'[c].next = cmd[c].next
      /\ cmd'[c].listed = {} /\ cmd'[c].live = {}
    BY <1>1 DEF Unlink, Typed, Cmd, CmdRecords
<1>3. to \in {"load", "err", "ok"}
    BY <1>1 DEF Kinds
<1> HIDE DEF to
<1>4. InFlight' = InFlight
    <2>1. \A d \in Cmds : /\ cmd'[d].pc = "register" <=> cmd[d].pc = "register"
                          /\ Newest(d)' = Newest(d)
        BY <1>1, <1>2, <1>3, StartedFacts
    <2>2. QED
        BY <2>1 DEF InFlight
<1>5. AbsRegistry' = None
    BY <1>2 DEF AbsRegistry, StackOf
<1>6. \A d \in Cmds : cmd'[d].cfg = cmd[d].cfg
    BY <1>2
<1>7. AbsAlive' = AbsAlive
    <2>1. \A p \in leaders : p[1] \in Cmds
        BY DEF Typed, WorldOK, Groups
    <2>2. QED
        BY <1>2, <1>4, <1>6, <2>1 DEF AbsAlive
<1>8. ASSUME NEW d \in Cmds, d # c
      PROVE  AbsCmd(d)' = AbsCmd(d)
    <2>1. cmd'[d] = cmd[d]
        BY <1>2, <1>8
    <2>2. AbsPc(d)' = AbsPc(d)
        BY <1>2, <2>1 DEF AbsPc
    <2>3. StackOf(cmd[d].listed)' = StackOf(cmd[d].listed)
        <3>1. \A p \in cmd[d].listed : p[1] \in Cmds
            BY AliveFacts
        <3>2. QED
            BY <1>6, <2>1, <3>1, SameStack
    <2>4. \A e \in Cmds : Started(e)' = Started(e)
        BY <1>2, StartedFacts
    <2>5. AbsTarget(d)' = AbsTarget(d)
        BY <2>1, <2>2, <2>3, <2>4 DEF AbsTarget
    <2>6. QED
        BY <2>1, <2>2, <2>5 DEF AbsCmd
<1>9. AbsCmd(c) = Ctl("unlink", kind, cmd[c].cfg, None)
    BY <1>1 DEF AbsCmd, AbsPc, AbsTarget, Ctl
<1>10. AbsCmd(c)' = Ctl(to, kind, cmd[c].cfg, None)
    <2>1. AbsPc(c)' = to
        BY <1>2, <1>3 DEF AbsPc
    <2>2. AbsTarget(c)' = None
        BY <1>3, <2>1 DEF AbsTarget
    <2>3. QED
        BY <1>1, <1>2, <1>3, <2>1, <2>2 DEF AbsCmd, Ctl, Kinds
<1>11. AbsCtl' = [AbsCtl EXCEPT ![c] = AbsCmd(c)'] /\ AbsCtl[c] = AbsCmd(c) /\ DOMAIN AbsCtl = Cmds
    BY <1>8, AbsCtlIs
<1>12. AbsCtl' = SetPc(AbsCtl, c, to)
    <2> HIDE DEF kind
    <2>1. QED
        BY <1>9, <1>10, <1>11, SetPcCtl
<1>13. AbsCtl[c].pc = "unlink" /\ AbsCtl[c].kind = kind /\ AbsCtl' = [AbsCtl EXCEPT ![c].pc = to]
    <2>1. AbsCtl[c].pc = "unlink" /\ AbsCtl[c].kind = kind
        BY <1>9, <1>11 DEF Ctl
    <2>2. AbsCtl' = [AbsCtl EXCEPT ![c].pc = to]
        BY <1>12, Zenon DEF SetPc
    <2>3. QED
        BY <2>1, <2>2
<1>14. CASE cmd[c].kind = "recover"
    <2>1. to = "load"
        BY <1>14 DEF to
    <2>2. AbsCtl' = [AbsCtl EXCEPT ![c].pc = "load"] /\ UNCHANGED <<active, AbsAlive>>
        BY <1>2, <1>7, <1>13, <1>14, <2>1
    <2>3. QED
        BY <1>5, <1>13, <2>2 DEF AbsRebuilds, R!CtlMoves
<1>15. CASE cmd[c].kind # "recover"
    <2>1. to = IF AbsCtl[c].kind = "start" THEN "err" ELSE "ok"
        BY <1>1, <1>13, <1>15 DEF to, Kinds
    <2>2. AbsCtl' = [AbsCtl EXCEPT ![c].pc = IF AbsCtl[c].kind = "start" THEN "err" ELSE "ok"]
        BY <1>13, <2>1
    <2>3. active' = None
        BY <1>2, <1>15
    <2>4. R!CtlUnlink(c)
        BY <1>5, <1>7, <1>13, <2>2, <2>3 DEF R!CtlUnlink, R!CtlMoves
    <2>5. cmd'[c] # cmd[c]
        BY <1>1, <1>2, <1>3
    <2>6. QED
        BY <2>4, <2>5 DEF R!CtlStep
<1>16. QED
    BY <1>14, <1>15

\* A reboot takes every process and every command.
LEMMA RebootView ==
    ASSUME Typed, GroupsInv, [Next]_vars, ~BlindSpot, HostReboots
    PROVE  AbsEnvironment
<1>1. /\ UNCHANGED <<file, active>> /\ leaders' = {}
      /\ cmd' = [c \in Cmds |-> IF Busy(c) THEN [cmd[c] EXCEPT !.pc = "gone"] ELSE cmd[c]]
    BY DEF HostReboots
<1>2. \A c \in Cmds : cmd'[c].cfg = cmd[c].cfg
    BY <1>1 DEF Typed, Cmd, CmdRecords
<1>3. AbsAlive' = {}
    BY <1>1 DEF AbsAlive
<1>4. AbsRegistry' = AbsRegistry
    <2>1. \A p \in file : p[1] \in Cmds
        BY AliveFacts
    <2>2. QED
        BY <1>1, <1>2, <2>1, SameStack DEF AbsRegistry
<1>5. ASSUME NEW c \in Cmds
      PROVE  AbsCtl'[c] = AbsCtl[c] \/ AbsCtl'[c].pc = "idle"
    <2>1. CASE Busy(c)
        <3>1. cmd'[c].pc = "gone"
            BY <1>1, <2>1 DEF Typed, Cmd, CmdRecords
        <3>2. AbsPc(c)' = "idle"
            BY <3>1 DEF AbsPc
        <3>3. QED
            BY <3>2, AbsFields
    <2>2. CASE ~Busy(c)
        <3>1. cmd'[c] = cmd[c] /\ cmd[c].pc \in {"idle", "ok", "err", "gone"}
            BY <1>1, <2>2 DEF Busy
        <3>2. AbsPc(c)' = AbsPc(c) /\ AbsPc(c) # "kill"
            BY <3>1 DEF AbsPc
        <3>3. AbsCmd(c)' = AbsCmd(c)
            BY <3>1, <3>2 DEF AbsCmd, AbsTarget
        <3>4. QED
            BY <3>3, AbsFields
    <2>3. QED
        BY <2>1, <2>2
<1>6. QED
    BY <1>1, <1>3, <1>4, <1>5 DEF AbsEnvironment

\* What the disjuncts of ImplementsController promise about a step.
AbsStep ==
    \/ \E c \in Cmds : cmd'[c] # cmd[c] /\ R!CtlStep(c)
    \/ AbsTerminations \/ AbsRebuilds \/ AbsEnvironment

\* The refinement, for one step.
LEMMA ViewNext ==
    ASSUME Typed, GroupsInv, [Next]_vars, ~BlindSpot', ~Twins
    PROVE  AbsStep \/ UNCHANGED absvars
<1>1. ~BlindSpot
    BY FaultsStay DEF BlindSpot
<1>2. ASSUME NEW c \in Cmds, CmdStep(c)
      PROVE  AbsStep
    BY <1>1, <1>2, LoadView, MovesView, SpawnView, RegisterView, ReadRegistryView, EndBatchView,
       UnlinkView, RecoverLoadsView, LoadRaisesView DEF CmdStep, AbsStep
<1>3. ASSUME NEW c \in Cmds, RegisterFails(c)
      PROVE  FALSE
    BY <1>3 DEF RegisterFails, Fault, BlindSpot
<1>4. ASSUME NEW p \in Groups, WrapperDies(p)
      PROVE  FALSE
    BY <1>4 DEF WrapperDies, Fault, BlindSpot
<1>5. ASSUME NEW r \in Runs, Configure(r)
      PROVE  AbsStep
    BY <1>5, UnseenView DEF Configure, world, AbsEnvironment, AbsStep
<1>6. CASE UNCHANGED vars
    BY <1>6, UnseenView DEF vars, absvars
<1>7. QED
    BY <1>1, <1>2, <1>3, <1>4, <1>5, <1>6, IssueView, EndsView, RebootView DEF Next, Kinds, AbsStep

------------------------------------------------------------------------------
(* The theorems.                                                            *)

\* Everything about Spec that the theorems below need, in one invariant.
LabInv == Typed /\ ForeignInv /\ AloneInv /\ RecoverInv /\ LeakInv

LEMMA LabInvInit ==
    ASSUME Init
    PROVE  LabInv
<1>1. Typed
    BY TypedInit
<1>2. /\ file = {} /\ leaders = {} /\ children = {} /\ foreign = {}
      /\ \A c \in Cmds : cmd[c] = IdleCmd
    BY DEF Init
<1>3. \A c \in Cmds : /\ cmd[c].pc = "idle" /\ cmd[c].kind = "start"
                      /\ cmd[c].cfg = None /\ cmd[c].want = None /\ ~Busy(c)
    BY <1>2 DEF IdleCmd, Busy
<1>4. ForeignInv
    BY <1>2, <1>3 DEF ForeignInv
<1>5. AloneInv
    BY <1>3 DEF AloneInv, Alone
<1>6. RecoverInv
    BY <1>3 DEF RecoverInv, Recovers, ToLoad
<1>7. LeakInv
    BY <1>2, <1>3, NotBusy DEF LeakInv, Tracked, GroupsAlive
<1>8. QED
    BY <1>1, <1>4, <1>5, <1>6, <1>7 DEF LabInv

LEMMA LabInvAlways == Spec => []LabInv
<1>1. LabInv /\ [Next]_vars => LabInv'
    BY TypedNext, ForeignNext, AloneNext, RecoverNext, LeakNext DEF LabInv
<1>2. QED
    BY <1>1, LabInvInit, PTL DEF Spec

\* Files, processes and commands stay in their domains, and a command that
\* launches a component has a configuration and a component left to launch.
THEOREM TypeCorrect == Spec => []TypeOK
<1>1. LabInv => TypeOK
    BY TypedMeansTypeOK DEF LabInv
<1>2. QED
    BY <1>1, LabInvAlways, PTL

\* Every process of the stack can be found in processes.json by the next stop,
\* unless commands have overlapped or the registry could not know about it.
THEOREM NothingIsLeaked == Spec => []NothingLeaks
<1>1. LabInv => NothingLeaks
    BY DEF LabInv, LeakInv, Tracked, NothingLeaks
<1>2. QED
    BY <1>1, LabInvAlways, PTL

\* recover_ue starts the configuration it has stopped.
THEOREM RecoveryKeepsTheRun == Spec => []RecoversSameRun
<1>1. LabInv => RecoversSameRun
    BY DEF LabInv, RecoverInv, Recovers, RecoversSameRun
<1>2. QED
    BY <1>1, LabInvAlways, PTL

\* The pid of another program is never signalled, after a reboot or at all,
\* however many commands overlap.
THEOREM ForeignPidsAreSpared == Spec => ForeignSpared
<1>1. LabInv /\ [Next]_vars =>
          [foreign \subseteq foreign' \/ ("reboot" \in FaultKinds /\ faults' # faults)]_vars
    BY ForeignStep DEF LabInv
<1>2. QED
    BY <1>1, LabInvAlways, PTL DEF Spec, ForeignSpared

\* Every step of this controller is a step of the controllers of RunLifecycle or
\* of their environment, or invisible there: for any number of commands and
\* components, however commands overlap and fail, as long as each configuration is
\* up once and the registry can know its processes.
THEOREM ControllerIsImplemented == Spec => ImplementsController
<1>1. Typed /\ GroupsInv /\ [Next]_vars => (Typed /\ GroupsInv)'
    BY TypedNext, GroupsNext
<1>2. Init => Typed /\ GroupsInv
    BY TypedInit, GroupsInit
<1>3. Typed /\ GroupsInv /\ [Next]_vars =>
          [ \/ BlindSpot' \/ Twins \/ Twins'
            \/ \E c \in Cmds : cmd'[c] # cmd[c] /\ R!CtlStep(c)
            \/ AbsTerminations \/ AbsRebuilds \/ AbsEnvironment ]_absvars
    BY ViewNext DEF AbsStep
<1>4. QED
    BY <1>1, <1>2, <1>3, PTL DEF Spec, ImplementsController
==============================================================================
