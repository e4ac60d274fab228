---------------------------- MODULE AdmissionProofs ----------------------------
(***************************************************************************)
(* Proofs about Admission for every finite set of slots and any number of  *)
(* identifiers and starts.                                                 *)
(***************************************************************************)
EXTENDS Admission, FiniteSetTheorems, TLAPS

------------------------------------------------------------------------------
(* Positions: the slots of a run are counted from 1 to N.                   *)

UpTo(s) == {t \in Enabled : t <= s}
Before(s) == {t \in Enabled : t < s}

LEMMA SlotsAreNat == \A t \in Enabled : t \in Nat /\ t # 0
BY SlotsAreNumbers

LEMMA PositionType ==
    /\ N \in Nat \ {0}
    /\ \A s \in Enabled : Position(s) \in 1 .. N
<1>1. N \in Nat \ {0}
    BY SlotsAreNumbers, FS_CardinalityType, FS_EmptySet DEF N
<1>2. ASSUME NEW s \in Enabled
      PROVE  Position(s) \in 1 .. N
    <2>1. UpTo(s) \in SUBSET Enabled /\ s \in UpTo(s)
        BY SlotsAreNat DEF UpTo
    <2>2. IsFiniteSet(UpTo(s)) /\ Cardinality(UpTo(s)) <= N
        BY <2>1, SlotsAreNumbers, FS_Subset DEF N
    <2>3. Cardinality(UpTo(s)) \in Nat \ {0}
        BY <2>1, <2>2, FS_CardinalityType, FS_EmptySet
    <2>4. QED
        BY <1>1, <2>2, <2>3 DEF Position, UpTo
<1>3. QED
    BY <1>1, <1>2

\* No two slots have the same position.
LEMMA PositionInjective ==
    ASSUME NEW s \in Enabled, NEW t \in Enabled, Position(s) = Position(t)
    PROVE  s = t
<1>1. ASSUME NEW u \in Enabled, NEW v \in Enabled, u < v, Position(u) = Position(v)
      PROVE  FALSE
    <2>1. UpTo(v) \in SUBSET Enabled /\ UpTo(u) \in SUBSET UpTo(v) /\ v \in UpTo(v) /\ v \notin UpTo(u)
        BY <1>1, SlotsAreNat DEF UpTo
    <2>2. IsFiniteSet(UpTo(v))
        BY <2>1, SlotsAreNumbers, FS_Subset
    <2>3. Cardinality(UpTo(u)) = Cardinality(UpTo(v))
        BY <1>1 DEF Position, UpTo
    <2>4. UpTo(v) = UpTo(u)
        BY <2>1, <2>2, <2>3, FS_Subset
    <2>5. QED
        BY <2>1, <2>4
<1>2. s \in Nat /\ t \in Nat
    BY SlotsAreNumbers
<1>3. CASE s < t
    BY <1>1, <1>3
<1>4. CASE t < s
    BY <1>1, <1>4
<1>5. QED
    BY <1>2, <1>3, <1>4

LEMMA NthOfPosition ==
    ASSUME NEW s \in Enabled
    PROVE  Nth(Position(s)) = s
<1>1. \E t \in Enabled : Position(t) = Position(s)
    OBVIOUS
<1>2. Nth(Position(s)) \in Enabled /\ Position(Nth(Position(s))) = Position(s)
    BY <1>1 DEF Nth
<1>3. QED
    BY <1>2, PositionInjective

\* A position says how many slots come before.
LEMMA BeforePosition ==
    ASSUME NEW s \in Enabled
    PROVE  /\ Cardinality(Before(s)) = Position(s) - 1
           /\ \A t \in Before(s) : Position(t) < Position(s)
<1>1. /\ Before(s) \in SUBSET Enabled /\ s \notin Before(s)
      /\ UpTo(s) = Before(s) \cup {s} /\ UpTo(s) \in SUBSET Enabled
    BY SlotsAreNat DEF Before, UpTo
<1>2. IsFiniteSet(Before(s)) /\ IsFiniteSet(UpTo(s))
    BY <1>1, SlotsAreNumbers, FS_Subset
<1>3. Cardinality(Before(s)) \in Nat /\ Cardinality(Before(s) \cup {s}) = Cardinality(Before(s)) + 1
    BY <1>1, <1>2, FS_CardinalityType, FS_AddElement
<1>4. Position(s) = Cardinality(UpTo(s))
    BY DEF Position, UpTo
<1>5. ASSUME NEW t \in Before(s)
      PROVE  Position(t) < Position(s)
    <2>1. t \in Enabled /\ t # s /\ UpTo(t) \in SUBSET UpTo(s)
        BY SlotsAreNat DEF Before, UpTo
    <2>2. Cardinality(UpTo(t)) <= Cardinality(UpTo(s))
        BY <1>2, <2>1, FS_Subset
    <2>3. Position(t) <= Position(s) /\ Position(t) # Position(s)
        BY <1>4, <2>1, <2>2, PositionInjective DEF Position, UpTo
    <2>4. Position(t) \in Nat /\ Position(s) \in Nat
        BY <2>1, PositionType
    <2>5. QED
        BY <2>3, <2>4
<1>6. Cardinality(Before(s)) = Position(s) - 1
    <2>1. Position(s) = Cardinality(Before(s)) + 1
        BY <1>1, <1>3, <1>4
    <2>2. QED
        BY <1>3, <2>1
<1>7. QED
    BY <1>5, <1>6

\* m identifiers serve at most m slots.
LEMMA Served ==
    ASSUME NEW T, NEW m \in Nat, NEW f,
           \A t \in T : \E k \in 0 .. m - 1 : f[k] = t
    PROVE  Cardinality(T) <= m
<1> DEFINE A == {k \in 0 .. m - 1 : f[k] \in T}
           g == [k \in A |-> f[k]]
<1>1. IsFiniteSet(0 .. m - 1) /\ Cardinality(0 .. m - 1) = m
    BY FS_Interval
<1>2. A \in SUBSET (0 .. m - 1)
    OBVIOUS
<1>3. IsFiniteSet(A) /\ Cardinality(A) <= m
    BY <1>1, <1>2, FS_Subset
<1>4. g \in Surjection(A, T)
    BY DEF Surjection
<1>5. IsFiniteSet(T) /\ Cardinality(T) <= Cardinality(A)
    BY <1>3, <1>4, FS_Surjection
<1>6. Cardinality(T) \in Nat /\ Cardinality(A) \in Nat
    BY <1>3, <1>5, FS_CardinalityType
<1>7. QED
    BY <1>3, <1>5, <1>6

------------------------------------------------------------------------------
(* The inductive invariant.                                                 *)

\* Every slot before position k has attached.
Reached(k) == \A s \in Enabled : Position(s) < k => s \in log

\* What is not running, and what a start has cleared before anything runs.
Phases ==
    /\ ctl.pc \in {"off", "boot", "clean"} => broker = 0 /\ \A s \in Enabled : ue[s] = "off"
    /\ ctl.pc = "boot" => log = {}
    /\ ctl.pc \in {"boot", "ues"} => file = 1 /\ ctl.stage = 1

\* The stage is raised only past slots that have attached; the broker follows.
Stages ==
    /\ ctl.pc \in {"ues", "admit", "wait"} => Reached(ctl.stage)
    /\ ctl.pc = "admit" => file <= ctl.stage
    /\ ctl.pc = "wait" => file = ctl.stage
    /\ ctl.pc = "up" => Enabled \subseteq log
    /\ broker # 0 => Reached(broker) /\ Reached(file) /\ broker <= file

\* Identifiers are given out in turn, and whoever is past searching has one.
GivenOut ==
    /\ \A id \in Ids : IF id < next THEN owner[id] \in Enabled ELSE owner[id] = 0
    /\ \A s \in log : HasId(s)
    /\ \A s \in Enabled : ue[s] \in {"setup", "attached"} => HasId(s)
    /\ \A id \in context \cup fresh \cup stale : id < next

\* The first identifiers go to the slots in their order.
InOrder == ~early => \A id \in Ids : id < next /\ id < N => Position(owner[id]) = id + 1

Inv == TypeOK /\ Phases /\ Stages /\ GivenOut /\ InOrder

LEMMA InvInit ==
    ASSUME Init
    PROVE  Inv
<1> USE PositionType, BoundsAreNat
<1>1. TypeOK
    <2>1. 1 \in 1 .. N /\ 0 \in 0 .. N /\ 0 \in 0 .. MaxIds /\ 0 \in 0 .. MaxStarts
        OBVIOUS
    <2>2. /\ ctl \in [pc : {"off"}, stage : 1 .. N]
          /\ ue \in [Enabled -> {"off"}] /\ owner \in [Ids -> {0}]
        BY <2>1 DEF Init
    <2>3. QED
        BY <2>1, <2>2 DEF Init, TypeOK
<1>2. Phases /\ Stages
    BY DEF Init, Phases, Stages
<1>3. GivenOut /\ InOrder
    BY DEF Init, GivenOut, InOrder, Ids
<1>4. QED
    BY <1>1, <1>2, <1>3 DEF Inv

------------------------------------------------------------------------------
(* One lemma per part and group of actions.                                 *)

LEMMA TypeController ==
    ASSUME Inv, Start \/ Controller \/ OperatorStops \/ HostReboots
    PROVE  TypeOK'
<1> USE PositionType, BoundsAreNat DEF gnb, reports
<1>1. TypeOK
    BY DEF Inv
<1>2. CASE Start
    BY <1>1, <1>2 DEF Start, TypeOK
<1>3. CASE StartRadio
    <2>1. broker' \in 0 .. N
        BY <1>1, <1>3 DEF StartRadio, Requested, TypeOK
    <2>2. owner' \in [Ids -> Enabled \cup {0}] /\ kpm' \in {"off", "up", "collecting"}
        BY <1>3 DEF StartRadio
    <2>3. ctl' \in [pc : {"ues"}, stage : 1 .. N]
        BY <1>1, <1>3 DEF StartRadio, TypeOK
    <2>4. next' \in 0 .. MaxIds /\ early' \in BOOLEAN
        <3>1. next' = 0 /\ early' = FALSE
            BY <1>3 DEF StartRadio
        <3>2. 0 \in 0 .. MaxIds
            BY BoundsAreNat
        <3>3. QED
            BY <3>1, <3>2, Zenon
    <2>5. context' = {} /\ fresh' = {} /\ stale' = {} /\ UNCHANGED <<file, ue, log, starts>>
        BY <1>3 DEF StartRadio
    <2>6. QED
        BY <1>1, <2>1, <2>2, <2>3, <2>4, <2>5 DEF TypeOK
<1>4. ASSUME NEW s \in Enabled, StartUe(s)
      PROVE  TypeOK'
    <2>1. ue' \in [Enabled -> {"off", "search", "setup", "attached"}]
        BY <1>1, <1>4 DEF StartUe, TypeOK
    <2>2. ctl' \in [pc : {"ues", "admit"}, stage : 1 .. N]
        BY <1>1, <1>4 DEF StartUe, TypeOK
    <2>3. QED
        BY <1>1, <1>4, <2>1, <2>2 DEF StartUe, TypeOK
<1>5. CASE Admit
    BY <1>1, <1>5 DEF Admit, TypeOK
<1>6. CASE SeesAttach
    <2>1. ctl.stage # N => ctl.stage + 1 \in 1 .. N
        BY <1>1 DEF TypeOK
    <2>2. ctl' \in [pc : {"up", "admit"}, stage : 1 .. N]
        BY <1>1, <1>6, <2>1 DEF SeesAttach, TypeOK
    <2>3. QED
        BY <1>1, <1>6, <2>2 DEF SeesAttach, TypeOK
<1>7. CASE GivesUp \/ OperatorStops \/ StopCleans
    BY <1>1, <1>7 DEF GivesUp, OperatorStops, StopCleans, TypeOK
<1>8. CASE StopKpm
    BY <1>1, <1>8 DEF StopKpm, TypeOK
<1>9. CASE StopRadio
    BY <1>1, <1>9 DEF StopRadio, TypeOK
<1>10. CASE HostReboots
    BY <1>1, <1>10 DEF HostReboots, TypeOK
<1>11. QED
    BY <1>2, <1>3, <1>4, <1>5, <1>6, <1>7, <1>8, <1>9, <1>10 DEF Controller

\* The steps of the broker, the radio and the exporter.
Radio ==
    \/ BrokerPolls
    \/ \E s \in Enabled : Connects(s) \/ Attaches(s) \/ LosesLink(s)
    \/ CollectorStarts \/ CollectorExits
    \/ \E id \in Ids : Releases(id) \/ Report(id) \/ Ages(id)

LEMMA TypeRadio ==
    ASSUME Inv, Radio
    PROVE  TypeOK'
<1> USE PositionType, BoundsAreNat DEF gnb, reports
<1>1. TypeOK
    BY DEF Inv
<1>2. CASE BrokerPolls
    <2>1. broker' \in 0 .. N
        BY <1>1, <1>2 DEF BrokerPolls, Requested, TypeOK
    <2>2. QED
        BY <1>1, <1>2, <2>1 DEF BrokerPolls, TypeOK
<1>3. ASSUME NEW s \in Enabled, Connects(s)
      PROVE  TypeOK'
    <2>1. next \in Ids /\ next' \in 0 .. MaxIds
        BY <1>1, <1>3 DEF Connects, TypeOK, Ids
    <2>2. owner' \in [Ids -> Enabled \cup {0}] /\ context' \subseteq Ids
        BY <1>1, <1>3, <2>1 DEF Connects, TypeOK
    <2>3. ue' \in [Enabled -> {"off", "search", "setup", "attached"}]
        BY <1>1, <1>3 DEF Connects, TypeOK
    <2>4. early' \in BOOLEAN
        BY <1>3 DEF Connects
    <2>5. QED
        BY <1>1, <1>3, <2>1, <2>2, <2>3, <2>4 DEF Connects, TypeOK
<1>4. ASSUME NEW s \in Enabled, Attaches(s) \/ LosesLink(s)
      PROVE  TypeOK'
    <2>1. ue' \in [Enabled -> {"off", "search", "setup", "attached"}] /\ log' \subseteq Enabled
        BY <1>1, <1>4 DEF Attaches, LosesLink, TypeOK
    <2>2. QED
        BY <1>1, <1>4, <2>1 DEF Attaches, LosesLink, TypeOK
<1>5. CASE CollectorStarts \/ CollectorExits
    BY <1>1, <1>5 DEF CollectorStarts, CollectorExits, TypeOK
<1>6. ASSUME NEW id \in Ids, Releases(id) \/ Report(id) \/ Ages(id)
      PROVE  TypeOK'
    BY <1>1, <1>6 DEF Releases, Report, Ages, TypeOK
<1>7. QED
    BY <1>2, <1>3, <1>4, <1>5, <1>6 DEF Radio

\* A step of the radio leaves the controller and the stage file alone, and the
\* broker off when it is off.
LEMMA RadioFrame ==
    ASSUME Inv, Radio
    PROVE  /\ UNCHANGED <<ctl, file, starts>>
           /\ log \subseteq log'
           /\ \A s \in Enabled : ue[s] = "off" => ue'[s] = "off"
           /\ broker' = broker \/ (broker # 0 /\ broker' = Requested)
<1> USE DEF gnb, reports
<1>1. ue \in [Enabled -> {"off", "search", "setup", "attached"}]
    BY DEF Inv, TypeOK
<1>2. CASE BrokerPolls
    BY <1>2 DEF BrokerPolls
<1>3. ASSUME NEW s \in Enabled, Connects(s) \/ Attaches(s) \/ LosesLink(s)
      PROVE  /\ UNCHANGED <<ctl, file, starts, broker>> /\ log \subseteq log'
             /\ \A t \in Enabled : ue[t] = "off" => ue'[t] = "off"
    <2>1. UNCHANGED <<ctl, file, starts, broker>> /\ log \subseteq log'
        BY <1>3 DEF Connects, Attaches, LosesLink
    <2>2. ue[s] # "off" /\ \E v : ue' = [ue EXCEPT ![s] = v]
        BY <1>3 DEF Connects, Attaches, LosesLink
    <2>3. QED
        BY <1>1, <2>1, <2>2
<1>4. CASE \/ CollectorStarts \/ CollectorExits
           \/ \E id \in Ids : Releases(id) \/ Report(id) \/ Ages(id)
    BY <1>4 DEF CollectorStarts, CollectorExits, Releases, Report, Ages
<1>5. QED
    BY <1>2, <1>3, <1>4 DEF Radio

LEMMA PhasesRadio ==
    ASSUME Inv, Radio
    PROVE  Phases'
<1>1. /\ UNCHANGED <<ctl, file>> /\ Phases
      /\ \A s \in Enabled : ue[s] = "off" => ue'[s] = "off"
      /\ broker = 0 => broker' = 0
    BY RadioFrame DEF Inv
<1>2. ctl.pc = "boot" => log' = {}
    <2>1. SUFFICES ASSUME ctl.pc = "boot"
                   PROVE  log' = {}
        OBVIOUS
    <2>2. log = {} /\ \A s \in Enabled : ue[s] = "off"
        BY <1>1, <2>1 DEF Phases
    <2>3. \A s \in Enabled : ~Attaches(s)
        BY <2>2 DEF Attaches
    <2>4. log' = log
        BY <2>3 DEF Radio, BrokerPolls, Connects, LosesLink, CollectorStarts, CollectorExits,
                    Releases, Report, Ages
    <2>5. QED
        BY <2>2, <2>4
<1>3. QED
    BY <1>1, <1>2 DEF Phases

LEMMA StagesRadio ==
    ASSUME Inv, Radio
    PROVE  Stages'
<1>1. /\ UNCHANGED <<ctl, file>> /\ log \subseteq log' /\ Stages
      /\ broker' = broker \/ (broker # 0 /\ broker' = Requested)
    BY RadioFrame DEF Inv
<1>2. \A k : Reached(k) => Reached(k)'
    BY <1>1 DEF Reached
<1>3. broker' # 0 => Reached(broker') /\ Reached(file) /\ broker' <= file
    <2>1. CASE broker' = broker
        BY <1>1, <2>1 DEF Stages
    <2>2. CASE broker # 0 /\ broker' = Requested
        <3>1. file \in 0 .. N /\ broker \in 0 .. N /\ N \in Nat
            BY PositionType DEF Inv, TypeOK
        <3>2. Reached(file) /\ broker <= file
            BY <1>1, <2>2 DEF Stages
        <3>3. broker' = file
            BY <2>2, <3>1, <3>2 DEF Requested
        <3>4. QED
            BY <3>1, <3>2, <3>3
    <2>3. QED
        BY <1>1, <2>1, <2>2
<1>4. broker' # 0 => (\A s \in Enabled : Position(s) < broker' => s \in log')
    BY <1>1, <1>3 DEF Reached
<1>5. QED
    BY <1>1, <1>2, <1>3, <1>4 DEF Stages, Reached

LEMMA PhasesController ==
    ASSUME Inv, Start \/ Controller \/ OperatorStops \/ HostReboots
    PROVE  Phases'
<1>1. TypeOK /\ Phases
    BY DEF Inv
<1>2. CASE Start
    BY <1>1, <1>2 DEF Start, Phases
<1>3. CASE StartRadio
    BY <1>1, <1>3 DEF StartRadio, Phases, TypeOK
<1>4. ASSUME NEW s \in Enabled, StartUe(s)
      PROVE  Phases'
    BY <1>1, <1>4 DEF StartUe, Phases, TypeOK
<1>5. CASE Admit
    BY <1>1, <1>5 DEF Admit, Phases, TypeOK
<1>6. CASE SeesAttach
    <2>1. ctl'.pc \in {"up", "admit"}
        BY <1>1, <1>6 DEF SeesAttach, TypeOK
    <2>2. QED
        BY <2>1 DEF Phases
<1>7. CASE GivesUp \/ OperatorStops \/ StopKpm
    <2>1. ctl'.pc \in {"stop", "kill"}
        BY <1>1, <1>7 DEF GivesUp, OperatorStops, StopKpm, TypeOK
    <2>2. QED
        BY <2>1 DEF Phases
<1>8. CASE StopRadio
    <2>1. ctl'.pc = "clean" /\ broker' = 0 /\ ue' = [s \in Enabled |-> "off"]
        BY <1>1, <1>8 DEF StopRadio, TypeOK
    <2>2. QED
        BY <2>1 DEF Phases
<1>9. CASE StopCleans
    <2>1. ctl.pc = "clean" /\ ctl'.pc = "off" /\ UNCHANGED <<broker, ue>>
        BY <1>1, <1>9 DEF StopCleans, TypeOK
    <2>2. QED
        BY <1>1, <2>1 DEF Phases
<1>10. CASE HostReboots
    <2>1. ctl'.pc = "off" /\ broker' = 0 /\ ue' = [s \in Enabled |-> "off"]
        BY <1>1, <1>10 DEF HostReboots, TypeOK
    <2>2. QED
        BY <2>1 DEF Phases
<1>11. QED
    BY <1>2, <1>3, <1>4, <1>5, <1>6, <1>7, <1>8, <1>9, <1>10 DEF Controller

LEMMA StagesController ==
    ASSUME Inv, Start \/ Controller \/ OperatorStops \/ HostReboots
    PROVE  Stages'
<1>1. TypeOK /\ Phases /\ Stages /\ N \in Nat
    BY PositionType DEF Inv
<1>2. \A s \in Enabled : Position(s) \in Nat /\ Position(s) >= 1
    BY PositionType
<1>3. CASE Start
    <2>1. ctl'.pc = "boot" /\ broker' = 0
        BY <1>1, <1>3 DEF Start, Phases
    <2>2. QED
        BY <2>1 DEF Stages
<1>4. CASE StartRadio
    <2>1. file' = 1 /\ broker' = 1 /\ ctl'.pc = "ues" /\ ctl'.stage = 1
        BY <1>1, <1>4, PositionType DEF StartRadio, Requested, Phases, TypeOK
    <2>2. Reached(1)'
        BY <1>2 DEF Reached
    <2>3. QED
        BY <2>1, <2>2 DEF Stages, Reached
<1>5. ASSUME NEW s \in Enabled, StartUe(s)
      PROVE  Stages'
    <2>1. /\ ctl'.stage = ctl.stage /\ ctl.pc = "ues" /\ ctl'.pc \in {"ues", "admit"}
          /\ UNCHANGED <<file, broker, log>>
        BY <1>1, <1>5 DEF StartUe, TypeOK
    <2>2. file <= ctl.stage
        BY <1>1, <2>1 DEF Phases
    <2>3. QED
        BY <1>1, <2>1, <2>2 DEF Stages, Reached
<1>6. CASE Admit
    <2>1. /\ ctl'.stage = ctl.stage /\ ctl.pc = "admit" /\ ctl'.pc = "wait"
          /\ file' = ctl.stage /\ UNCHANGED <<broker, log>>
        BY <1>1, <1>6 DEF Admit, TypeOK
    <2>2. /\ ctl.stage \in Nat /\ file \in Nat /\ broker \in Nat
        BY <1>1 DEF TypeOK
    <2>3. Reached(ctl.stage) /\ (broker # 0 => Reached(broker) /\ broker <= ctl.stage)
        BY <1>1, <2>1, <2>2 DEF Stages
    <2>4. QED
        BY <2>1, <2>3 DEF Stages, Reached
<1>7. CASE SeesAttach
    <2>1. /\ ctl.pc = "wait" /\ Nth(ctl.stage) \in log /\ UNCHANGED <<file, broker, log>>
          /\ IF ctl.stage = N THEN ctl'.pc = "up"
             ELSE ctl'.pc = "admit" /\ ctl'.stage = ctl.stage + 1
        BY <1>1, <1>7 DEF SeesAttach, TypeOK
    <2>2. Reached(ctl.stage) /\ file = ctl.stage /\ ctl.stage \in 1 .. N
        BY <1>1, <2>1 DEF Stages, TypeOK
    <2>3. ASSUME NEW s \in Enabled, Position(s) <= ctl.stage
          PROVE  s \in log
        <3>1. CASE Position(s) = ctl.stage
            BY <2>1, <3>1, NthOfPosition
        <3>2. CASE Position(s) # ctl.stage
            <4>1. Position(s) < ctl.stage
                BY <1>2, <2>2, <2>3, <3>2
            <4>2. QED
                BY <2>2, <4>1 DEF Reached
        <3>3. QED
            BY <3>1, <3>2
    <2>4. CASE ctl.stage = N
        <3>1. Enabled \subseteq log
            BY <2>3, <2>4, PositionType
        <3>2. QED
            BY <1>1, <2>1, <2>4, <3>1 DEF Stages, Reached
    <2>5. CASE ctl.stage # N
        <3>1. ctl'.pc = "admit" /\ ctl'.stage = ctl.stage + 1 /\ file <= ctl.stage + 1
            BY <2>1, <2>2, <2>5
        <3>2. \A s \in Enabled : Position(s) < ctl.stage + 1 => s \in log
            BY <1>2, <2>2, <2>3
        <3>3. QED
            BY <1>1, <2>1, <3>1, <3>2 DEF Stages, Reached
    <2>6. QED
        BY <2>4, <2>5
<1>8. CASE GivesUp \/ OperatorStops \/ StopKpm
    <2>1. ctl'.pc \in {"stop", "kill"} /\ UNCHANGED <<file, broker, log>>
        BY <1>1, <1>8 DEF GivesUp, OperatorStops, StopKpm, TypeOK
    <2>2. QED
        BY <1>1, <2>1 DEF Stages, Reached
<1>9. CASE StopRadio \/ HostReboots
    <2>1. ctl'.pc \in {"clean", "off"} /\ broker' = 0
        BY <1>1, <1>9 DEF StopRadio, HostReboots, TypeOK
    <2>2. QED
        BY <2>1 DEF Stages
<1>10. CASE StopCleans
    <2>1. ctl'.pc = "off" /\ broker' = 0
        BY <1>1, <1>10 DEF StopCleans, Phases, TypeOK
    <2>2. QED
        BY <2>1 DEF Stages
<1>11. QED
    BY <1>3, <1>4, <1>5, <1>6, <1>7, <1>8, <1>9, <1>10 DEF Controller

\* Steps that give out no identifier.
LEMMA GivenOutKept ==
    ASSUME Inv, UNCHANGED <<owner, next>>, log' \subseteq log,
           \A s \in Enabled : ue'[s] \in {"setup", "attached"} => ue[s] \in {"setup", "attached"},
           context' \cup fresh' \cup stale' \subseteq context \cup fresh \cup stale
    PROVE  GivenOut'
BY DEF Inv, GivenOut, HasId

LEMMA GivenOutRadio ==
    ASSUME Inv, Radio
    PROVE  GivenOut'
<1> USE DEF gnb, reports
<1>1. /\ ue \in [Enabled -> {"off", "search", "setup", "attached"}] /\ context \subseteq Ids
      /\ owner \in [Ids -> Enabled \cup {0}] /\ next \in 0 .. MaxIds /\ MaxIds \in Nat
      /\ log \subseteq Enabled /\ GivenOut
    BY BoundsAreNat DEF Inv, TypeOK
<1>2. CASE BrokerPolls \/ CollectorStarts \/ CollectorExits
    BY <1>2, GivenOutKept DEF BrokerPolls, CollectorStarts, CollectorExits
<1>3. ASSUME NEW s \in Enabled, Connects(s)
      PROVE  GivenOut'
    <2>1. /\ next \in Ids /\ next' = next + 1 /\ owner' = [owner EXCEPT ![next] = s]
          /\ ue' = [ue EXCEPT ![s] = "setup"] /\ context' = context \cup {next}
          /\ UNCHANGED <<log, fresh, stale>>
        BY <1>1, <1>3 DEF Connects, Ids
    <2>2. owner[next] = 0 /\ owner'[next] = s
        BY <1>1, <2>1 DEF GivenOut, Ids
    <2>3. \A id \in Ids : IF id < next' THEN owner'[id] \in Enabled ELSE owner'[id] = 0
        BY <1>1, <2>1, <2>2 DEF GivenOut, Ids
    <2>4. ASSUME NEW t \in Enabled, HasId(t)
          PROVE  HasId(t)'
        <3>1. PICK id \in Ids : owner[id] = t
            BY <2>4 DEF HasId
        <3>2. id # next
            BY <2>2, <3>1, SlotsAreNat
        <3>3. owner'[id] = t
            BY <1>1, <2>1, <3>1, <3>2
        <3>4. QED
            BY <3>3 DEF HasId
    <2>5. HasId(s)'
        BY <2>1, <2>2 DEF HasId
    <2>6. \A t \in log' : HasId(t)'
        BY <1>1, <2>1, <2>4 DEF GivenOut
    <2>7. \A t \in Enabled : ue'[t] \in {"setup", "attached"} => HasId(t)'
        BY <1>1, <2>1, <2>4, <2>5 DEF GivenOut
    <2>8. \A id \in context' \cup fresh' \cup stale' : id < next'
        <3>1. \A id \in context \cup fresh \cup stale : id \in Nat /\ id < next
            BY <1>1 DEF Inv, TypeOK, GivenOut, Ids
        <3>2. QED
            BY <1>1, <2>1, <3>1
    <2>9. QED
        BY <2>3, <2>6, <2>7, <2>8 DEF GivenOut, HasId
<1>4. ASSUME NEW s \in Enabled, Attaches(s)
      PROVE  GivenOut'
    <2>1. ue[s] = "setup" /\ log' = log \cup {s} /\ UNCHANGED <<owner, next, context, fresh, stale>>
        BY <1>4 DEF Attaches
    <2>2. \A t \in Enabled : ue'[t] \in {"setup", "attached"} => ue[t] \in {"setup", "attached"}
        BY <1>1, <1>4 DEF Attaches
    <2>3. HasId(s)
        BY <1>1, <2>1 DEF GivenOut
    <2>4. QED
        BY <1>1, <2>1, <2>2, <2>3 DEF GivenOut, HasId
<1>5. ASSUME NEW s \in Enabled, LosesLink(s)
      PROVE  GivenOut'
    <2>1. /\ UNCHANGED <<log, owner, next, context, fresh, stale>>
          /\ \A t \in Enabled : ue'[t] \in {"setup", "attached"} => ue[t] \in {"setup", "attached"}
        BY <1>1, <1>5 DEF LosesLink
    <2>2. QED
        BY <2>1, GivenOutKept
<1>6. ASSUME NEW id \in Ids, Releases(id) \/ Report(id) \/ Ages(id)
      PROVE  GivenOut'
    <2>1. /\ UNCHANGED <<log, owner, next, ue>>
          /\ context' \cup fresh' \cup stale' \subseteq context \cup fresh \cup stale
        BY <1>6 DEF Releases, Report, Ages
    <2>2. QED
        BY <2>1, GivenOutKept
<1>7. QED
    BY <1>2, <1>3, <1>4, <1>5, <1>6 DEF Radio

LEMMA GivenOutController ==
    ASSUME Inv, Start \/ Controller \/ OperatorStops \/ HostReboots
    PROVE  GivenOut'
<1> USE DEF gnb, reports
<1>1. TypeOK /\ Phases
    BY DEF Inv
<1>2. CASE StartRadio
    <2>1. /\ log' = {} /\ owner' = [id \in Ids |-> 0] /\ next' = 0
          /\ context' = {} /\ fresh' = {} /\ stale' = {}
        BY <1>1, <1>2 DEF StartRadio, Phases
    <2>2. \A s \in Enabled : ue'[s] = "off"
        BY <1>1, <1>2 DEF StartRadio, Phases
    <2>3. \A id \in Ids : owner'[id] = 0 /\ ~(id < next')
        BY <2>1, BoundsAreNat DEF Ids
    <2>4. QED
        BY <2>1, <2>2, <2>3 DEF GivenOut
<1>3. ASSUME NEW s \in Enabled, StartUe(s)
      PROVE  GivenOut'
    <2>1. /\ UNCHANGED <<log, owner, next, context, fresh, stale>>
          /\ \A t \in Enabled : ue'[t] \in {"setup", "attached"} => ue[t] \in {"setup", "attached"}
        BY <1>1, <1>3 DEF StartUe, TypeOK
    <2>2. QED
        BY <2>1, GivenOutKept
<1>4. CASE Start \/ Admit \/ SeesAttach \/ GivesUp \/ OperatorStops \/ StopCleans
    BY <1>4, GivenOutKept DEF Start, Admit, SeesAttach, GivesUp, OperatorStops, StopCleans
<1>5. CASE StopKpm
    BY <1>5, GivenOutKept DEF StopKpm
<1>6. CASE StopRadio \/ HostReboots
    <2>1. /\ UNCHANGED <<log, owner, next>> /\ context' = {}
          /\ fresh' \subseteq fresh /\ stale' \subseteq stale
          /\ ue' = [s \in Enabled |-> "off"]
        BY <1>6 DEF StopRadio, HostReboots
    <2>2. QED
        BY <2>1, GivenOutKept
<1>7. QED
    BY <1>2, <1>3, <1>4, <1>5, <1>6 DEF Controller

------------------------------------------------------------------------------
(* The n-th identifier is the n-th slot's.                                  *)

\* The slot that gets identifier number next, unless a slot is early, is the one
\* at position next + 1: the slots before it have attached, each with one of the
\* identifiers below next, and by their order these are theirs.
LEMMA ConnectsInOrder ==
    ASSUME Inv, NEW s \in Enabled, Connects(s), ~early', next < N
    PROVE  Position(s) = next + 1
<1>1. /\ TypeOK /\ GivenOut /\ InOrder /\ Stages
      /\ next \in Nat /\ next < MaxIds /\ MaxIds \in Nat /\ N \in Nat /\ broker \in Nat
    BY PositionType, BoundsAreNat DEF Inv, TypeOK, Connects
<1>2. ~early /\ (~HasId(s) \/ \A t \in Enabled : HasId(t))
    BY DEF Connects
<1>3. ASSUME NEW T, \A t \in T : t \in Enabled /\ HasId(t)
      PROVE  Cardinality(T) <= next
    <2>1. ASSUME NEW t \in T
          PROVE  \E k \in 0 .. next - 1 : owner[k] = t
        <3>1. PICK id \in Ids : owner[id] = t
            BY <1>3, <2>1 DEF HasId
        <3>2. t # 0
            BY <1>3, <2>1, SlotsAreNat
        <3>3. id < next
            BY <1>1, <3>1, <3>2 DEF GivenOut
        <3>4. id \in 0 .. next - 1
            BY <1>1, <3>3 DEF Ids
        <3>5. QED
            BY <3>1, <3>4
    <2>2. QED
        BY <1>1, <2>1, Served
<1>4. ~HasId(s)
    <2>1. (\A t \in Enabled : HasId(t)) => Cardinality(Enabled) <= next
        BY <1>3
    <2>2. QED
        BY <1>1, <1>2, <2>1 DEF N
<1>5. Position(s) \in 1 .. N /\ Position(s) <= broker
    BY PositionType DEF Connects, Unmuted
<1>6. Reached(broker) /\ \A t \in log : HasId(t)
    BY <1>1, <1>5 DEF Stages, GivenOut
<1>7. \A t \in Before(s) : t \in Enabled /\ HasId(t)
    <2>1. ASSUME NEW t \in Before(s)
          PROVE  t \in Enabled /\ HasId(t)
        <3>1. t \in Enabled /\ Position(t) < Position(s) /\ Position(t) \in Nat
            <4>1. t \in Enabled
                BY DEF Before
            <4>2. QED
                BY <4>1, BeforePosition, PositionType
        <3>2. Position(t) < broker
            BY <1>1, <1>5, <3>1
        <3>3. QED
            BY <1>6, <3>1, <3>2 DEF Reached
    <2>2. QED
        BY <2>1
<1>8. Position(s) - 1 <= next
    BY <1>3, <1>7, BeforePosition
<1>9. ASSUME Position(s) <= next
      PROVE  FALSE
    <2> DEFINE id == Position(s) - 1
    <2>1. id \in Ids /\ id < next /\ id < N
        BY <1>1, <1>5, <1>9 DEF Ids
    <2>2. owner[id] \in Enabled /\ Position(owner[id]) = Position(s)
        BY <1>1, <1>2, <1>5, <2>1 DEF GivenOut, InOrder
    <2>3. owner[id] = s
        BY <2>2, PositionInjective
    <2>4. QED
        BY <1>4, <2>1, <2>3 DEF HasId
<1>10. QED
    BY <1>1, <1>5, <1>8, <1>9

LEMMA InOrderNext ==
    ASSUME Inv, [Next]_vars
    PROVE  InOrder'
<1> USE DEF gnb, reports
<1>1. InOrder /\ TypeOK /\ next \in 0 .. MaxIds /\ MaxIds \in Nat /\ N \in Nat
    BY PositionType, BoundsAreNat DEF Inv, TypeOK
<1>2. CASE UNCHANGED <<owner, next, early>>
    BY <1>1, <1>2 DEF InOrder
<1>3. CASE StartRadio
    <2>1. next' = 0
        BY <1>3 DEF StartRadio
    <2>2. \A id \in Ids : ~(id < next')
        BY <1>1, <2>1 DEF Ids
    <2>3. QED
        BY <2>2 DEF InOrder
<1>4. ASSUME NEW s \in Enabled, Connects(s)
      PROVE  InOrder'
    <2>1. SUFFICES ASSUME ~early', NEW id \in Ids, id < next', id < N
                   PROVE  Position(owner'[id]) = id + 1
        BY DEF InOrder
    <2>2. /\ ~early /\ next \in Ids /\ next' = next + 1 /\ owner' = [owner EXCEPT ![next] = s]
          /\ owner \in [Ids -> Enabled \cup {0}]
        BY <1>1, <1>4, <2>1 DEF Connects, TypeOK, Ids
    <2>3. CASE id = next
        BY <1>4, <2>1, <2>2, <2>3, ConnectsInOrder
    <2>4. CASE id # next
        <3>1. id < next /\ owner'[id] = owner[id]
            BY <1>1, <2>1, <2>2, <2>4 DEF Ids
        <3>2. QED
            BY <1>1, <2>1, <2>2, <3>1 DEF InOrder
    <2>5. QED
        BY <2>3, <2>4
<1>5. CASE \/ UNCHANGED vars \/ Start \/ Admit \/ SeesAttach \/ GivesUp \/ StopKpm \/ StopRadio
           \/ StopCleans \/ OperatorStops \/ HostReboots \/ BrokerPolls
           \/ CollectorStarts \/ CollectorExits
           \/ (\E s \in Enabled : StartUe(s) \/ Attaches(s) \/ LosesLink(s))
           \/ \E id \in Ids : Releases(id) \/ Report(id) \/ Ages(id)
    <2>1. UNCHANGED <<owner, next, early>>
        BY <1>5 DEF vars, Start, Admit, SeesAttach, GivesUp, StopKpm, StopRadio, StopCleans,
                    OperatorStops, HostReboots, BrokerPolls, CollectorStarts, CollectorExits,
                    StartUe, Attaches, LosesLink, Releases, Report, Ages
    <2>2. QED
        BY <1>2, <2>1
<1>6. QED
    BY <1>3, <1>4, <1>5 DEF Next, Controller

------------------------------------------------------------------------------
(* The theorems.                                                            *)

LEMMA InvNext ==
    ASSUME Inv, [Next]_vars
    PROVE  Inv'
<1>1. CASE UNCHANGED vars
    <2>1. TypeOK' /\ Phases' /\ Stages' /\ GivenOut'
        BY <1>1 DEF Inv, vars, gnb, reports, TypeOK, Phases, Stages, Reached, GivenOut, HasId
    <2>2. QED
        BY <2>1, InOrderNext DEF Inv
<1>2. CASE Start \/ Controller \/ OperatorStops \/ HostReboots
    BY <1>2, TypeController, PhasesController, StagesController, GivenOutController, InOrderNext DEF Inv
<1>3. CASE Radio
    BY <1>3, TypeRadio, PhasesRadio, StagesRadio, GivenOutRadio, InOrderNext DEF Inv
<1>4. Next => (Start \/ Controller \/ OperatorStops \/ HostReboots) \/ Radio
    BY DEF Next, Radio
<1>5. QED
    BY <1>1, <1>2, <1>3, <1>4

LEMMA InvAlways == Spec => []Inv
<1>1. Init => Inv
    BY InvInit
<1>2. Inv /\ [Next]_vars => Inv'
    BY InvNext
<1>3. QED
    BY <1>1, <1>2, PTL DEF Spec

\* Every file, process, identifier and report stays in its domain.
THEOREM TypeCorrect == Spec => []TypeOK
<1>1. Inv => TypeOK
    BY DEF Inv
<1>2. QED
    BY <1>1, InvAlways, PTL

\* Of the UEs that the broker lets the gNB hear, at most one has never attached.
THEOREM OneAdmittedAtATime == Spec => []OneAtATime
<1>1. ASSUME Inv
      PROVE  OneAtATime
    <2>1. SUFFICES ASSUME NEW s \in Unmuted \ log, NEW t \in Unmuted \ log
                   PROVE  s = t
        BY DEF OneAtATime
    <2>2. /\ s \in Enabled /\ Position(s) <= broker /\ Position(s) \in Nat \ {0}
          /\ t \in Enabled /\ Position(t) <= broker /\ Position(t) \in Nat \ {0}
          /\ broker \in Nat
        BY <1>1, PositionType DEF Unmuted, Inv, TypeOK
    <2>3. Reached(broker)
        BY <1>1, <2>2 DEF Inv, Stages
    <2>4. Position(s) = broker /\ Position(t) = broker
        BY <2>2, <2>3 DEF Reached
    <2>5. QED
        BY <2>2, <2>4, PositionInjective
<1>2. QED
    BY <1>1, InvAlways, PTL

\* A start that succeeds has brought every UE onto this very gNB.
THEOREM UpBringsEveryUe == Spec => []UpMeansAllAttached
<1>1. Inv => UpMeansAllAttached
    BY DEF Inv, Stages, GivenOut, UpMeansAllAttached
<1>2. QED
    BY <1>1, InvAlways, PTL

\* As long as no UE took a second identifier before every UE had its first, the
\* exporter attributes no report to a UE it is not about.
THEOREM NamesAreRight == Spec => []NamesRightUnlessEarly
<1>1. ASSUME Inv, ~early, NEW id \in Reported
      PROVE  UeName(id) \in {owner[id], 0}
    <2>1. id \in Ids /\ id < next
        BY <1>1 DEF Inv, TypeOK, GivenOut, Reported
    <2>2. CASE id < N
        <3>1. owner[id] \in Enabled /\ Position(owner[id]) = id + 1
            BY <1>1, <2>1, <2>2 DEF Inv, GivenOut, InOrder
        <3>2. Nth(id + 1) = owner[id]
            BY <3>1, NthOfPosition
        <3>3. QED
            BY <2>2, <3>2 DEF UeName
    <2>3. CASE ~(id < N)
        BY <2>3 DEF UeName
    <2>4. QED
        BY <2>2, <2>3
<1>2. Inv => NamesRightUnlessEarly
    BY <1>1 DEF NamesRightUnlessEarly, NamesRight
<1>3. QED
    BY <1>2, InvAlways, PTL

\* The broker mutes no UE again that it has let on the air.
THEOREM AdmittedStay == Spec => StaysAdmitted
<1>1. ASSUME Inv, [Next]_vars
      PROVE  [broker # 0 /\ broker' # 0 => broker' >= broker]_vars
    <2>1. file \in 0 .. N /\ broker \in 0 .. N /\ N \in Nat /\ Phases /\ Stages
        BY <1>1, PositionType DEF Inv, TypeOK
    <2>2. CASE broker' = broker \/ broker' = 0
        BY <2>1, <2>2
    <2>3. CASE BrokerPolls
        <3>1. broker # 0 /\ broker' = Requested /\ broker <= file
            BY <2>1, <2>3 DEF BrokerPolls, Stages
        <3>2. QED
            BY <2>1, <3>1 DEF Requested
    <2>4. CASE StartRadio
        BY <2>1, <2>4 DEF StartRadio, Phases
    <2>5. CASE ~BrokerPolls /\ ~StartRadio
        <3>1. broker' = broker \/ broker' = 0
            BY <1>1, <2>5 DEF vars, Next, Controller, Start, Admit, SeesAttach, GivesUp, StopKpm,
                  StopRadio, StopCleans, OperatorStops, HostReboots, CollectorStarts, CollectorExits,
                  StartUe, Connects, Attaches, LosesLink, Releases, Report, Ages
        <3>2. QED
            BY <2>2, <3>1
    <2>6. QED
        BY <2>3, <2>4, <2>5
<1>2. QED
    BY <1>1, InvAlways, PTL DEF Spec, StaysAdmitted

==============================================================================
