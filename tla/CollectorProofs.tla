---------------------------- MODULE CollectorProofs ----------------------------
(***************************************************************************)
(* Proofs about Collector for every size of the grid, any number of        *)
(* policies, attempts, faults and runs of relabel.py.                      *)
(***************************************************************************)
EXTENDS Collector, WellFoundedInduction, TLAPS

Trying == {"window", "sample", "label", "list"}     \* in the middle of a scenario
Saving == {"raw", "train", "results"}               \* in a checkpoint

\* A set of naturals has a least element.
LEMMA LeastExists ==
    ASSUME NEW S \in SUBSET Nat, S # {}
    PROVE  Min(S) \in S /\ \A y \in S : Min(S) <= y
<1>1. \E x \in S : \A y \in S : ~(<<y, x>> \in OpToRel(<, Nat))
    BY NatLessThanWellFounded, WFMin
<1>2. \E x \in S : \A y \in S : ~(y < x)
    BY <1>1 DEF OpToRel
<1>3. \E x \in S : \A y \in S : x <= y
    BY <1>2
<1>4. QED
    BY <1>3 DEF Min

------------------------------------------------------------------------------
(* Types.                                                                   *)

Pcs == {"off", "setup", "next", "window", "sample", "label", "list", "raw", "train",
        "results", "finally"}

\* A collector that runs has been launched.
Launched == pc # "off" => attempt \in 1 .. MaxAttempts

\* The label of any windows is a policy.
LEMMA LabelIsPolicy ==
    ASSUME NEW ws \in SUBSET Windowed
    PROVE  LabelOf(ws) \in Policies
<1>1. K \in Nat \ {0} /\ AcceptableIn(ws) \subseteq Policies
    BY SizesArePositive DEF AcceptableIn, Windowed
<1>2. CASE AcceptableIn(ws) = {}
    BY <1>1, <1>2 DEF LabelOf, Policies
<1>3. CASE AcceptableIn(ws) # {}
    <2>1. AcceptableIn(ws) \in SUBSET Nat
        BY <1>1 DEF Policies
    <2>2. QED
        BY <1>1, <1>3, <2>1, LeastExists DEF LabelOf
<1>4. QED
    BY <1>2, <1>3

LEMMA TypeInit ==
    ASSUME Init
    PROVE  TypeOK
<1>1. /\ 1 \in Scenarios /\ 1 \in Policies
      /\ 0 \in 0 .. MaxAttempts /\ 0 \in 0 .. MaxFaults /\ 0 \in 0 .. MaxRelabels
    BY SizesArePositive, BoundsAreNat DEF Scenarios, Policies
<1>2. NoRows \in Files
    BY DEF NoRows, Files
<1>3. QED
    BY <1>1, <1>2 DEF Init, TypeOK

\* A step of the collector keeps the types of what it may change.
LEMMA TypeCollector ==
    ASSUME TypeOK, Launched, CollectorStep
    PROVE  TypeOK'
<1> USE SizesArePositive DEF place, launch, faulty
<1>1. mem \in Files /\ disk \in Files /\ at \in Scenarios /\ control \in Policies
    BY DEF TypeOK
<1>2. CASE Setup
    BY <1>2 DEF TypeOK, Setup
<1>3. CASE NextScenario
    <2>1. at' \in Scenarios
        BY <1>1, <1>3 DEF NextScenario, Scenarios
    <2>2. todo' \in SUBSET Policies
        BY <1>3 DEF NextScenario, TypeOK
    <2>3. pc' \in Pcs
        BY <1>3 DEF NextScenario, Pcs
    <2>4. QED
        BY <1>3, <2>1, <2>2, <2>3 DEF TypeOK, NextScenario, Pcs
<1>4. ASSUME NEW p \in Policies, Prepare(p)
      PROVE  TypeOK'
    BY <1>4 DEF TypeOK, Prepare
<1>5. ASSUME NEW ok \in BOOLEAN, Sample(ok)
      PROVE  TypeOK'
    <2>1. attempt \in 1 .. MaxAttempts
        BY <1>5 DEF Launched, Sample
    <2>2. [s |-> at, p |-> control, ok |-> ok, a |-> attempt] \in Windowed
        BY <1>1, <2>1 DEF Windowed
    <2>3. mem' \in Files
        BY <1>1, <1>5, <2>2 DEF Sample, Files
    <2>4. QED
        BY <1>5, <2>3 DEF TypeOK, Sample
<1>6. CASE Label
    <2>1. LabelOf(Windows(mem.raw, at)) \in Policies
        BY <1>1, LabelIsPolicy DEF Files, Windows
    <2>2. mem' \in Files
        BY <1>1, <1>6, <2>1 DEF Label, Files
    <2>3. QED
        BY <1>6, <2>2 DEF TypeOK, Label
<1>7. CASE List
    <2>1. LabelOf(Windows(mem.raw, at)) \in Policies
        BY <1>1, LabelIsPolicy DEF Files, Windows
    <2>2. mem' \in Files
        BY <1>1, <1>7, <2>1 DEF List, Files
    <2>3. QED
        BY <1>7, <2>2 DEF TypeOK, List
<1>8. CASE WriteRaw
    <2>1. disk' \in Files
        BY <1>1, <1>8 DEF WriteRaw, Files
    <2>2. QED
        BY <1>8, <2>1 DEF TypeOK, WriteRaw
<1>9. CASE WriteTraining
    <2>1. disk' \in Files
        BY <1>1, <1>9 DEF WriteTraining, Files
    <2>2. QED
        BY <1>9, <2>1 DEF TypeOK, WriteTraining
<1>10. CASE WriteResults
    <2>1. disk' \in Files
        BY <1>1, <1>10 DEF WriteResults, Files
    <2>2. QED
        BY <1>10, <2>1 DEF TypeOK, WriteResults
<1>11. CASE Finally
    BY <1>11 DEF TypeOK, Finally, Policies
<1>12. QED
    BY <1>2, <1>3, <1>4, <1>5, <1>6, <1>7, <1>8, <1>9, <1>10, <1>11 DEF CollectorStep

LEMMA TypeNext ==
    ASSUME TypeOK, Launched, [Next]_vars
    PROVE  TypeOK'
<1> USE SizesArePositive, BoundsAreNat DEF place, launch, faulty
<1>1. disk \in Files
    BY DEF TypeOK
<1>2. CASE UNCHANGED vars
    BY <1>2 DEF TypeOK, vars
<1>3. ASSUME NEW resume \in BOOLEAN, Launch(resume)
      PROVE  TypeOK'
    <2>1. mem' \in Files
        BY <1>1, <1>3 DEF Launch, Resumed, NoRows, Files
    <2>2. attempt' \in 0 .. MaxAttempts
        BY <1>3 DEF Launch, TypeOK
    <2>3. fresh' \in BOOLEAN /\ dropped' \in BOOLEAN
        BY <1>3 DEF Launch, TypeOK
    <2>4. QED
        <3>1. 1 \in Scenarios /\ {} \in SUBSET Policies
            BY DEF Scenarios
        <3>2. QED
            BY <1>3, <2>1, <2>2, <2>3, <3>1 DEF TypeOK, Launch
<1>4. CASE CollectorStep
    BY <1>4, TypeCollector
<1>5. CASE Interrupted \/ Killed
    BY <1>5 DEF TypeOK, Interrupted, Killed
<1>6. CASE RelabelReads
    <2>1. relabel' \in [pc : {"idle", "raw", "train"}, raw : SUBSET Windowed]
        BY <1>1, <1>6 DEF RelabelReads, Files
    <2>2. QED
        BY <1>6, <2>1 DEF TypeOK, RelabelReads
<1>7. CASE RelabelWritesRaw
    <2>1. disk' \in Files /\ raced' \in BOOLEAN
        BY <1>1, <1>7 DEF RelabelWritesRaw, Files, TypeOK
    <2>2. QED
        BY <1>7, <2>1 DEF TypeOK, RelabelWritesRaw
<1>8. ASSUME NEW label \in Policies, RelabelWritesTraining(label)
      PROVE  TypeOK'
    <2>1. relabel.raw \in SUBSET Windowed
        BY DEF TypeOK
    <2>2. RelabelRows(relabel.raw, label) \in
              SUBSET [s : Scenarios \cup {0}, from : Scenarios, label : Policies]
        BY <2>1 DEF RelabelRows, Windowed
    <2>3. disk' \in Files /\ raced' \in BOOLEAN
        BY <1>1, <1>8, <2>2 DEF RelabelWritesTraining, Files, TypeOK
    <2>4. QED
        BY <1>8, <2>3 DEF TypeOK, RelabelWritesTraining
<1>9. QED
    BY <1>2, <1>3, <1>4, <1>5, <1>6, <1>7, <1>8 DEF Next

LEMMA LaunchedNext ==
    ASSUME TypeOK, Launched, [Next]_vars
    PROVE  Launched'
<1>1. attempt \in 0 .. MaxAttempts
    BY DEF TypeOK
<1>2. ASSUME NEW resume \in BOOLEAN, Launch(resume)
      PROVE  Launched'
    BY <1>1, <1>2, BoundsAreNat DEF Launched, Launch
<1>3. CASE UNCHANGED <<pc, attempt>> \/ (pc # "off" /\ attempt' = attempt)
    BY <1>3 DEF Launched
<1>4. CASE CollectorStep
    <2>1. attempt' = attempt /\ pc # "off"
        BY <1>4 DEF CollectorStep, Setup, NextScenario, Prepare, Sample, Label, List, WriteRaw,
                    WriteTraining, WriteResults, Finally, launch
    <2>2. QED
        BY <1>3, <2>1
<1>5. CASE \/ UNCHANGED vars \/ Interrupted \/ Killed \/ RelabelReads \/ RelabelWritesRaw
           \/ \E label \in Policies : RelabelWritesTraining(label)
    <2>1. attempt' = attempt /\ (pc' = pc \/ pc # "off")
        BY <1>5 DEF vars, Interrupted, Killed, RelabelReads, RelabelWritesRaw,
                    RelabelWritesTraining, launch
    <2>2. QED
        BY <1>3, <2>1
<1>6. QED
    BY <1>2, <1>4, <1>5 DEF Next

------------------------------------------------------------------------------
(* The course of one attempt.                                               *)

Tried == Policies \ (todo \cup IF pc = "sample" THEN {control} ELSE {})

\* In the middle of a scenario: it is not completed, and its windows are one for
\* every policy tried, all of this attempt.
ScenarioInv ==
    pc \in Trying =>
        /\ at \notin Completed(mem)
        /\ \A x \in Windows(mem.raw, at) : x.a = attempt
        /\ \A x, y \in Windows(mem.raw, at) : x.p = y.p => x = y
        /\ {x.p : x \in Windows(mem.raw, at)} = Tried
        /\ pc = "sample" => control \notin todo
        /\ pc \in {"label", "list"} => todo = {}

\* There are no rows of other scenarios that are not completed.
RowsInv ==
    pc \notin {"finally", "off"} /\ ~leaving =>
        \A x \in mem.raw : x.s \in Completed(mem) \/ (pc \in Trying /\ x.s = at)

LeavingInv == leaving => pc = "off" \/ (pc \in Saving /\ control = 1)

Flow == ScenarioInv /\ RowsInv /\ LeavingInv

\* Windows of one scenario more, or of another.
LEMMA AddWindow ==
    ASSUME NEW raw, NEW r, NEW s
    PROVE  /\ r.s = s => Windows(raw \cup {r}, s) = Windows(raw, s) \cup {r}
           /\ r.s # s => Windows(raw \cup {r}, s) = Windows(raw, s)
BY DEF Windows

LEMMA FlowSample ==
    ASSUME TypeOK, Flow, NEW ok \in BOOLEAN, Sample(ok)
    PROVE  Flow'
<1> DEFINE r == [s |-> at, p |-> control, ok |-> ok, a |-> attempt]
           ws == Windows(mem.raw, at)
<1>1. /\ mem \in Files /\ control \in Policies /\ todo \subseteq Policies
      /\ r.s = at /\ r.p = control /\ r.a = attempt
    BY DEF TypeOK
<1>2. /\ pc = "sample" /\ pc' \in {"label", "window"} /\ (pc' = "label" => todo = {})
      /\ mem'.raw = mem.raw \cup {r} /\ mem'.done = mem.done
      /\ UNCHANGED <<at, todo, leaving, control, attempt>>
    BY <1>1 DEF Sample, place, launch, Files
<1>3. Windows(mem'.raw, at) = ws \cup {r}
    <2>1. Windows(mem.raw \cup {r}, at) = Windows(mem.raw, at) \cup {r}
        <3> HIDE DEF r
        <3>1. QED
            BY <1>1, AddWindow
    <2>2. QED
        BY <1>2, <2>1
<1>4. /\ at \notin Completed(mem) /\ \A x \in ws : x.a = attempt
      /\ \A x, y \in ws : x.p = y.p => x = y
      /\ {x.p : x \in ws} = Policies \ (todo \cup {control}) /\ control \notin todo
    BY <1>2 DEF Flow, ScenarioInv, Trying, Tried
<1>5. \A x \in ws : x.p # control
    BY <1>4
<1> HIDE DEF r, ws
<1>6. {x.p : x \in ws \cup {r}} = Policies \ todo
    <2>1. {x.p : x \in ws \cup {r}} = {x.p : x \in ws} \cup {r.p}
        OBVIOUS
    <2>2. QED
        BY <1>1, <1>4, <2>1
<1>7. \A x, y \in ws \cup {r} : x.p = y.p => x = y
    BY <1>1, <1>4, <1>5
<1>8. Completed(mem') = Completed(mem)
    BY <1>2 DEF Completed
<1>9. ScenarioInv'
    BY <1>1, <1>2, <1>3, <1>4, <1>6, <1>7, <1>8 DEF ScenarioInv, Tried
<1>10. RowsInv'
    BY <1>1, <1>2, <1>8 DEF Flow, RowsInv, Trying
<1>11. LeavingInv'
    BY <1>2 DEF Flow, LeavingInv, Saving
<1>12. QED
    BY <1>9, <1>10, <1>11 DEF Flow

LEMMA FlowNextScenario ==
    ASSUME TypeOK, Flow, NextScenario
    PROVE  Flow'
<1>1. /\ pc = "next" /\ ~leaving
      /\ UNCHANGED <<mem, control, leaving, attempt>>
      /\ \A x \in mem.raw : x.s \in Completed(mem)
    BY DEF NextScenario, Flow, RowsInv, LeavingInv, Saving, Trying, launch
<1>2. CASE at \in Completed(mem)
    BY <1>1, <1>2 DEF NextScenario, Flow, ScenarioInv, RowsInv, LeavingInv, Trying
<1>3. CASE at \notin Completed(mem)
    <2>1. pc' = "window" /\ todo' = Policies /\ at' = at
        BY <1>3 DEF NextScenario
    <2>2. Windows(mem.raw, at) = {}
        BY <1>1, <1>3 DEF Windows
    <2>3. ScenarioInv'
        BY <1>1, <1>3, <2>1, <2>2 DEF ScenarioInv, Tried
    <2>4. QED
        BY <1>1, <2>1, <2>3 DEF Flow, RowsInv, LeavingInv
<1>4. QED
    BY <1>2, <1>3

LEMMA FlowPrepare ==
    ASSUME TypeOK, Flow, NEW p \in Policies, Prepare(p)
    PROVE  Flow'
<1>1. /\ pc = "window" /\ pc' = "sample" /\ p \in todo /\ ~leaving
      /\ control' = p /\ todo' = todo \ {p}
      /\ UNCHANGED <<at, mem, leaving, attempt>>
    BY DEF Prepare, Flow, LeavingInv, Saving, launch
<1>2. Tried' = Tried
    BY <1>1 DEF Tried
<1>3. ScenarioInv'
    BY <1>1, <1>2 DEF Flow, ScenarioInv, Trying
<1>4. QED
    BY <1>1, <1>3 DEF Flow, RowsInv, LeavingInv, Trying

\* Listing the scenario completes it and no other.
LEMMA FlowList ==
    ASSUME TypeOK, Flow, List
    PROVE  Flow'
<1>1. mem \in Files
    BY DEF TypeOK
<1>2. /\ pc = "list" /\ pc' = "raw" /\ ~leaving
      /\ mem'.raw = mem.raw
      /\ mem'.done = mem.done \cup {[s |-> at, label |-> LabelOf(Windows(mem.raw, at))]}
      /\ UNCHANGED <<leaving, at>>
    BY <1>1 DEF List, Flow, LeavingInv, Saving, place, launch, Files
<1>3. Completed(mem') = Completed(mem) \cup {at}
    <2> DEFINE d == [s |-> at, label |-> LabelOf(Windows(mem.raw, at))]
    <2>1. d.s = at /\ mem'.done = mem.done \cup {d}
        BY <1>2
    <2> HIDE DEF d
    <2>2. QED
        BY <2>1 DEF Completed
<1>4. RowsInv'
    BY <1>2, <1>3 DEF Flow, RowsInv
<1>5. QED
    BY <1>2, <1>4 DEF Flow, ScenarioInv, LeavingInv, Trying

LEMMA FlowNext ==
    ASSUME TypeOK, Flow, [Next]_vars
    PROVE  Flow'
<1> USE DEF place, launch, faulty
<1>1. CASE \/ UNCHANGED vars \/ RelabelReads \/ RelabelWritesRaw
           \/ \E label \in Policies : RelabelWritesTraining(label)
    <2>1. UNCHANGED <<pc, at, todo, leaving, mem, control, attempt>>
        BY <1>1 DEF vars, RelabelReads, RelabelWritesRaw, RelabelWritesTraining
    <2>2. QED
        BY <2>1 DEF Flow, ScenarioInv, RowsInv, LeavingInv, Tried, Windows, Completed
<1>2. ASSUME NEW resume \in BOOLEAN, Launch(resume)
      PROVE  Flow'
    <2>1. pc' = "setup" /\ ~leaving'
        BY <1>2 DEF Launch
    <2>2. \A x \in mem'.raw : x.s \in Completed(mem')
        BY <1>2 DEF Launch, Resumed, NoRows, Completed
    <2>3. QED
        BY <2>1, <2>2 DEF Flow, ScenarioInv, RowsInv, LeavingInv, Trying
<1>3. CASE Setup
    BY <1>3 DEF Setup, Flow, ScenarioInv, RowsInv, LeavingInv, Trying, Saving
<1>4. CASE NextScenario
    BY <1>4, FlowNextScenario
<1>5. ASSUME NEW p \in Policies, Prepare(p)
      PROVE  Flow'
    BY <1>5, FlowPrepare
<1>6. CASE Sample(TRUE) \/ Sample(FALSE)
    BY <1>6, FlowSample
<1>7. CASE Label
    <2>1. /\ pc = "label" /\ pc' = "list" /\ mem'.raw = mem.raw /\ mem'.done = mem.done
          /\ UNCHANGED <<at, todo, leaving, control, attempt>>
        BY <1>7 DEF Label, TypeOK, Files
    <2>2. Completed(mem') = Completed(mem) /\ Tried' = Tried
        BY <2>1 DEF Completed, Tried
    <2>3. ScenarioInv'
        BY <2>1, <2>2 DEF Flow, ScenarioInv, Trying
    <2>4. QED
        BY <2>1, <2>2, <2>3 DEF Flow, RowsInv, LeavingInv, Trying, Saving
<1>8. CASE List
    BY <1>8, FlowList
<1>9. CASE WriteRaw \/ WriteTraining \/ WriteResults
    <2>1. pc \in Saving /\ pc' \in Saving \cup {"off", "next"} /\ UNCHANGED <<mem, control, leaving>>
        BY <1>9 DEF WriteRaw, WriteTraining, WriteResults, Saving
    <2>2. leaving => pc' \in Saving \cup {"off"}
        BY <1>9 DEF WriteRaw, WriteTraining, WriteResults, Saving
    <2>3. QED
        BY <2>1, <2>2 DEF Flow, ScenarioInv, RowsInv, LeavingInv, Trying, Saving
<1>10. CASE Finally
    BY <1>10 DEF Finally, Flow, ScenarioInv, RowsInv, LeavingInv, Trying, Saving
<1>11. CASE Interrupted \/ Killed
    BY <1>11 DEF Interrupted, Killed, Flow, ScenarioInv, RowsInv, LeavingInv, Trying
<1>12. QED
    BY <1>1, <1>2, <1>3, <1>4, <1>5, <1>6, <1>7, <1>8, <1>9, <1>10, <1>11 DEF Next, CollectorStep

------------------------------------------------------------------------------
(* What is listed as completed is whole.                                    *)

\* What the collector keeps in memory is whole, unless it was resumed from files
\* that are not.
MemSound == raced \/ (torn /\ ~fresh) \/ \A d \in mem.done : Whole(mem.raw, d)

\* Nothing that is listed in the file is forgotten by a campaign that goes on.
Behind == pc # "off" /\ ~fresh => disk.done \subseteq mem.done

\* After the first file of a checkpoint the raw rows in it are those in memory.
Current == pc \in {"train", "results"} => raced \/ disk.raw = mem.raw

Kept == MemSound /\ Behind /\ Current /\ CompletedIsWhole

\* Whether a scenario is whole depends on its windows only.
LEMMA WholeByWindows ==
    ASSUME NEW raw1, NEW raw2, NEW d, Windows(raw1, d.s) = Windows(raw2, d.s), Whole(raw1, d)
    PROVE  Whole(raw2, d)
BY DEF Whole

\* The scenario that is being listed is whole.
LEMMA ListedIsWhole ==
    ASSUME TypeOK, ScenarioInv, pc = "list",
           NEW d, d.s = at, d.label = LabelOf(Windows(mem.raw, at))
    PROVE  Whole(mem.raw, d)
<1> DEFINE ws == Windows(mem.raw, at)
           acc == AcceptableIn(ws)
<1>1. /\ \A x, y \in ws : x.a = y.a /\ (x.p = y.p => x = y)
      /\ {x.p : x \in ws} = Policies
    BY DEF ScenarioInv, Trying, Tried
<1>2. K \in Nat \ {0} /\ acc \subseteq Policies
    BY <1>1, SizesArePositive DEF AcceptableIn
<1>3. \A x \in ws : x.p \in Nat /\ (x.ok => x.p \in acc)
    BY <1>1 DEF AcceptableIn, Policies
<1>4. \A x \in ws : /\ x.p < d.label => ~x.ok
                    /\ x.p = d.label => x.ok \/ d.label = K
    <2>1. CASE acc = {}
        <3>1. d.label = K
            BY <2>1 DEF LabelOf
        <3>2. QED
            BY <1>3, <2>1, <3>1
    <2>2. CASE acc # {}
        <3>1. acc \in SUBSET Nat
            BY <1>2 DEF Policies
        <3>2. d.label \in acc /\ \A q \in acc : d.label <= q
            BY <2>2, <3>1, LeastExists DEF LabelOf
        <3>3. PICK y \in ws : y.ok /\ y.p = d.label
            BY <3>2 DEF AcceptableIn
        <3>4. \A x \in ws : x.p = d.label => x.ok
            BY <1>1, <3>3
        <3>5. \A x \in ws : x.p < d.label => ~x.ok
            BY <1>3, <3>1, <3>2
        <3>6. QED
            BY <3>4, <3>5
    <2>3. QED
        BY <2>1, <2>2
<1>5. QED
    BY <1>1, <1>4 DEF Whole

\* Resuming keeps the windows of the scenarios that are completed.
LEMMA ResumedIsWhole ==
    ASSUME NEW d \in disk.done, Whole(disk.raw, d)
    PROVE  Whole(Resumed.raw, d)
<1>1. d.s \in Completed(disk)
    BY DEF Completed
<1>2. Windows(Resumed.raw, d.s) = Windows(disk.raw, d.s)
    BY <1>1 DEF Resumed, Windows
<1>3. QED
    BY <1>2, WholeByWindows

LEMMA MemSoundNext ==
    ASSUME TypeOK, Flow, Kept, [Next]_vars
    PROVE  MemSound'
<1> USE DEF place, launch, faulty
<1>1. mem \in Files /\ raced \in BOOLEAN /\ torn \in BOOLEAN /\ fresh \in BOOLEAN
    BY DEF TypeOK
<1>2. CASE UNCHANGED <<mem, fresh, torn, raced>>
    BY <1>2 DEF Kept, MemSound
<1>3. ASSUME NEW resume \in BOOLEAN, Launch(resume)
      PROVE  MemSound'
    <2>1. CASE resume
        <3>1. mem' = Resumed /\ ~fresh' /\ UNCHANGED <<torn, raced>>
            BY <1>3, <2>1 DEF Launch
        <3>2. Resumed.done = disk.done
            BY DEF Resumed
        <3>3. torn \/ raced \/ \A d \in disk.done : Whole(disk.raw, d)
            BY DEF Kept, CompletedIsWhole
        <3>4. torn \/ raced \/ \A d \in disk.done : Whole(Resumed.raw, d)
            BY <3>3, ResumedIsWhole
        <3>5. QED
            BY <3>1, <3>2, <3>4 DEF MemSound
    <2>2. CASE ~resume
        <3>1. mem'.done = {}
            BY <1>3, <2>2 DEF Launch, NoRows
        <3>2. QED
            BY <3>1 DEF MemSound
    <2>3. QED
        BY <2>1, <2>2
<1>4. ASSUME NEW ok \in BOOLEAN, Sample(ok)
      PROVE  MemSound'
    <2> DEFINE r == [s |-> at, p |-> control, ok |-> ok, a |-> attempt]
    <2>1. /\ mem'.raw = mem.raw \cup {r} /\ mem'.done = mem.done /\ r.s = at
          /\ UNCHANGED <<fresh, torn, raced>>
        BY <1>1, <1>4 DEF Sample, Files
    <2>2. at \notin Completed(mem)
        BY <1>4 DEF Sample, Flow, ScenarioInv, Trying
    <2> HIDE DEF r
    <2>3. ASSUME NEW d \in mem.done, Whole(mem.raw, d)
          PROVE  Whole(mem'.raw, d)
        <3>1. r.s # d.s
            BY <2>1, <2>2 DEF Completed
        <3>2. Windows(mem.raw, d.s) = Windows(mem.raw \cup {r}, d.s)
            BY <3>1, AddWindow
        <3>3. Whole(mem.raw \cup {r}, d)
            BY <2>3, <3>2, WholeByWindows
        <3>4. QED
            BY <2>1, <3>3
    <2>4. QED
        BY <2>1, <2>3 DEF Kept, MemSound
<1>5. CASE Label
    <2>1. mem'.raw = mem.raw /\ mem'.done = mem.done /\ UNCHANGED <<fresh, torn, raced>>
        BY <1>1, <1>5 DEF Label, Files
    <2>2. QED
        BY <2>1 DEF Kept, MemSound
<1>6. CASE List
    <2> DEFINE d == [s |-> at, label |-> LabelOf(Windows(mem.raw, at))]
    <2>1. /\ mem'.raw = mem.raw /\ mem'.done = mem.done \cup {d} /\ pc = "list"
          /\ d.s = at /\ d.label = LabelOf(Windows(mem.raw, at))
          /\ UNCHANGED <<fresh, torn, raced>>
        BY <1>1, <1>6 DEF List, Files
    <2> HIDE DEF d
    <2>2. Whole(mem.raw, d)
        BY <2>1, ListedIsWhole DEF Flow
    <2>3. QED
        BY <2>1, <2>2 DEF Kept, MemSound
<1>7. CASE WriteRaw
    <2>1. UNCHANGED <<mem, fresh, raced>> /\ torn' = (torn \/ (fresh /\ disk.done # {}))
        BY <1>7 DEF WriteRaw
    <2>2. QED
        BY <1>1, <2>1, ZenonT(30) DEF Kept, MemSound
<1>8. CASE WriteResults
    <2>1. UNCHANGED <<mem, raced>> /\ fresh' = FALSE /\ torn' = (torn /\ ~fresh)
        BY <1>8 DEF WriteResults
    <2>2. QED
        BY <1>1, <2>1, ZenonT(30) DEF Kept, MemSound
<1>9. CASE \/ RelabelWritesRaw \/ \E label \in Policies : RelabelWritesTraining(label)
    <2>1. UNCHANGED <<mem, fresh, torn>> /\ (raced => raced')
        BY <1>9 DEF RelabelWritesRaw, RelabelWritesTraining
    <2>2. QED
        BY <1>1, <2>1 DEF Kept, MemSound
<1>10. CASE \/ UNCHANGED vars \/ Setup \/ NextScenario \/ WriteTraining \/ Finally
            \/ Interrupted \/ Killed \/ RelabelReads \/ \E p \in Policies : Prepare(p)
    BY <1>2, <1>10 DEF vars, Setup, NextScenario, WriteTraining, Finally, Interrupted, Killed,
                       RelabelReads, Prepare
<1>11. QED
    BY <1>3, <1>4, <1>5, <1>6, <1>7, <1>8, <1>9, <1>10 DEF Next, CollectorStep

LEMMA BehindNext ==
    ASSUME TypeOK, Behind, [Next]_vars
    PROVE  Behind'
<1> USE DEF place, launch, faulty
<1>1. mem \in Files /\ disk \in Files
    BY DEF TypeOK
<1>2. ASSUME NEW resume \in BOOLEAN, Launch(resume)
      PROVE  Behind'
    BY <1>2 DEF Launch, Resumed, Behind
<1>3. CASE WriteResults
    <2>1. disk'.done = mem.done /\ mem' = mem
        BY <1>1, <1>3 DEF WriteResults, Files
    <2>2. QED
        BY <2>1 DEF Behind
<1>4. CASE Sample(TRUE) \/ Sample(FALSE) \/ Label \/ List
    <2>1. mem.done \subseteq mem'.done /\ pc # "off" /\ UNCHANGED <<disk, fresh>>
        BY <1>1, <1>4 DEF Sample, Label, List, Files
    <2>2. QED
        BY <2>1 DEF Behind
<1>5. CASE WriteRaw \/ WriteTraining
    <2>1. disk'.done = disk.done /\ pc # "off" /\ UNCHANGED <<mem, fresh>>
        BY <1>1, <1>5 DEF WriteRaw, WriteTraining, Files
    <2>2. QED
        BY <2>1 DEF Behind
<1>6. CASE RelabelWritesRaw \/ \E label \in Policies : RelabelWritesTraining(label)
    <2>1. disk'.done = disk.done /\ UNCHANGED <<pc, mem, fresh>>
        BY <1>1, <1>6 DEF RelabelWritesRaw, RelabelWritesTraining, Files
    <2>2. QED
        BY <2>1 DEF Behind
<1>7. CASE \/ UNCHANGED vars \/ Setup \/ NextScenario \/ Finally
           \/ Interrupted \/ Killed \/ RelabelReads \/ \E p \in Policies : Prepare(p)
    <2>1. UNCHANGED <<mem, disk, fresh>> /\ (pc' = pc \/ pc # "off")
        BY <1>7 DEF vars, Setup, NextScenario, Finally, Interrupted, Killed, RelabelReads, Prepare
    <2>2. QED
        BY <2>1 DEF Behind
<1>8. QED
    BY <1>2, <1>3, <1>4, <1>5, <1>6, <1>7 DEF Next, CollectorStep

LEMMA CurrentNext ==
    ASSUME TypeOK, Current, [Next]_vars
    PROVE  Current'
<1> USE DEF place, launch, faulty
<1>1. mem \in Files /\ disk \in Files
    BY DEF TypeOK
<1>2. CASE WriteRaw
    <2>1. disk'.raw = mem.raw /\ mem' = mem
        BY <1>1, <1>2 DEF WriteRaw, Files
    <2>2. QED
        BY <2>1 DEF Current
<1>3. CASE WriteTraining
    <2>1. disk'.raw = disk.raw /\ pc = "train" /\ UNCHANGED <<mem, raced>>
        BY <1>1, <1>3 DEF WriteTraining, Files
    <2>2. QED
        BY <2>1 DEF Current
<1>4. CASE RelabelWritesRaw
    <2>1. raced' = (raced \/ relabel.raw # disk.raw) /\ disk'.raw = relabel.raw /\ UNCHANGED <<pc, mem>>
        BY <1>1, <1>4 DEF RelabelWritesRaw, Files
    <2>2. QED
        BY <2>1 DEF Current
<1>5. ASSUME NEW label \in Policies, RelabelWritesTraining(label)
      PROVE  Current'
    <2>1. disk'.raw = disk.raw /\ (raced => raced') /\ UNCHANGED <<pc, mem>>
        BY <1>1, <1>5 DEF RelabelWritesTraining, Files
    <2>2. QED
        BY <2>1 DEF Current
<1>6. CASE UNCHANGED vars \/ RelabelReads
    BY <1>6 DEF vars, RelabelReads, Current
<1>7. CASE \/ Setup \/ NextScenario \/ Sample(TRUE) \/ Sample(FALSE) \/ Label \/ List
           \/ WriteResults \/ Finally \/ Interrupted \/ Killed
           \/ (\E p \in Policies : Prepare(p)) \/ \E resume \in BOOLEAN : Launch(resume)
    <2>1. pc' \notin {"train", "results"}
        BY <1>7 DEF Setup, NextScenario, Sample, Label, List, WriteResults, Finally, Interrupted,
                    Killed, Prepare, Launch
    <2>2. QED
        BY <2>1 DEF Current
<1>8. QED
    BY <1>2, <1>3, <1>4, <1>5, <1>6, <1>7 DEF Next, CollectorStep

LEMMA WholeNext ==
    ASSUME TypeOK, Kept, [Next]_vars
    PROVE  CompletedIsWhole'
<1> USE DEF place, launch, faulty
<1>1. /\ mem \in Files /\ disk \in Files
      /\ raced \in BOOLEAN /\ torn \in BOOLEAN /\ fresh \in BOOLEAN
    BY DEF TypeOK
<1>2. CASE WriteRaw
    <2>1. /\ disk'.raw = mem.raw /\ disk'.done = disk.done /\ pc = "raw"
          /\ raced' = raced /\ torn' = (torn \/ (fresh /\ disk.done # {}))
        BY <1>1, <1>2 DEF WriteRaw, Files
    <2>2. SUFFICES ASSUME ~torn', ~raced', NEW d \in disk'.done
                   PROVE  Whole(disk'.raw, d)
        BY DEF CompletedIsWhole
    <2>3. ~torn /\ ~raced /\ ~fresh
        BY <2>1, <2>2
    <2>4. d \in mem.done
        BY <2>1, <2>3 DEF Kept, Behind
    <2>5. QED
        BY <2>1, <2>3, <2>4 DEF Kept, MemSound
<1>3. CASE WriteResults
    <2>1. /\ disk'.raw = disk.raw /\ disk'.done = mem.done /\ pc = "results"
          /\ raced' = raced /\ torn' = (torn /\ ~fresh)
        BY <1>1, <1>3 DEF WriteResults, Files
    <2>2. SUFFICES ASSUME ~torn', ~raced', NEW d \in disk'.done
                   PROVE  Whole(disk'.raw, d)
        BY DEF CompletedIsWhole
    <2>3. ~(torn /\ ~fresh) /\ ~raced
        BY <2>1, <2>2
    <2>4. disk.raw = mem.raw
        BY <2>1, <2>3 DEF Kept, Current
    <2>5. QED
        BY <2>1, <2>3, <2>4 DEF Kept, MemSound
<1>4. CASE RelabelWritesRaw
    <2>1. /\ disk'.raw = relabel.raw /\ disk'.done = disk.done /\ torn' = torn
          /\ raced' = (raced \/ relabel.raw # disk.raw)
        BY <1>1, <1>4 DEF RelabelWritesRaw, Files
    <2>2. QED
        BY <1>1, <2>1 DEF Kept, CompletedIsWhole
<1>5. CASE WriteTraining \/ \E label \in Policies : RelabelWritesTraining(label)
    <2>1. disk'.raw = disk.raw /\ disk'.done = disk.done /\ torn' = torn /\ (raced => raced')
        BY <1>1, <1>5 DEF WriteTraining, RelabelWritesTraining, Files
    <2>2. QED
        BY <1>1, <2>1 DEF Kept, CompletedIsWhole
<1>6. CASE \/ UNCHANGED vars \/ Setup \/ NextScenario \/ Sample(TRUE) \/ Sample(FALSE)
           \/ Label \/ List \/ Finally \/ Interrupted \/ Killed \/ RelabelReads
           \/ (\E p \in Policies : Prepare(p)) \/ \E resume \in BOOLEAN : Launch(resume)
    <2>1. UNCHANGED <<disk, torn, raced>>
        BY <1>6 DEF vars, Setup, NextScenario, Sample, Label, List, Finally, Interrupted, Killed,
                    RelabelReads, Prepare, Launch
    <2>2. QED
        BY <2>1 DEF Kept, CompletedIsWhole
<1>7. QED
    BY <1>2, <1>3, <1>4, <1>5, <1>6 DEF Next, CollectorStep

LEMMA KeptNext ==
    ASSUME TypeOK, Flow, Kept, [Next]_vars
    PROVE  Kept'
BY MemSoundNext, BehindNext, CurrentNext, WholeNext DEF Kept

------------------------------------------------------------------------------
(* What is listed as completed has training rows.                           *)

\* A training row for the completed scenario d: filed under another name, or
\* under the scenario's and with its label.
Row(train, d) == \E x \in train : x.from = d.s /\ (x.s = d.s => x.label = d.label)

\* Rows are filed under their scenario, or by relabel.py under the pair of loads.
Filed == \A x \in mem.train \cup disk.train : x.s \in {0, x.from}

\* The scenario that is to be listed has its row.
LabelledInv ==
    pc = "list" => [s |-> at, from |-> at, label |-> LabelOf(Windows(mem.raw, at))] \in mem.train

\* A checkpoint of a fresh campaign that has begun over an old one is torn.
TornKnown == pc \in {"train", "results"} /\ fresh => torn \/ disk.done = {}

MemTrained == raced \/ dropped \/ (torn /\ ~fresh) \/ \A d \in mem.done : Row(mem.train, d)

\* Before the results are written the training rows for them are in the file.
Ready ==
    pc = "results" =>
        raced \/ dropped \/ (torn /\ ~fresh) \/ \A d \in mem.done : Row(disk.train, d)

Trained == Filed /\ LabelledInv /\ TornKnown /\ MemTrained /\ Ready /\ TrainingIsThere

\* More rows do no harm.
LEMMA MoreRows ==
    ASSUME NEW train1, NEW train2, train1 \subseteq train2, NEW d, Row(train1, d)
    PROVE  Row(train2, d)
BY DEF Row

\* relabel.py makes rows of every scenario that is whole in what it has read.
LEMMA RelabelledHasRow ==
    ASSUME NEW raw, NEW label, NEW d, d.s # 0, Whole(raw, d)
    PROVE  Row(RelabelRows(raw, label), d)
<1>1. {x.p : x \in Windows(raw, d.s)} = Policies
    BY DEF Whole
<1>2. 1 \in Policies
    BY SizesArePositive DEF Policies
<1>3. PICK y \in Windows(raw, d.s) : y.p = 1
    BY <1>1, <1>2
<1>4. y \in raw /\ y.s = d.s
    BY DEF Windows
<1>5. Policies \ {x.p : x \in raw} = {}
    BY <1>1 DEF Windows
<1>6. [s |-> 0, from |-> d.s, label |-> label] \in RelabelRows(raw, label)
    BY <1>3, <1>4, <1>5 DEF RelabelRows
<1>7. QED
    BY <1>6 DEF Row

LEMMA FiledNext ==
    ASSUME TypeOK, Filed, [Next]_vars
    PROVE  Filed'
<1> USE DEF place, launch, faulty
<1>1. mem \in Files /\ disk \in Files
    BY DEF TypeOK
<1>2. CASE mem'.train \subseteq mem.train \cup disk.train /\ disk'.train \subseteq mem.train \cup disk.train
    BY <1>2 DEF Filed
<1>3. CASE Label
    <2> DEFINE r == [s |-> at, from |-> at, label |-> LabelOf(Windows(mem.raw, at))]
    <2>1. mem'.train = mem.train \cup {r} /\ r.s = r.from /\ disk' = disk
        BY <1>1, <1>3 DEF Label, Files
    <2> HIDE DEF r
    <2>2. QED
        BY <2>1 DEF Filed
<1>4. ASSUME NEW label \in Policies, RelabelWritesTraining(label)
      PROVE  Filed'
    <2>1. disk'.train = RelabelRows(relabel.raw, label) /\ mem' = mem
        BY <1>1, <1>4 DEF RelabelWritesTraining, Files
    <2>2. \A x \in RelabelRows(relabel.raw, label) : x.s = 0
        BY DEF RelabelRows
    <2>3. QED
        BY <2>1, <2>2 DEF Filed
<1>5. ASSUME NEW resume \in BOOLEAN, Launch(resume)
      PROVE  Filed'
    <2>1. mem'.train \subseteq disk.train /\ disk' = disk
        BY <1>5 DEF Launch, Resumed, NoRows
    <2>2. QED
        BY <1>2, <2>1
<1>6. CASE \/ UNCHANGED vars \/ Setup \/ NextScenario \/ Sample(TRUE) \/ Sample(FALSE)
           \/ List \/ WriteRaw \/ WriteTraining \/ WriteResults \/ Finally
           \/ Interrupted \/ Killed \/ RelabelReads \/ RelabelWritesRaw
           \/ \E p \in Policies : Prepare(p)
    <2>1. mem'.train = mem.train
        BY <1>1, <1>6 DEF vars, Setup, NextScenario, Sample, List, WriteRaw, WriteTraining, WriteResults,
              Finally, Interrupted, Killed, RelabelReads, RelabelWritesRaw, Prepare, Files
    <2>2. disk'.train \in {disk.train, mem.train}
        BY <1>1, <1>6 DEF vars, Setup, NextScenario, Sample, List, WriteRaw, WriteTraining, WriteResults,
              Finally, Interrupted, Killed, RelabelReads, RelabelWritesRaw, Prepare, Files
    <2>3. QED
        BY <1>2, <2>1, <2>2
<1>7. QED
    BY <1>3, <1>4, <1>5, <1>6 DEF Next, CollectorStep

LEMMA LabelledNext ==
    ASSUME TypeOK, LabelledInv, [Next]_vars
    PROVE  LabelledInv'
<1> USE DEF place, launch, faulty
<1>1. mem \in Files
    BY DEF TypeOK
<1>2. CASE Label
    <2>1. /\ mem'.raw = mem.raw /\ at' = at
          /\ [s |-> at, from |-> at, label |-> LabelOf(Windows(mem.raw, at))] \in mem'.train
        BY <1>1, <1>2 DEF Label, Files
    <2>2. QED
        BY <2>1 DEF LabelledInv
<1>3. CASE \/ UNCHANGED vars \/ RelabelReads \/ RelabelWritesRaw
           \/ \E label \in Policies : RelabelWritesTraining(label)
    <2>1. UNCHANGED <<pc, at, mem>>
        BY <1>3 DEF vars, RelabelReads, RelabelWritesRaw, RelabelWritesTraining
    <2>2. QED
        BY <2>1 DEF LabelledInv
<1>4. CASE \/ Setup \/ NextScenario \/ Sample(TRUE) \/ Sample(FALSE) \/ List
           \/ WriteRaw \/ WriteTraining \/ WriteResults \/ Finally \/ Interrupted \/ Killed
           \/ (\E p \in Policies : Prepare(p)) \/ \E resume \in BOOLEAN : Launch(resume)
    <2>1. pc' # "list"
        BY <1>4 DEF Setup, NextScenario, Sample, List, WriteRaw, WriteTraining, WriteResults, Finally,
                    Interrupted, Killed, Prepare, Launch
    <2>2. QED
        BY <2>1 DEF LabelledInv
<1>5. QED
    BY <1>2, <1>3, <1>4 DEF Next, CollectorStep

LEMMA TornKnownNext ==
    ASSUME TypeOK, TornKnown, [Next]_vars
    PROVE  TornKnown'
<1> USE DEF place, launch, faulty
<1>1. disk \in Files /\ torn \in BOOLEAN /\ fresh \in BOOLEAN
    BY DEF TypeOK
<1>2. CASE WriteRaw
    <2>1. disk'.done = disk.done /\ fresh' = fresh /\ torn' = (torn \/ (fresh /\ disk.done # {}))
        BY <1>1, <1>2 DEF WriteRaw, Files
    <2>2. QED
        BY <1>1, <2>1 DEF TornKnown
<1>3. CASE WriteTraining
    <2>1. disk'.done = disk.done /\ pc = "train" /\ UNCHANGED <<torn, fresh>>
        BY <1>1, <1>3 DEF WriteTraining, Files
    <2>2. QED
        BY <2>1 DEF TornKnown
<1>4. CASE \/ UNCHANGED vars \/ RelabelReads \/ RelabelWritesRaw
           \/ \E label \in Policies : RelabelWritesTraining(label)
    <2>1. disk'.done = disk.done /\ UNCHANGED <<pc, torn, fresh>>
        BY <1>1, <1>4 DEF vars, RelabelReads, RelabelWritesRaw, RelabelWritesTraining, Files
    <2>2. QED
        BY <2>1 DEF TornKnown
<1>5. CASE \/ Setup \/ NextScenario \/ Sample(TRUE) \/ Sample(FALSE) \/ Label \/ List
           \/ WriteResults \/ Finally \/ Interrupted \/ Killed
           \/ (\E p \in Policies : Prepare(p)) \/ \E resume \in BOOLEAN : Launch(resume)
    <2>1. pc' \notin {"train", "results"}
        BY <1>5 DEF Setup, NextScenario, Sample, Label, List, WriteResults, Finally, Interrupted,
                    Killed, Prepare, Launch
    <2>2. QED
        BY <2>1 DEF TornKnown
<1>6. QED
    BY <1>2, <1>3, <1>4, <1>5 DEF Next, CollectorStep

LEMMA MemTrainedNext ==
    ASSUME TypeOK, Trained, [Next]_vars
    PROVE  MemTrained'
<1> USE DEF place, launch, faulty
<1>1. /\ mem \in Files /\ disk \in Files /\ raced \in BOOLEAN /\ dropped \in BOOLEAN
      /\ torn \in BOOLEAN /\ fresh \in BOOLEAN
    BY DEF TypeOK
<1>2. ASSUME NEW resume \in BOOLEAN, Launch(resume)
      PROVE  MemTrained'
    <2>1. CASE resume
        <3>1. mem' = Resumed /\ fresh' = FALSE /\ UNCHANGED <<torn, raced>>
            BY <1>2, <2>1 DEF Launch
        <3>2. dropped' = (dropped \/ \E x \in disk.train : x.s = 0)
            BY <1>2, <2>1 DEF Launch
        <3>3. SUFFICES ASSUME ~raced', ~dropped', ~torn', NEW d \in mem'.done
                       PROVE  Row(mem'.train, d)
            BY <3>1 DEF MemTrained
        <3>4. ~raced /\ ~torn /\ ~dropped /\ \A x \in disk.train : x.s # 0
            BY <3>1, <3>2, <3>3
        <3>5. d \in disk.done
            BY <3>1 DEF Resumed
        <3>6. PICK x \in disk.train : x.from = d.s /\ (x.s = d.s => x.label = d.label)
            BY <3>4, <3>5 DEF Trained, TrainingIsThere
        <3>7. x.s = d.s
            BY <3>4, <3>6 DEF Trained, Filed
        <3>8. x \in mem'.train
            BY <3>1, <3>5, <3>7 DEF Resumed, Completed
        <3>9. QED
            BY <3>6, <3>8 DEF Row
    <2>2. CASE ~resume
        <3>1. mem'.done = {}
            BY <1>2, <2>2 DEF Launch, NoRows
        <3>2. QED
            BY <3>1 DEF MemTrained
    <2>3. QED
        BY <2>1, <2>2
<1>3. CASE Label
    <2>1. mem'.done = mem.done /\ mem.train \subseteq mem'.train /\ UNCHANGED <<raced, dropped, torn, fresh>>
        BY <1>1, <1>3 DEF Label, Files
    <2>2. QED
        BY <2>1, MoreRows DEF Trained, MemTrained
<1>4. CASE List
    <2> DEFINE d == [s |-> at, label |-> LabelOf(Windows(mem.raw, at))]
               r == [s |-> at, from |-> at, label |-> LabelOf(Windows(mem.raw, at))]
    <2>1. /\ mem'.train = mem.train /\ mem'.done = mem.done \cup {d} /\ r \in mem.train
          /\ r.from = d.s /\ r.label = d.label /\ UNCHANGED <<raced, dropped, torn, fresh>>
        BY <1>1, <1>4 DEF List, Trained, LabelledInv, Files
    <2> HIDE DEF d, r
    <2>2. Row(mem.train, d)
        BY <2>1 DEF Row
    <2>3. QED
        BY <2>1, <2>2 DEF Trained, MemTrained
<1>5. CASE Sample(TRUE) \/ Sample(FALSE)
    <2>1. mem'.done = mem.done /\ mem'.train = mem.train /\ UNCHANGED <<raced, dropped, torn, fresh>>
        BY <1>1, <1>5 DEF Sample, Files
    <2>2. QED
        BY <2>1 DEF Trained, MemTrained
<1>6. CASE WriteRaw
    <2>1. UNCHANGED <<mem, fresh, raced, dropped>> /\ torn' = (torn \/ (fresh /\ disk.done # {}))
        BY <1>6 DEF WriteRaw
    <2>2. QED
        BY <1>1, <2>1, ZenonT(30) DEF Trained, MemTrained
<1>7. CASE WriteResults
    <2>1. UNCHANGED <<mem, raced, dropped>> /\ fresh' = FALSE /\ torn' = (torn /\ ~fresh)
        BY <1>7 DEF WriteResults
    <2>2. QED
        BY <1>1, <2>1, ZenonT(30) DEF Trained, MemTrained
<1>8. CASE RelabelWritesRaw \/ \E label \in Policies : RelabelWritesTraining(label)
    <2>1. UNCHANGED <<mem, fresh, torn, dropped>> /\ (raced => raced')
        BY <1>8 DEF RelabelWritesRaw, RelabelWritesTraining
    <2>2. QED
        BY <1>1, <2>1 DEF Trained, MemTrained
<1>9. CASE \/ UNCHANGED vars \/ Setup \/ NextScenario \/ WriteTraining \/ Finally
           \/ Interrupted \/ Killed \/ RelabelReads \/ \E p \in Policies : Prepare(p)
    <2>1. UNCHANGED <<mem, fresh, torn, raced, dropped>>
        BY <1>9 DEF vars, Setup, NextScenario, WriteTraining, Finally, Interrupted, Killed,
                    RelabelReads, Prepare
    <2>2. QED
        BY <2>1 DEF Trained, MemTrained
<1>10. QED
    BY <1>2, <1>3, <1>4, <1>5, <1>6, <1>7, <1>8, <1>9 DEF Next, CollectorStep

\* The rows relabel.py puts in the file when nothing was written since it read.
LEMMA RelabelKeepsRows ==
    ASSUME TypeOK, NEW label \in Policies, RelabelWritesTraining(label), ~raced',
           NEW d, d.s \in Scenarios, Whole(disk.raw, d)
    PROVE  Row(disk'.train, d)
<1>1. disk \in Files /\ d.s # 0
    BY DEF TypeOK, Scenarios
<1>2. disk'.train = RelabelRows(relabel.raw, label) /\ relabel.raw = disk.raw
    BY <1>1 DEF RelabelWritesTraining, Files
<1>3. QED
    BY <1>1, <1>2, RelabelledHasRow

LEMMA ReadyNext ==
    ASSUME TypeOK, Kept, Trained, [Next]_vars
    PROVE  Ready'
<1> USE DEF place, launch, faulty
<1>1. /\ mem \in Files /\ disk \in Files /\ raced \in BOOLEAN /\ dropped \in BOOLEAN
      /\ torn \in BOOLEAN /\ fresh \in BOOLEAN
    BY DEF TypeOK
<1>2. CASE WriteTraining
    <2>1. disk'.train = mem.train /\ UNCHANGED <<mem, raced, dropped, torn, fresh>>
        BY <1>1, <1>2 DEF WriteTraining, Files
    <2>2. QED
        BY <2>1 DEF Trained, MemTrained, Ready
<1>3. CASE RelabelWritesRaw
    <2>1. disk'.train = disk.train /\ (raced => raced') /\ UNCHANGED <<pc, mem, dropped, torn, fresh>>
        BY <1>1, <1>3 DEF RelabelWritesRaw, Files
    <2>2. QED
        BY <1>1, <2>1 DEF Trained, Ready
<1>4. ASSUME NEW label \in Policies, RelabelWritesTraining(label)
      PROVE  Ready'
    <2>1. (raced => raced') /\ UNCHANGED <<pc, mem, dropped, torn, fresh>>
        BY <1>4 DEF RelabelWritesTraining
    <2>2. SUFFICES ASSUME pc = "results", ~raced', ~(torn /\ ~fresh), NEW d \in mem.done
                   PROVE  Row(disk'.train, d)
        BY <2>1 DEF Ready
    <2>3. ~raced /\ disk.raw = mem.raw
        BY <2>1, <2>2 DEF Kept, Current
    <2>4. Whole(disk.raw, d)
        BY <2>2, <2>3 DEF Kept, MemSound
    <2>5. d.s \in Scenarios
        BY <1>1 DEF Files
    <2>6. QED
        BY <1>4, <2>2, <2>4, <2>5, RelabelKeepsRows
<1>5. CASE UNCHANGED vars \/ RelabelReads
    BY <1>5 DEF vars, RelabelReads, Trained, Ready
<1>6. CASE \/ Setup \/ NextScenario \/ Sample(TRUE) \/ Sample(FALSE) \/ Label \/ List
           \/ WriteRaw \/ WriteResults \/ Finally \/ Interrupted \/ Killed
           \/ (\E p \in Policies : Prepare(p)) \/ \E resume \in BOOLEAN : Launch(resume)
    <2>1. pc' # "results"
        BY <1>6 DEF Setup, NextScenario, Sample, Label, List, WriteRaw, WriteResults, Finally,
                    Interrupted, Killed, Prepare, Launch
    <2>2. QED
        BY <2>1 DEF Ready
<1>7. QED
    BY <1>2, <1>3, <1>4, <1>5, <1>6 DEF Next, CollectorStep

LEMMA ThereNext ==
    ASSUME TypeOK, Kept, Trained, [Next]_vars
    PROVE  TrainingIsThere'
<1> USE DEF place, launch, faulty
<1>1. /\ mem \in Files /\ disk \in Files /\ raced \in BOOLEAN /\ dropped \in BOOLEAN
      /\ torn \in BOOLEAN /\ fresh \in BOOLEAN
    BY DEF TypeOK
<1>2. TrainingIsThere <=> torn \/ raced \/ dropped \/ \A d \in disk.done : Row(disk.train, d)
    BY DEF TrainingIsThere, Row
<1>3. TrainingIsThere' <=> torn' \/ raced' \/ dropped' \/ \A d \in disk'.done : Row(disk'.train, d)
    BY DEF TrainingIsThere, Row
<1>4. CASE WriteTraining
    <2>1. /\ disk'.train = mem.train /\ disk'.done = disk.done /\ pc = "train"
          /\ UNCHANGED <<torn, raced, dropped>>
        BY <1>1, <1>4 DEF WriteTraining, Files
    <2>2. SUFFICES ASSUME ~torn, ~raced, ~dropped, NEW d \in disk.done
                   PROVE  Row(mem.train, d)
        BY <1>3, <2>1
    <2>3. ~fresh
        BY <2>1, <2>2 DEF Trained, TornKnown
    <2>4. d \in mem.done
        BY <2>1, <2>2, <2>3 DEF Kept, Behind
    <2>5. QED
        BY <2>2, <2>4 DEF Trained, MemTrained
<1>5. CASE WriteResults
    <2>1. /\ disk'.train = disk.train /\ disk'.done = mem.done /\ pc = "results"
          /\ torn' = (torn /\ ~fresh) /\ UNCHANGED <<raced, dropped>>
        BY <1>1, <1>5 DEF WriteResults, Files
    <2>2. SUFFICES ASSUME ~torn', ~raced, ~dropped, NEW d \in mem.done
                   PROVE  Row(disk.train, d)
        BY <1>3, <2>1
    <2>3. ~(torn /\ ~fresh)
        BY <2>1, <2>2
    <2>4. QED
        BY <2>1, <2>2, <2>3 DEF Trained, Ready
<1>6. CASE WriteRaw
    <2>1. /\ disk'.train = disk.train /\ disk'.done = disk.done
          /\ torn' = (torn \/ (fresh /\ disk.done # {})) /\ UNCHANGED <<raced, dropped>>
        BY <1>1, <1>6 DEF WriteRaw, Files
    <2>2. torn => torn'
        BY <2>1
    <2>3. QED
        BY <1>2, <1>3, <2>1, <2>2 DEF Trained
<1>7. CASE RelabelWritesRaw
    <2>1. /\ disk'.train = disk.train /\ disk'.done = disk.done
          /\ (raced => raced') /\ UNCHANGED <<torn, dropped>>
        BY <1>1, <1>7 DEF RelabelWritesRaw, Files
    <2>2. QED
        BY <1>2, <1>3, <2>1 DEF Trained
<1>8. ASSUME NEW label \in Policies, RelabelWritesTraining(label)
      PROVE  TrainingIsThere'
    <2>1. disk'.done = disk.done /\ (raced => raced') /\ UNCHANGED <<torn, dropped>>
        BY <1>1, <1>8 DEF RelabelWritesTraining, Files
    <2>2. SUFFICES ASSUME ~torn, ~raced', NEW d \in disk.done
                   PROVE  Row(disk'.train, d)
        BY <1>3, <2>1
    <2>3. Whole(disk.raw, d)
        BY <2>1, <2>2 DEF Kept, CompletedIsWhole
    <2>4. d.s \in Scenarios
        BY <1>1 DEF Files
    <2>5. QED
        BY <1>8, <2>2, <2>3, <2>4, RelabelKeepsRows
<1>9. CASE \/ UNCHANGED vars \/ Setup \/ NextScenario \/ Sample(TRUE) \/ Sample(FALSE)
           \/ Label \/ List \/ Finally \/ Interrupted \/ Killed \/ RelabelReads
           \/ (\E p \in Policies : Prepare(p)) \/ \E resume \in BOOLEAN : Launch(resume)
    <2>1. UNCHANGED <<disk, torn, raced>>
        BY <1>9 DEF vars, Setup, NextScenario, Sample, Label, List, Finally, Interrupted, Killed,
                    RelabelReads, Prepare, Launch
    <2>2. CASE \E resume \in BOOLEAN : Launch(resume)
        <3>1. dropped => dropped'
            BY <2>2, ZenonT(30) DEF Launch
        <3>2. QED
            BY <1>2, <1>3, <2>1, <3>1 DEF Trained
    <2>3. CASE ~\E resume \in BOOLEAN : Launch(resume)
        <3>1. dropped' = dropped
            BY <1>9, <2>3 DEF vars, Setup, NextScenario, Sample, Label, List, Finally, Interrupted,
                              Killed, RelabelReads, Prepare
        <3>2. QED
            BY <1>2, <1>3, <2>1, <3>1 DEF Trained
    <2>4. QED
        BY <2>2, <2>3
<1>10. QED
    BY <1>4, <1>5, <1>6, <1>7, <1>8, <1>9 DEF Next, CollectorStep

------------------------------------------------------------------------------
(* The theorems.                                                            *)

Inv == TypeOK /\ Launched /\ Flow /\ Kept /\ Trained

LEMMA InvInit ==
    ASSUME Init
    PROVE  Inv
<1>1. TypeOK
    BY TypeInit
<1>2. mem.raw = {} /\ mem.train = {} /\ mem.done = {} /\ disk.train = {} /\ disk.done = {}
    BY DEF Init, NoRows
<1>3. pc = "off" /\ leaving = FALSE
    BY DEF Init
<1>4. Launched /\ Flow
    BY <1>3 DEF Launched, Flow, ScenarioInv, RowsInv, LeavingInv, Trying
<1>5. Kept
    BY <1>2, <1>3 DEF Kept, MemSound, Behind, Current, CompletedIsWhole
<1>6. Trained
    BY <1>2, <1>3 DEF Trained, Filed, LabelledInv, TornKnown, MemTrained, Ready, TrainingIsThere
<1>7. QED
    BY <1>1, <1>4, <1>5, <1>6 DEF Inv

LEMMA InvNext ==
    ASSUME Inv, [Next]_vars
    PROVE  Inv'
<1>1. TypeOK /\ Launched /\ Flow /\ Kept /\ Trained
    BY DEF Inv
<1>2. TypeOK' /\ Launched' /\ Flow' /\ Kept'
    BY <1>1, TypeNext, LaunchedNext, FlowNext, KeptNext
<1>3. Trained'
    BY <1>1, FiledNext, LabelledNext, TornKnownNext, MemTrainedNext, ReadyNext, ThereNext DEF Trained
<1>4. QED
    BY <1>2, <1>3 DEF Inv

LEMMA InvAlways == Spec => []Inv
<1>1. Init => Inv
    BY InvInit
<1>2. Inv /\ [Next]_vars => Inv'
    BY InvNext
<1>3. QED
    BY <1>1, <1>2, PTL DEF Spec

\* The collector stays in its grid and every row in its domain.
THEOREM TypeCorrect == Spec => []TypeOK
<1>1. Inv => TypeOK
    BY DEF Inv
<1>2. QED
    BY <1>1, InvAlways, PTL

\* A scenario that collection_results.json lists, and that no attempt measures
\* again, is whole in raw_samples.csv, wherever the collector was interrupted,
\* save for the two cases the property names.
THEOREM CompletedScenariosAreWhole == Spec => []CompletedIsWhole
<1>1. Inv => CompletedIsWhole
    BY DEF Inv, Kept
<1>2. QED
    BY <1>1, InvAlways, PTL

\* It has its rows in training.csv, until a resumed attempt drops relabel.py's.
THEOREM CompletedScenariosHaveRows == Spec => []TrainingIsThere
<1>1. Inv => TrainingIsThere
    BY DEF Inv, Trained
<1>2. QED
    BY <1>1, InvAlways, PTL

\* No checkpoint of a campaign that is resumed forgets a completed scenario.
THEOREM CompletedScenariosStay == Spec => CompletedStays
<1>1. ASSUME Inv, [Next]_vars
      PROVE  [fresh \/ disk.done \subseteq disk'.done]_vars
    <2> USE DEF place, launch, faulty
    <2>1. mem \in Files /\ disk \in Files /\ Behind
        BY <1>1 DEF Inv, TypeOK, Kept
    <2>2. CASE WriteResults
        <3>1. pc # "off" /\ disk'.done = mem.done
            BY <2>1, <2>2 DEF WriteResults, Files
        <3>2. QED
            BY <2>1, <3>1 DEF Behind
    <2>3. CASE \/ WriteRaw \/ WriteTraining \/ RelabelWritesRaw
               \/ \E label \in Policies : RelabelWritesTraining(label)
        <3>1. disk'.done = disk.done
            BY <2>1, <2>3 DEF WriteRaw, WriteTraining, RelabelWritesRaw, RelabelWritesTraining, Files
        <3>2. QED
            BY <3>1
    <2>4. CASE \/ Setup \/ NextScenario \/ Sample(TRUE) \/ Sample(FALSE) \/ Label \/ List
               \/ Finally \/ Interrupted \/ Killed \/ RelabelReads
               \/ (\E p \in Policies : Prepare(p)) \/ \E resume \in BOOLEAN : Launch(resume)
        <3>1. disk' = disk
            BY <2>4 DEF Setup, NextScenario, Sample, Label, List, Finally, Interrupted, Killed,
                        RelabelReads, Prepare, Launch
        <3>2. QED
            BY <3>1
    <2>5. CASE UNCHANGED vars
        BY <2>5
    <2>6. QED
        BY <1>1, <2>2, <2>3, <2>4, <2>5 DEF Next, CollectorStep
<1>2. QED
    BY <1>1, InvAlways, PTL DEF Spec, CompletedStays

\* Leaving through the finally block gives the video its full rate back and puts
\* every row in memory into the file.
THEOREM CollectorEndsClean == Spec => EndsClean
<1>1. ASSUME Inv, [Next]_vars
      PROVE  [pc # "off" /\ pc' = "off" /\ leaving /\ faults' = faults =>
                  control' = 1 /\ (raced \/ disk'.raw = mem.raw)]_vars
    <2> USE DEF place, launch, faulty
    <2>1. SUFFICES ASSUME pc # "off", pc' = "off", leaving, faults' = faults
                   PROVE  control' = 1 /\ (raced \/ disk'.raw = mem.raw)
        OBVIOUS
    <2>2. pc \in Saving /\ control = 1 /\ disk \in Files /\ faults \in Nat
        BY <1>1, <2>1, BoundsAreNat DEF Inv, Flow, LeavingInv, TypeOK
    <2>3. Next
        BY <1>1, <2>1 DEF vars
    <2>4. WriteResults
        <3>1. faults' # faults + 1
            BY <2>1, <2>2
        <3>2. ~Killed /\ ~Interrupted
            BY <3>1 DEF Killed, Interrupted
        <3>3. QED
            BY <2>1, <2>2, <2>3, <3>2
            DEF Next, CollectorStep, Launch, Setup, NextScenario, Prepare, Sample, Label, List, WriteRaw,
                WriteTraining, Finally, RelabelReads, RelabelWritesRaw, RelabelWritesTraining, Saving
    <2>5. disk'.raw = disk.raw /\ control' = control /\ pc = "results"
        BY <2>2, <2>4 DEF WriteResults, Files
    <2>6. QED
        BY <1>1, <2>2, <2>5 DEF Inv, Kept, Current
<1>2. QED
    BY <1>1, InvAlways, PTL DEF Spec, EndsClean

=============================================================================
