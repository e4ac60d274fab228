------------------------------ MODULE Collector ------------------------------
(***************************************************************************)
(* The data collection of VoiceGuard RF for three UEs                      *)
(* (xapps/voiceguard_rf_3ue/collect.py) and the relabelling of what it     *)
(* collected (relabel.py).  The collector tries every policy in every      *)
(* scenario of a grid, keeps all rows in memory and, scenario by scenario, *)
(* replaces three files one after the other: raw_samples.csv, training.csv *)
(* and collection_results.json, from which a later attempt resumes.        *)
(*                                                                         *)
(* A window of samples is abstracted to whether it was acceptable; policy  *)
(* 1 is EQUAL_100 and K the most restrictive one.  A training row has the  *)
(* scenario its windows are from and the name it is filed under, s.  The   *)
(* grid is taken to be the rounds of one pair of loads, and its rows that  *)
(* relabel.py has filed under that pair to have s = 0.                     *)
(***************************************************************************)
EXTENDS Naturals, FiniteSetsExt

CONSTANTS
    Grid,           \* how many scenarios the grid has; they are tried in order
    K,              \* how many policies there are
    MaxAttempts,    \* bound: how often the collector is launched
    MaxFaults,      \* bound: how often it is interrupted or killed
    MaxRelabels     \* bound: how often relabel.py is run

ASSUME SizesArePositive == Grid \in Nat \ {0} /\ K \in Nat \ {0}
ASSUME BoundsAreNat == MaxAttempts \in Nat /\ MaxFaults \in Nat /\ MaxRelabels \in Nat

VARIABLES
    pc,         \* where the collector is; "off" when it does not run
    at,         \* the scenario it is at
    todo,       \* the policies not yet tried in it
    mem,        \* raw_rows, training_rows and results
    disk,       \* the three files
    control,    \* the policy in the traffic control file
    leaving,    \* it is in the finally block
    attempt,    \* how often the collector was launched
    fresh,      \* without --resume, and its results not written yet
    relabel,    \* relabel.py: where it is, and the raw rows it has read
    faults,     \* interruptions and kills so far
    relabels,   \* how often relabel.py was run
    torn,       \* a fresh campaign in an old directory ended between two files
    raced,      \* relabel.py has written what older raw rows gave over newer ones
    dropped     \* a resumed attempt found rows of relabel.py in training.csv

place == <<at, todo, leaving>>
launch == <<attempt, fresh, dropped>>
faulty == <<faults, relabels, relabel, torn, raced>>
vars == <<pc, place, mem, disk, control, launch, faulty>>

------------------------------------------------------------------------------
Scenarios == 1 .. Grid
Policies == 1 .. K

NoRows == [raw |-> {}, train |-> {}, done |-> {}]
Completed(files) == {d.s : d \in files.done}
Windows(raw, s) == {x \in raw : x.s = s}
AcceptableIn(ws) == {x.p : x \in {y \in ws : y.ok}}

\* Mutant of LabelOf: the most restrictive acceptable policy.
LabelOfStrongest(ws) ==
    IF AcceptableIn(ws) = {} THEN K ELSE Max(AcceptableIn(ws))

\* The least restrictive acceptable policy, the last one if none is acceptable.
LabelOf(ws) ==
    IF AcceptableIn(ws) = {} THEN K ELSE Min(AcceptableIn(ws))

Init ==
    /\ pc = "off" /\ at = 1 /\ todo = {} /\ leaving = FALSE
    /\ mem = NoRows /\ disk = NoRows
    /\ control = 1
    /\ attempt = 0 /\ fresh = FALSE
    /\ relabel = [pc |-> "idle", raw |-> {}]
    /\ faults = 0 /\ relabels = 0
    /\ torn = FALSE /\ raced = FALSE /\ dropped = FALSE

------------------------------------------------------------------------------
(* The collector.                                                           *)

\* Mutant of Resumed: every row there is, not only those of completed scenarios.
ResumedWithAllRows == disk

\* Mutant of Resumed: the results are not read.
ResumedWithoutResults == [disk EXCEPT !.done = {}]

\* Mutant of Resumed: training.csv is not read.
ResumedWithoutTraining ==
    [raw |-> {x \in disk.raw : x.s \in Completed(disk)}, train |-> {}, done |-> disk.done]

\* --resume: the results, and of the other files the rows that belong to them.
Resumed ==
    [raw |-> {x \in disk.raw : x.s \in Completed(disk)},
     train |-> {x \in disk.train : x.s \in Completed(disk)},
     done |-> disk.done]

Launch(resume) ==
    /\ pc = "off" /\ attempt < MaxAttempts
    /\ mem' = IF resume THEN Resumed ELSE NoRows
    /\ attempt' = attempt + 1
    /\ fresh' = ~resume
    /\ dropped' = (dropped \/ (resume /\ \E x \in disk.train : x.s = 0))
    /\ pc' = "setup" /\ at' = 1 /\ todo' = {} /\ leaving' = FALSE
    /\ UNCHANGED <<disk, control, faulty>>

\* The first traffic starts, or the collector ends before its try block.
Setup ==
    /\ pc = "setup"
    /\ pc' \in {"next", "off"}
    /\ UNCHANGED <<place, mem, disk, control, launch, faulty>>

\* The next scenario that is not completed.
NextScenario ==
    /\ pc = "next"
    /\ IF at \in Completed(mem)
       THEN /\ pc' = IF at = Grid THEN "finally" ELSE "next"
            /\ at' = IF at = Grid THEN at ELSE at + 1
            /\ UNCHANGED todo
       ELSE pc' = "window" /\ todo' = Policies /\ UNCHANGED at
    /\ UNCHANGED <<leaving, mem, disk, control, launch, faulty>>

\* In shuffled order: video off, policy written, video on again.
Prepare(p) ==
    /\ pc = "window" /\ p \in todo
    /\ control' = p
    /\ todo' = todo \ {p}
    /\ pc' = "sample"
    /\ UNCHANGED <<at, leaving, mem, disk, launch, faulty>>

\* sample_window and summarize_policy.
Sample(ok) ==
    /\ pc = "sample"
    /\ mem' = [mem EXCEPT !.raw = @ \cup {[s |-> at, p |-> control, ok |-> ok, a |-> attempt]}]
    /\ pc' = IF todo = {} THEN "label" ELSE "window"
    /\ UNCHANGED <<place, disk, control, launch, faulty>>

\* The windows of EQUAL_100 become training rows of the scenario,
Label ==
    /\ pc = "label"
    /\ mem' = [mem EXCEPT !.train =
                  @ \cup {[s |-> at, from |-> at, label |-> LabelOf(Windows(mem.raw, at))]}]
    /\ pc' = "list"
    /\ UNCHANGED <<place, disk, control, launch, faulty>>

\* and it is listed as completed.
List ==
    /\ pc = "list"
    /\ mem' = [mem EXCEPT !.done =
                  @ \cup {[s |-> at, label |-> LabelOf(Windows(mem.raw, at))]}]
    /\ pc' = "raw"
    /\ UNCHANGED <<place, disk, control, launch, faulty>>

(* checkpoint(): each file is replaced atomically, one after the other.     *)

WriteRaw ==
    /\ pc = "raw"
    /\ disk' = [disk EXCEPT !.raw = mem.raw]
    /\ torn' = (torn \/ (fresh /\ disk.done # {}))
    /\ pc' = "train"
    /\ UNCHANGED <<place, mem, control, launch, faults, relabels, relabel, raced>>

WriteTraining ==
    /\ pc = "train"
    /\ disk' = [disk EXCEPT !.train = mem.train]
    /\ pc' = "results"
    /\ UNCHANGED <<place, mem, control, launch, faulty>>

\* The results, and on with the loop or out of the finally block.
WriteResults ==
    /\ pc = "results"
    /\ disk' = [disk EXCEPT !.done = mem.done]
    /\ fresh' = FALSE
    /\ torn' = (torn /\ ~fresh)
    /\ pc' = IF leaving THEN "off" ELSE "next"
    /\ UNCHANGED <<place, mem, control, attempt, dropped, faults, relabels, relabel, raced>>

\* Mutant of Finally: the control file is left to the next scenario.
FinallyKeepsPolicy ==
    /\ pc = "finally"
    /\ leaving' = TRUE
    /\ pc' = "raw"
    /\ UNCHANGED <<at, todo, mem, disk, control, launch, faulty>>

\* The finally block gives the video its full rate back before it saves.
Finally ==
    /\ pc = "finally"
    /\ control' = 1
    /\ leaving' = TRUE
    /\ pc' = "raw"
    /\ UNCHANGED <<at, todo, mem, disk, launch, faulty>>

CollectorStep ==
    \/ Setup \/ NextScenario \/ Sample(TRUE) \/ Sample(FALSE) \/ Label \/ List
    \/ WriteRaw \/ WriteTraining \/ WriteResults \/ Finally
    \/ \E p \in Policies : Prepare(p)

------------------------------------------------------------------------------
(* Faults, and relabel.py.                                                  *)

\* In the try block a request or a file fails, traffic does not come up, or Ctrl+C.
Interrupted ==
    /\ pc \notin {"off", "setup", "finally"} /\ ~leaving
    /\ faults < MaxFaults
    /\ pc' = "finally"
    /\ faults' = faults + 1
    /\ UNCHANGED <<place, mem, disk, control, launch, relabels, relabel, torn, raced>>

\* SIGTERM, SIGKILL, a reboot, or one of the above in the finally block.
Killed ==
    /\ pc # "off" /\ faults < MaxFaults
    /\ pc' = "off"
    /\ faults' = faults + 1
    /\ UNCHANGED <<place, mem, disk, control, launch, relabels, relabel, torn, raced>>

RelabelReads ==
    /\ relabel.pc = "idle" /\ relabels < MaxRelabels
    /\ disk.raw # {}
    /\ relabel' = [pc |-> "raw", raw |-> disk.raw]
    /\ relabels' = relabels + 1
    /\ UNCHANGED <<pc, place, mem, disk, control, launch, faults, torn, raced>>

\* The raw rows are written back as they were read.
RelabelWritesRaw ==
    /\ relabel.pc = "raw"
    /\ disk' = [disk EXCEPT !.raw = relabel.raw]
    /\ raced' = (raced \/ relabel.raw # disk.raw)
    /\ relabel' = [relabel EXCEPT !.pc = "train"]
    /\ UNCHANGED <<pc, place, mem, control, launch, faults, relabels, torn>>

\* The windows of EQUAL_100, under the pair of loads, if every policy was tried.
RelabelRows(raw, label) ==
    IF Policies \ {x.p : x \in raw} # {} THEN {}
    ELSE {[s |-> 0, from |-> x.s, label |-> label] : x \in {y \in raw : y.p = 1}}

RelabelWritesTraining(label) ==
    /\ relabel.pc = "train"
    /\ disk' = [disk EXCEPT !.train = RelabelRows(relabel.raw, label)]
    /\ raced' = (raced \/ relabel.raw # disk.raw)
    /\ relabel' = [pc |-> "idle", raw |-> {}]
    /\ UNCHANGED <<pc, place, mem, control, launch, faults, relabels, torn>>

Next ==
    \/ \E resume \in BOOLEAN : Launch(resume)
    \/ CollectorStep \/ Interrupted \/ Killed
    \/ RelabelReads \/ RelabelWritesRaw
    \/ \E label \in Policies : RelabelWritesTraining(label)

Spec == Init /\ [][Next]_vars

------------------------------------------------------------------------------
(* Properties.                                                              *)

Windowed == [s : Scenarios, p : Policies, ok : BOOLEAN, a : 1 .. MaxAttempts]
Files == [raw : SUBSET Windowed,
          train : SUBSET [s : Scenarios \cup {0}, from : Scenarios, label : Policies],
          done : SUBSET [s : Scenarios, label : Policies]]

\* The collector stays in its grid and every row in its domain.
TypeOK ==
    /\ pc \in {"off", "setup", "next", "window", "sample", "label", "list", "raw", "train",
               "results", "finally"}
    /\ at \in Scenarios /\ todo \in SUBSET Policies /\ leaving \in BOOLEAN
    /\ mem \in Files /\ disk \in Files
    /\ control \in Policies
    /\ attempt \in 0 .. MaxAttempts /\ fresh \in BOOLEAN
    /\ relabel \in [pc : {"idle", "raw", "train"}, raw : SUBSET Windowed]
    /\ faults \in 0 .. MaxFaults /\ relabels \in 0 .. MaxRelabels
    /\ torn \in BOOLEAN /\ raced \in BOOLEAN /\ dropped \in BOOLEAN

\* A scenario is whole: one window for every policy, all of one attempt, and
\* as its label the first policy that was acceptable, or the last.
Whole(raw, d) ==
    LET ws == Windows(raw, d.s)
    IN  /\ {x.p : x \in ws} = Policies
        /\ \A x, y \in ws : x.a = y.a /\ (x.p = y.p => x = y)
        /\ \A x \in ws : /\ x.p < d.label => ~x.ok
                         /\ x.p = d.label => x.ok \/ d.label = K

\* Whatever interrupts the collector between any two of its writes, a scenario
\* that is listed as completed, and so is never measured again, is whole.  Two
\* things excepted: an attempt without --resume in an old directory that ends
\* between its first and its last file, and relabel.py writing what it made of
\* rows that it read before the collector's last checkpoint.
CompletedIsWhole == torn \/ raced \/ \A d \in disk.done : Whole(disk.raw, d)

\* Every completed scenario has training rows, with its label if they are the
\* collector's; not so after a resumed attempt found those of relabel.py, whose
\* names it does not know.
TrainingIsThere ==
    torn \/ raced \/ dropped \/
    \A d \in disk.done : \E x \in disk.train : x.from = d.s /\ (x.s = d.s => x.label = d.label)

\* A completed scenario stays completed as long as campaigns are resumed.
CompletedStays == [][fresh \/ disk.done \subseteq disk'.done]_vars

\* A collector that ends by itself, and be it after Ctrl+C, leaves the video at
\* its full rate and every row in the file.
EndsClean ==
    [][pc # "off" /\ pc' = "off" /\ leaving /\ faults' = faults =>
           control' = 1 /\ (raced \/ disk'.raw = mem.raw)]_vars

==============================================================================
