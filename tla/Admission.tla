------------------------------ MODULE Admission ------------------------------
(***************************************************************************)
(* How the UEs of a run get on the air, one after another, and how the KPM *)
(* exporter later tells their reports apart.  Five parties share a file,   *)
(* the UE logs and the air: the controller that admits (oranlabctl.py),    *)
(* the broker that mutes the UEs not yet admitted (multi_ue_scenario.py),  *)
(* the UEs, the gNB that gives a gNB-CU-UE-F1AP-ID to every connection     *)
(* attempt, and the exporter that names the n-th identifier after the n-th *)
(* UE (kpm_exporter.py).  Time is abstracted: a deadline may pass whenever *)
(* something is being waited for, a report ages once no other follows.     *)
(***************************************************************************)
EXTENDS Naturals, FiniteSets

CONSTANTS
    Enabled,    \* the UE slots of the run
    MaxIds,     \* bound: F1AP identifiers one gNB gives out
    MaxStarts   \* bound: how many times the stack is started

ASSUME SlotsAreNumbers == Enabled \subseteq Nat \ {0} /\ Enabled # {} /\ IsFiniteSet(Enabled)
ASSUME BoundsAreNat == MaxIds \in Nat /\ MaxStarts \in Nat

VARIABLES
    ctl,        \* the controller: where it is, and the UE it admits
    file,       \* run/manager/ue-admission-stage; 0 when there is none
    broker,     \* the stage the broker has applied; 0 while it does not run
    ue,         \* the srsUE processes
    log,        \* the UEs whose log shows a PDU session
    owner,      \* the UE each identifier was given to; 0 when not given out
    context,    \* the identifiers whose context the gNB still has
    next,       \* next_cu_ue_f1ap_id
    kpm,        \* the exporter and its collector process
    fresh,      \* identifiers with a report of the last five seconds
    stale,      \* identifiers whose last report is older
    early,      \* a UE took a second identifier before every UE had its first
    starts      \* how many times the stack was started

vars == <<ctl, file, broker, ue, log, owner, context, next, kpm, fresh, stale, early, starts>>
gnb == <<owner, context, next, early>>
reports == <<fresh, stale>>

------------------------------------------------------------------------------
N == Cardinality(Enabled)
Ids == 0 .. MaxIds - 1

\* Where the broker counts a slot: self.slots is sorted.
Position(s) == Cardinality({t \in Enabled : t <= s})

\* Mutant of Nth: the slots of active-run.json are not sorted.
NthUnsorted(k) == CHOOSE s \in Enabled : Position(s) = N + 1 - k

\* The k-th slot of active-run.json, as the generator writes it.
Nth(k) == CHOOSE s \in Enabled : Position(s) = k

\* ue_name: the slot an identifier is reported as; 0 is "unknown".
UeName(id) == IF id < N THEN Nth(id + 1) ELSE 0

\* requested_admission_stage, clamped by set_admission_stage of the broker.
Requested == IF file = 0 THEN 1 ELSE IF file > N THEN N ELSE file

\* A UE is heard by the gNB when the broker does not mute it.
Unmuted == {s \in Enabled : Position(s) <= broker}

Init ==
    /\ ctl = [pc |-> "off", stage |-> 1]
    /\ file = 0
    /\ broker = 0
    /\ ue = [s \in Enabled |-> "off"]
    /\ log = {}
    /\ owner = [id \in Ids |-> 0]
    /\ context = {}
    /\ next = 0
    /\ kpm = "off"
    /\ fresh = {}
    /\ stale = {}
    /\ early = FALSE
    /\ starts = 0

------------------------------------------------------------------------------
(* The controller: start() and stop() of oranlabctl.                        *)

\* Mutant of Start: the logs of the last run are left where they are.
StartKeepsLogs ==
    /\ ctl.pc = "off" /\ starts < MaxStarts
    /\ ctl' = [pc |-> "boot", stage |-> 1]
    /\ file' = 1
    /\ starts' = starts + 1
    /\ UNCHANGED <<broker, ue, log, gnb, kpm, reports>>

\* Mutant of Start: the stage file is first written when the first UE is admitted.
StartKeepsStage ==
    /\ ctl.pc = "off" /\ starts < MaxStarts
    /\ ctl' = [pc |-> "boot", stage |-> 1]
    /\ log' = {}
    /\ starts' = starts + 1
    /\ UNCHANGED <<file, broker, ue, gnb, kpm, reports>>

\* The logs go, and stage 1 is written before anything runs.
Start ==
    /\ ctl.pc = "off" /\ starts < MaxStarts
    /\ ctl' = [pc |-> "boot", stage |-> 1]
    /\ file' = 1
    /\ log' = {}
    /\ starts' = starts + 1
    /\ UNCHANGED <<broker, ue, gnb, kpm, reports>>

\* gNB, broker and, where it is built, the exporter; each starts from nothing.
StartRadio ==
    /\ ctl.pc = "boot"
    /\ ctl' = [ctl EXCEPT !.pc = "ues"]
    /\ broker' = Requested
    /\ owner' = [id \in Ids |-> 0]
    /\ context' = {} /\ next' = 0 /\ early' = FALSE
    /\ kpm' \in {"off", "up"}
    /\ fresh' = {} /\ stale' = {}
    /\ UNCHANGED <<file, ue, log, starts>>

StartUe(s) ==
    /\ ctl.pc = "ues"
    /\ ue[s] = "off"
    /\ ue' = [ue EXCEPT ![s] = "search"]
    /\ ctl' = [ctl EXCEPT !.pc = IF \A t \in Enabled : ue'[t] # "off" THEN "admit" ELSE "ues"]
    /\ UNCHANGED <<file, broker, log, gnb, kpm, reports, starts>>

\* set_admission_stage of the controller.
Admit ==
    /\ ctl.pc = "admit"
    /\ file' = ctl.stage
    /\ ctl' = [ctl EXCEPT !.pc = "wait"]
    /\ UNCHANGED <<broker, ue, log, gnb, kpm, reports, starts>>

\* wait_for_log finds the PDU session of the UE it admitted.
SeesAttach ==
    /\ ctl.pc = "wait"
    /\ Nth(ctl.stage) \in log
    /\ ctl' = IF ctl.stage = N THEN [ctl EXCEPT !.pc = "up"]
              ELSE [pc |-> "admit", stage |-> ctl.stage + 1]
    /\ UNCHANGED <<file, broker, ue, log, gnb, kpm, reports, starts>>

\* A component fails, a deadline passes, or the UE's process is gone.
GivesUp ==
    /\ ctl.pc \in {"boot", "ues", "admit", "wait"}
    /\ ctl' = [ctl EXCEPT !.pc = "stop"]
    /\ UNCHANGED <<file, broker, ue, log, gnb, kpm, reports, starts>>

OperatorStops ==
    /\ ctl.pc = "up"
    /\ ctl' = [ctl EXCEPT !.pc = "stop"]
    /\ UNCHANGED <<file, broker, ue, log, gnb, kpm, reports, starts>>

\* The exporter goes while gNB and RIC are still up.
StopKpm ==
    /\ ctl.pc = "stop"
    /\ kpm' = "off"
    /\ fresh' = {} /\ stale' = {}
    /\ ctl' = [ctl EXCEPT !.pc = "kill"]
    /\ UNCHANGED <<file, broker, ue, log, gnb, starts>>

StopRadio ==
    /\ ctl.pc = "kill"
    /\ broker' = 0
    /\ ue' = [s \in Enabled |-> "off"]
    /\ context' = {}
    /\ ctl' = [ctl EXCEPT !.pc = "clean"]
    /\ UNCHANGED <<file, log, owner, next, early, kpm, reports, starts>>

StopCleans ==
    /\ ctl.pc = "clean"
    /\ file' = 0
    /\ ctl' = [ctl EXCEPT !.pc = "off"]
    /\ UNCHANGED <<broker, ue, log, gnb, kpm, reports, starts>>

\* The host goes down; the stage file and the logs survive it.
HostReboots ==
    /\ ctl.pc # "off"
    /\ ctl' = [ctl EXCEPT !.pc = "off"]
    /\ broker' = 0
    /\ ue' = [s \in Enabled |-> "off"]
    /\ context' = {}
    /\ kpm' = "off"
    /\ fresh' = {} /\ stale' = {}
    /\ UNCHANGED <<file, log, owner, next, early, starts>>

Controller ==
    \/ StartRadio \/ Admit \/ SeesAttach \/ GivesUp \/ StopKpm \/ StopRadio \/ StopCleans
    \/ \E s \in Enabled : StartUe(s)

------------------------------------------------------------------------------
(* The broker, the UEs and the gNB.                                         *)

\* The broker looks at the stage file every quarter of a second.
BrokerPolls ==
    /\ broker # 0
    /\ broker' = Requested
    /\ UNCHANGED <<ctl, file, ue, log, gnb, kpm, reports, starts>>

HasId(s) == \E id \in Ids : owner[id] = s

\* Initial UL RRC message: every attempt gets the next identifier, in turn,
\* although the gNB may still have the context of the attempt before.
Connects(s) ==
    /\ ue[s] = "search" /\ s \in Unmuted /\ next < MaxIds
    /\ ue' = [ue EXCEPT ![s] = "setup"]
    /\ owner' = [owner EXCEPT ![next] = s]
    /\ context' = context \cup {next}
    /\ next' = next + 1
    /\ early' = (early \/ (HasId(s) /\ \E t \in Enabled : ~HasId(t)))
    /\ UNCHANGED <<ctl, file, broker, log, kpm, reports, starts>>

Attaches(s) ==
    /\ ue[s] = "setup"
    /\ ue' = [ue EXCEPT ![s] = "attached"]
    /\ log' = log \cup {s}
    /\ UNCHANGED <<ctl, file, broker, gnb, kpm, reports, starts>>

\* The set-up fails, or the radio link does later: the UE searches again.
LosesLink(s) ==
    /\ ue[s] \in {"setup", "attached"}
    /\ ue' = [ue EXCEPT ![s] = "search"]
    /\ UNCHANGED <<ctl, file, broker, log, gnb, kpm, reports, starts>>

\* The context a UE is using: its newest.
InUse(id) ==
    /\ ue[owner[id]] \in {"setup", "attached"}
    /\ \A other \in Ids : owner[other] = owner[id] => other <= id

Releases(id) ==
    /\ id \in context
    /\ ~InUse(id)
    /\ context' = context \ {id}
    /\ UNCHANGED <<ctl, file, broker, ue, log, owner, next, early, kpm, reports, starts>>

------------------------------------------------------------------------------
(* The exporter.                                                            *)

\* Mutant of CollectorStarts: the collector is started once, not in a loop.
CollectorStartsOnce ==
    /\ kpm = "up" /\ fresh \cup stale = {}
    /\ kpm' = "collecting"
    /\ UNCHANGED <<ctl, file, broker, ue, log, gnb, reports, starts>>

\* collector_loop starts the native collector, again and again; what it has
\* reported before stays.
CollectorStarts ==
    /\ kpm = "up"
    /\ kpm' = "collecting"
    /\ UNCHANGED <<ctl, file, broker, ue, log, gnb, reports, starts>>

CollectorExits ==
    /\ kpm = "collecting"
    /\ kpm' = "up"
    /\ UNCHANGED <<ctl, file, broker, ue, log, gnb, reports, starts>>

\* handle_line: a UE-level report of a UE the gNB has a context for.
Report(id) ==
    /\ kpm = "collecting"
    /\ id \in context
    /\ fresh' = fresh \cup {id}
    /\ stale' = stale \ {id}
    /\ UNCHANGED <<ctl, file, broker, ue, log, gnb, kpm, starts>>

\* Five seconds without a report.
Ages(id) ==
    /\ id \in fresh
    /\ id \notin context \/ kpm # "collecting"
    /\ fresh' = fresh \ {id}
    /\ stale' = stale \cup {id}
    /\ UNCHANGED <<ctl, file, broker, ue, log, gnb, kpm, starts>>

Next ==
    \/ Start \/ Controller \/ OperatorStops \/ HostReboots
    \/ BrokerPolls
    \/ \E s \in Enabled : Connects(s) \/ Attaches(s) \/ LosesLink(s)
    \/ CollectorStarts \/ CollectorExits
    \/ \E id \in Ids : Releases(id) \/ Report(id) \/ Ages(id)

Spec == Init /\ [][Next]_vars

\* The collector loop restarts after at most thirty seconds, and a collector that
\* keeps being restarted reports now and then.  Nothing makes a UE attach or the
\* host fail.
Fairness ==
    /\ WF_vars(CollectorStarts)
    /\ \A id \in Ids : SF_vars(Report(id))

FairSpec == Spec /\ Fairness

------------------------------------------------------------------------------
(* Properties.                                                              *)

\* Every file, process, identifier and report stays in its domain.
TypeOK ==
    /\ ctl \in [pc : {"off", "boot", "ues", "admit", "wait", "up", "stop", "kill", "clean"},
                stage : 1 .. N]
    /\ file \in 0 .. N
    /\ broker \in 0 .. N
    /\ ue \in [Enabled -> {"off", "search", "setup", "attached"}]
    /\ log \subseteq Enabled
    /\ owner \in [Ids -> Enabled \cup {0}]
    /\ context \subseteq Ids
    /\ next \in 0 .. MaxIds
    /\ kpm \in {"off", "up", "collecting"}
    /\ fresh \subseteq Ids /\ stale \subseteq Ids
    /\ early \in BOOLEAN
    /\ starts \in 0 .. MaxStarts

\* "Only one UE at a time is admitted to Random Access": of the UEs the gNB can
\* hear at most one has never been attached, whatever stage file and logs an
\* earlier run left behind and however far the broker lags.
OneAtATime == \A s, t \in Unmuted \ log : s = t

\* A UE that has been admitted is not muted again while its broker runs.
StaysAdmitted == [][broker # 0 /\ broker' # 0 => broker' >= broker]_vars

\* A start that succeeds has brought every UE onto this very gNB.
UpMeansAllAttached == ctl.pc = "up" => \A s \in Enabled : HasId(s)

\* The rows of /metrics and /kpm.json.
Reported == fresh \cup stale

\* What the exporter's documentation says: a report is attributed to the UE it
\* is about, or to nobody.
NamesRight == \A id \in Reported : UeName(id) \in {owner[id], 0}

\* It is right as long as no UE needed a second identifier before every UE had
\* its first.
NamesRightUnlessEarly == early \/ NamesRight

\* A UE that stays attached keeps being exported, however often the collector
\* exits.
AttachedIsReported ==
    \A s \in Enabled :
        <>[](ue[s] = "attached" /\ kpm # "off") => []<>(\E id \in fresh : owner[id] = s)
==============================================================================
