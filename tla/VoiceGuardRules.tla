--------------------------- MODULE VoiceGuardRules ---------------------------
(***************************************************************************)
(* The VoiceGuard Rule V1 xApp (xapps/voiceguard/voiceguard.py): a loop    *)
(* that samples the traffic of a run once a second, paces the video UEs    *)
(* down while a voice call suffers, and puts the pacing and the E2SM-RC    *)
(* grant limits back when the call is over, a control fails or the process *)
(* ends.                                                                   *)
(*                                                                         *)
(* Outside the process: the call, the pacing file the traffic helpers      *)
(* read, and the grant limits in the gNB, which the RC bridge changes.  A  *)
(* bridge call that fails may have applied any part of what was asked, and *)
(* so may one whose output cannot be decoded.                              *)
(* Time is the distance to the end of the cooldown, in seconds.            *)
(***************************************************************************)
EXTENDS Naturals

CONSTANTS
    RequiredSamples,    \* consecutive_samples
    Cooldown            \* cooldown_seconds

ASSUME SamplesArePositive == RequiredSamples \in Nat \ {0}
ASSUME CooldownIsNat == Cooldown \in Nat

VARIABLES
    call,       \* whether UE3 has an active rtp_voice job
    pacing,     \* the scale of ue1 and ue2 in the traffic control file
    grants,     \* the PRB grant limits in the gNB
    pc,         \* where the xApp is
    stop,       \* stop_requested
    bad,        \* bad_samples
    wasActive,  \* voice_was_active
    cooldown,   \* seconds until cooldown_until, as of the latest sample
    protected,
    rcReady,    \* rc_ready
    state,      \* state["state"]
    factor,     \* state["traffic_shaping_factor"]
    garbled,    \* the call whose undecodable answer left grants or pacing undecided
    unseen,     \* seconds since a good sample saw the call, up to Cooldown
    closedLoop, \* --mode closed_loop, otherwise observe_only; never changes
    differs     \* protected_policies # baseline_policies; never changes

config == <<closedLoop, differs>>
internal == <<bad, wasActive, cooldown, protected>>
history == <<garbled, unseen>>
vars == <<call, pacing, grants, pc, stop, bad, wasActive, cooldown, protected, rcReady,
          state, factor, history, config>>

------------------------------------------------------------------------------
Grants == {"untouched", "baseline", "protected", "mixed"}

\* What a bridge call asking for the policy leaves in the gNB.
AfterRc(policy, acked) ==
    IF acked \/ grants = policy THEN {policy} ELSE {grants, policy, "mixed"}

\* Controls are allowed and the RC link is believed to work.
MayControl == closedLoop /\ rcReady

Init ==
    /\ call = FALSE
    /\ pacing \in {"full", "reduced"}     \* as an xApp before has left it
    /\ grants = "untouched"
    /\ pc = "start"
    /\ stop = FALSE
    /\ bad = 0
    /\ wasActive = FALSE
    /\ cooldown = 0
    /\ protected = FALSE
    /\ rcReady = FALSE
    /\ state = "OBSERVING"
    /\ factor = "full"
    /\ garbled = "none"
    /\ unseen = Cooldown
    /\ closedLoop \in BOOLEAN
    /\ differs \in BOOLEAN

Running == pc \notin {"over", "crashed"}

(* The environment.                                                         *)

CallChanges ==
    /\ Running
    /\ call' = ~call
    /\ UNCHANGED <<pacing, grants, pc, stop, bad, wasActive, cooldown, protected, rcReady,
                   state, factor, history, config>>

\* SIGTERM or SIGINT sets a flag that only the loop looks at.
StopSignal ==
    /\ ~stop /\ Running
    /\ stop' = TRUE
    /\ UNCHANGED <<call, pacing, grants, pc, bad, wasActive, cooldown, protected, rcReady,
                   state, factor, history, config>>

------------------------------------------------------------------------------
(* Start: the pacing is put to full, then the RC link is proved by an       *)
(* acknowledged baseline before anything else.                              *)

Start ==
    /\ pc = "start"
    /\ pacing' = "full"
    /\ \/ /\ pc' = IF closedLoop THEN "baseline" ELSE "loop"
          /\ UNCHANGED state
       \/ /\ closedLoop         \* the RC bridge is not executable
          /\ pc' = "finally"
          /\ state' = "ERROR"
    /\ UNCHANGED <<call, grants, stop, internal, rcReady, factor, history, config>>

ApplyBaseline(acked) ==
    /\ pc = "baseline"
    /\ grants' \in AfterRc("baseline", acked)
    /\ rcReady' = acked
    /\ pc' = IF acked THEN "loop" ELSE "finally"
    /\ state' = IF acked THEN state ELSE "ERROR"
    /\ UNCHANGED <<call, pacing, stop, internal, factor, history, config>>

------------------------------------------------------------------------------
(* One sample.                                                              *)

\* The Manager or Prometheus cannot be read: nothing changes but the report.
SampleFails ==
    /\ pc = "loop" /\ ~stop
    /\ state' = "ERROR"
    /\ UNCHANGED <<call, pacing, grants, pc, stop, internal, rcReady, factor, history,
                   config>>

\* Mutant of CountBad: good samples do not break the row.
CountBadCumulative(suffers) ==
    bad' = IF suffers /\ bad < RequiredSamples THEN bad + 1 ELSE bad

\* bad_samples; counting stops where the code no longer tells counts apart.
CountBad(suffers) ==
    bad' = IF ~suffers THEN 0 ELSE IF bad < RequiredSamples THEN bad + 1 ELSE bad

\* Mutant of Remaining: a cooldown that runs is not started again when another
\* call ends.
RemainingOfFirst(elapsed) ==
    IF wasActive /\ ~call /\ cooldown = 0 THEN Cooldown
    ELSE IF cooldown > elapsed THEN cooldown - elapsed ELSE 0

\* Seconds left at this sample, `elapsed` after the previous one.
Remaining(elapsed) ==
    IF wasActive /\ ~call THEN Cooldown
    ELSE IF cooldown > elapsed THEN cooldown - elapsed ELSE 0

\* Mutant of MayRestore: only looked at in the sample that sees the call end.
MayRestoreOnEdge == protected /\ wasActive /\ ~call /\ cooldown' = 0 /\ MayControl

MayRestore == protected /\ ~call /\ cooldown' = 0 /\ MayControl

\* One round of the loop up to its RC call, if it makes one: jobs and metrics
\* are read, bad samples counted, the state chosen, the pacing file written.
\* voice_was_active is set last, so that a sample with an RC call sets it after.
Sample(degraded, elapsed) ==
    LET mustProtect == bad' >= RequiredSamples /\ ~protected IN
    /\ pc = "loop" /\ ~stop
    /\ CountBad(call /\ degraded)
    /\ cooldown' = Remaining(elapsed)
    /\ unseen' = IF call THEN 0
                 ELSE IF unseen + elapsed < Cooldown THEN unseen + elapsed ELSE Cooldown
    /\ state' = CASE mustProtect /\ MayControl                -> "PROTECTING"
                  [] mustProtect /\ ~MayControl               -> "WOULD_PROTECT"
                  [] ~mustProtect /\ protected                 -> "PROTECTING"
                  [] ~mustProtect /\ ~protected /\ cooldown' > 0  -> "COOLDOWN"
                  [] ~mustProtect /\ ~protected /\ cooldown' = 0  -> "OBSERVING"
    /\ \/ /\ mustProtect /\ MayControl
          /\ pacing' = "reduced"
          /\ pc' = "protect"
       \/ /\ MayRestore
          /\ pacing' = "full"
          /\ pc' = "restore"
       \/ /\ ~(mustProtect /\ MayControl) /\ ~MayRestore
          /\ UNCHANGED <<pacing, pc>>
    /\ wasActive' = IF pc' = "loop" THEN call ELSE wasActive
    /\ garbled' = IF pc' = "loop" THEN garbled ELSE "none"
    /\ UNCHANGED <<call, grants, stop, protected, rcReady, factor, config>>

\* Mutant of ApplyProtected: the pacing is left reduced when the RC call fails.
ApplyProtectedKeepsPacing(acked) ==
    /\ pc = "protect"
    /\ acked \/ differs
    /\ grants' \in IF differs THEN AfterRc("protected", acked) ELSE {grants}
    /\ protected' = acked
    /\ factor' = IF acked THEN "reduced" ELSE factor
    /\ pc' = IF acked THEN "loop" ELSE "rollback"
    /\ wasActive' = (acked \/ wasActive)
    /\ UNCHANGED <<call, pacing, stop, bad, cooldown, rcReady, state, history, config>>

\* Mutant of ApplyProtected: grant limits are sent even if they are the baseline's.
ApplyProtectedAlways(acked) ==
    /\ pc = "protect"
    /\ grants' \in AfterRc("protected", acked)
    /\ protected' = acked
    /\ factor' = IF acked THEN "reduced" ELSE factor
    /\ pacing' = IF acked THEN pacing ELSE "full"
    /\ pc' = IF acked THEN "loop" ELSE "rollback"
    /\ wasActive' = (acked \/ wasActive)
    /\ UNCHANGED <<call, stop, bad, cooldown, rcReady, state, history, config>>

\* The protected policies are sent if they differ from the baseline at all.
ApplyProtected(acked) ==
    /\ pc = "protect"
    /\ acked \/ differs
    /\ grants' \in IF differs THEN AfterRc("protected", acked) ELSE {grants}
    /\ protected' = acked
    /\ factor' = IF acked THEN "reduced" ELSE factor
    /\ pacing' = IF acked THEN pacing ELSE "full"
    /\ pc' = IF acked THEN "loop" ELSE "rollback"
    /\ wasActive' = (acked \/ wasActive)
    /\ UNCHANGED <<call, stop, bad, cooldown, rcReady, state, history, config>>

\* One attempt, whose answer is recorded and not looked at.
RollBack(acked) ==
    /\ pc = "rollback"
    /\ grants' \in AfterRc("baseline", acked)
    /\ state' = "ERROR"
    /\ rcReady' = FALSE
    /\ wasActive' = TRUE
    /\ pc' = "loop"
    /\ UNCHANGED <<call, pacing, stop, bad, cooldown, protected, factor, history, config>>

Restore(acked) ==
    /\ pc = "restore"
    /\ grants' \in AfterRc("baseline", acked)
    /\ protected' = ~acked
    /\ rcReady' = acked
    /\ state' = IF acked THEN "OBSERVING" ELSE "ERROR"
    /\ factor' = IF acked THEN "full" ELSE factor
    /\ wasActive' = FALSE
    /\ pc' = "loop"
    /\ UNCHANGED <<call, pacing, stop, bad, cooldown, history, config>>

\* The bridge answers in bytes that are no text: subprocess.run raises ValueError.
\* In the loop this is taken for a failed read, and the sample ends where it was;
\* outside it is an exception like any other.
BridgeGarbles ==
    /\ \/ pc \in {"baseline", "rollback", "restore", "lastRestore"}
       \/ pc = "protect" /\ differs
    /\ \E acked \in BOOLEAN :
           grants' \in AfterRc(IF pc = "protect" THEN "protected" ELSE "baseline", acked)
    /\ pc' = CASE pc = "baseline"    -> "finally"
               [] pc = "lastRestore" -> "crashed"
               [] OTHER              -> "loop"
    /\ state' = IF pc' = "loop" THEN "ERROR" ELSE state
    /\ garbled' = pc
    /\ UNCHANGED <<call, pacing, stop, internal, rcReady, factor, unseen, config>>

\* Any other exception (the state or the pacing file cannot be written).
Raises ==
    /\ pc \in {"start", "loop", "protect", "rollback", "restore"}
    /\ pc' = "finally"
    /\ UNCHANGED <<call, pacing, grants, stop, internal, rcReady, state, factor, history,
                   config>>

------------------------------------------------------------------------------
(* The end.                                                                 *)

LeaveLoop ==
    /\ pc = "loop" /\ stop
    /\ pc' = "finally"
    /\ UNCHANGED <<call, pacing, grants, stop, internal, rcReady, state, factor, history,
                   config>>

\* Mutant of Finally: the pacing is only put back after a protection.
FinallyIfProtected ==
    /\ pc = "finally"
    /\ pacing' = IF protected THEN "full" ELSE pacing
    /\ factor' = "full"
    /\ pc' = IF MayControl THEN "lastRestore" ELSE "over"
    /\ state' = IF MayControl \/ state = "ERROR" THEN state ELSE "OFF"
    /\ UNCHANGED <<call, grants, stop, internal, rcReady, history, config>>

\* The pacing always goes back to full; the RC baseline is only sent again
\* while the link is believed to work.
Finally ==
    /\ pc = "finally"
    /\ pacing' = "full"
    /\ factor' = "full"
    /\ pc' = IF MayControl THEN "lastRestore" ELSE "over"
    /\ state' = IF MayControl \/ state = "ERROR" THEN state ELSE "OFF"
    /\ UNCHANGED <<call, grants, stop, internal, rcReady, history, config>>

\* The pacing file cannot be written even then: the exception ends the process.
FinallyFails ==
    /\ pc = "finally"
    /\ pc' = "crashed"
    /\ UNCHANGED <<call, pacing, grants, stop, internal, rcReady, state, factor, history,
                   config>>

LastRestore(acked) ==
    /\ pc = "lastRestore"
    /\ grants' \in AfterRc("baseline", acked)
    /\ state' = IF acked THEN "OFF" ELSE "ERROR"
    /\ pc' = "over"
    /\ UNCHANGED <<call, pacing, stop, internal, rcReady, factor, history, config>>

------------------------------------------------------------------------------
\* Seconds between two samples: the interval, or more when the bridge was slow.
Elapsed == {1, Cooldown + 1}

GoodSample == \E degraded \in BOOLEAN, elapsed \in Elapsed : Sample(degraded, elapsed)

Step ==
    \/ Start \/ GoodSample \/ SampleFails \/ LeaveLoop \/ Finally
    \/ \E acked \in BOOLEAN :
           \/ ApplyBaseline(acked) \/ ApplyProtected(acked) \/ RollBack(acked)
           \/ Restore(acked) \/ LastRestore(acked)

Next == CallChanges \/ StopSignal \/ Step \/ BridgeGarbles \/ Raises \/ FinallyFails

Spec == Init /\ [][Next]_vars

\* The loop never blocks: every request and bridge call has a timeout.  Metrics
\* that can be read again and again are read again and again.
FairSpec == Spec /\ WF_vars(Step) /\ SF_vars(GoodSample)

------------------------------------------------------------------------------
(* Properties.                                                              *)

\* Every variable stays in its domain.
TypeOK ==
    /\ {call, stop, wasActive, protected, rcReady, closedLoop, differs} \subseteq BOOLEAN
    /\ {pacing, factor} \subseteq {"full", "reduced"}
    /\ grants \in Grants
    /\ pc \in {"start", "baseline", "loop", "protect", "rollback", "restore", "finally",
               "lastRestore", "over", "crashed"}
    /\ bad \in 0 .. RequiredSamples
    /\ cooldown \in 0 .. Cooldown /\ unseen \in 0 .. Cooldown
    /\ garbled \in {"none", "baseline", "protect", "rollback", "restore", "lastRestore"}
    /\ state \in {"OBSERVING", "WOULD_PROTECT", "PROTECTING", "COOLDOWN", "ERROR", "OFF"}

\* However the xApp ends, by a signal or by an exception at any point, it leaves
\* the video traffic unpaced, unless the pacing file cannot be written any more.
EndsUnpaced == pc = "over" => pacing = "full"

\* Between samples the report never hides a reduction: reduced pacing belongs to
\* a protection that is on, and is reported.  Only a protection whose RC answer
\* could not be decoded leaves the reduction behind without one.
ReductionReported ==
    pc = "loop" /\ pacing = "reduced" =>
        \/ protected /\ factor = "reduced"
        \/ garbled = "protect"

\* Reduced pacing is never left behind and never hidden.
UnpacedOrReported == EndsUnpaced /\ ReductionReported

\* However calls come and go, samples fail and RC calls end, the loop gives the
\* pacing back only when the last good sample that saw the call is a whole cooldown
\* ago: a second call, or a failed read at the end of one, never shortens it.
CooldownOfLastCall ==
    [][pc = "loop" /\ pacing = "reduced" /\ pacing' = "full" => unseen' >= Cooldown]_vars

\* A single bad sample never starts a protection: the sample before it saw the
\* call too, and failed reads in between neither count nor excuse.
ProtectsSustained ==
    [][pc = "loop" /\ pc' = "protect" /\ RequiredSamples > 1 => wasActive /\ call]_vars

\* In a row of samples without a call, however it is interrupted by telemetry
\* failures and failed controls, the pacing is eventually released, unless the
\* answer to its protection could not be decoded.
PacingReleased ==
    []<>(pacing = "full") \/ []<>call \/ []<>(garbled = "protect") \/ <>(pc = "crashed")

\* An xApp that reports OFF has left the grant limits at their baseline: "stop
\* and abnormal exit also restore the baseline".
OffMeansBaseline == pc = "over" /\ state = "OFF" => grants \in {"untouched", "baseline"}

\* With protected policies that are the baseline's, as by default, it does, if the
\* answer to the first baseline could be decoded.
DefaultOffMeansBaseline == ~differs /\ garbled # "baseline" => OffMeansBaseline

Phase == CASE pc = "start"                                       -> "begin"
           [] pc \in {"baseline", "loop", "rollback", "restore"} -> "loop"
           [] pc = "protect"                                     -> "sample"
           [] pc = "finally"                                     -> "leave"
           [] pc \in {"lastRestore", "over"}                     -> "final"
           [] pc = "crashed"                                     -> "gone"

\* Rule V1 touches the pacing file only as an xApp may: what VoiceGuardProcess
\* takes for granted of its processes, the reset at the end included.
Contract == INSTANCE XappContract WITH phase <- Phase, stop <- stop,
                                       reduced <- pacing = "reduced"
ImplementsXapp == Contract!Spec
==============================================================================
