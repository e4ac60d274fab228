---------------------------- MODULE VoiceGuardRF ----------------------------
(***************************************************************************)
(* The VoiceGuard RF V2 xApp (xapps/voiceguard_rf/voiceguard_rf.py, which   *)
(* xapps/voiceguard_rf_3ue runs as it is with other UEs): once a second it *)
(* looks at the calls of a run; for every new combination of calls a       *)
(* random forest picks one of four pacing levels; from then on a safety    *)
(* layer only strengthens it, and without calls it is taken back level by  *)
(* level.                                                                  *)
(*                                                                         *)
(* The forest, the medians and the SLA test are choices: any level, met or *)
(* not met.  stable_samples is never read and left out.  Time is the       *)
(* distance to next_restore_at, in seconds.                                *)
(***************************************************************************)
EXTENDS Naturals

CONSTANTS
    VoiceUEs,           \* VOICE_UES
    Window,             \* decision_window
    RequiredSamples,    \* consecutive_samples
    RestoreStep         \* restore_step_seconds

ASSUME SizesArePositive ==
    Window \in Nat \ {0} /\ RequiredSamples \in Nat \ {0} /\ RestoreStep \in Nat \ {0}

VARIABLES
    calls,          \* the UEs whose rtp_voice job is active and offers load
    pacing,         \* the level in the traffic control file
    pc,             \* where the xApp is
    stop,           \* stop_requested
    signature,      \* previous_voice_signature
    history,        \* samples in feature_history
    initialized,    \* decision_initialized
    bad,            \* bad_samples
    healthy,        \* whether the latest sample met the SLA
    predicted,      \* predicted_policy
    policy,         \* current_policy
    wait,           \* seconds to next_restore_at, as of the latest sample
    acked,          \* the RC baseline was acknowledged (e2_connected)
    state,          \* state["state"]
    closedLoop,     \* --mode closed_loop, otherwise observe_only; never changes
    writesFail      \* whether file writes may fail; never changes

config == <<closedLoop, writesFail>>
decision == <<signature, history, initialized, bad, healthy, predicted, policy, wait>>
vars == <<calls, pacing, pc, stop, decision, acked, state, config>>

------------------------------------------------------------------------------
\* EQUAL_100, LIGHT_85, MEDIUM_70 and STRONG_40, in POLICY_ORDER.
Levels == 0 .. 3

Least(m, n) == IF m < n THEN m ELSE n
Minus(m, n) == IF m > n THEN m - n ELSE 0

\* Seconds between two samples: the interval, or more when requests were slow.
Elapsed == {1, RestoreStep + 1}

Init ==
    /\ calls = {}
    /\ pacing \in Levels    \* as an xApp before has left it
    /\ pc = "start"
    /\ stop = FALSE
    /\ signature = {}
    /\ history = 0
    /\ initialized = FALSE
    /\ bad = 0
    /\ healthy = FALSE
    /\ predicted = 0
    /\ policy = 0
    /\ wait = 0
    /\ acked = FALSE
    /\ state = "OBSERVING"
    /\ closedLoop \in BOOLEAN
    /\ writesFail \in BOOLEAN

Running == pc \notin {"over", "crashed"}

(* The environment.                                                         *)

CallsChange ==
    /\ Running
    /\ calls' \in SUBSET VoiceUEs \ {calls}
    /\ UNCHANGED <<pacing, pc, stop, decision, acked, state, config>>

\* SIGTERM or SIGINT sets a flag that only the loop looks at.
StopSignal ==
    /\ ~stop /\ Running
    /\ stop' = TRUE
    /\ UNCHANGED <<calls, pacing, pc, decision, acked, state, config>>

------------------------------------------------------------------------------
\* The pacing is put to full; a closed loop then asks for the RC baseline, and
\* goes on whether or not it is acknowledged.
Start ==
    /\ pc = "start"
    /\ pacing' = 0
    /\ pc' = "loop"
    /\ acked' \in IF closedLoop THEN BOOLEAN ELSE {FALSE}
    /\ UNCHANGED <<calls, stop, decision, state, config>>

------------------------------------------------------------------------------
(* One sample.                                                              *)

Changed == calls # signature

\* The decision for this combination of calls has been taken.
Decided == initialized /\ ~Changed

\* Samples of this combination with the present one.
Collected == IF Changed THEN 1 ELSE Least(history + 1, Window)

\* bad_samples; counting stops where the code no longer tells counts apart.
BadInARow(ok) ==
    IF calls = {} \/ ok THEN 0
    ELSE Least((IF Changed THEN 0 ELSE bad) + 1, RequiredSamples)

\* Mutant of Due: the clock of the restoration is not started by the end of the calls.
DueAfterStep(elapsed) ==
    IF Changed /\ calls = {} THEN RestoreStep + 1 ELSE Minus(wait, elapsed)

\* Seconds to the next restoration step: none when the calls have just ended.
Due(elapsed) == IF Changed /\ calls = {} THEN 0 ELSE Minus(wait, elapsed)

\* What every sample that reads its metrics records first.
Observe(ok) ==
    /\ pc = "loop" /\ ~stop
    /\ signature' = calls
    /\ history' = Collected
    /\ healthy' = ok

\* The state reported at the end of a sample.
Report ==
    CASE calls # {} /\ closedLoop /\ policy' > 0     -> "PROTECTING"
      [] calls # {} /\ ~closedLoop /\ predicted' > 0 -> "WOULD_PROTECT"
      [] calls = {} /\ policy' > 0                   -> "COOLDOWN"
      [] OTHER                                       -> "OBSERVING"

\* The report reaches the state file, or the failure is what is reported.
Finish ==
    /\ state' \in {Report} \cup (IF writesFail THEN {"ERROR"} ELSE {})
    /\ UNCHANGED <<calls, pc, stop, acked, config>>

\* Mutant of Apply: the pacing file only ever gets stronger.
ApplyStronger(target) ==
    /\ policy' = IF closedLoop THEN target ELSE policy
    /\ pacing' = IF policy' > policy THEN target ELSE pacing
    /\ Finish

\* A new level is adopted, then written.
Apply(target) ==
    /\ policy' = IF closedLoop THEN target ELSE policy
    /\ pacing' = IF policy' # policy THEN target ELSE pacing
    /\ Finish

\* The write fails: the level stays adopted, and the exception ends the sample.
ApplyFails(target) ==
    /\ writesFail
    /\ closedLoop /\ target # policy
    /\ policy' = target
    /\ state' = "ERROR"
    /\ UNCHANGED <<calls, pacing, pc, stop, acked, config>>

\* Too few samples of this combination.
Collect(ok, elapsed) ==
    /\ calls # {} /\ Collected < Window
    /\ Observe(ok)
    /\ initialized' = Decided
    /\ bad' = BadInARow(ok)
    /\ wait' = Due(elapsed)
    /\ predicted' = predicted
    /\ Apply(policy)

\* The inference raises: the sample is kept, the decision is still to be taken.
InferenceFails(ok, elapsed) ==
    /\ calls # {} /\ Collected = Window /\ ~Decided
    /\ Observe(ok)
    /\ initialized' = FALSE
    /\ bad' = BadInARow(ok)
    /\ wait' = Due(elapsed)
    /\ state' = "ERROR"
    /\ UNCHANGED <<calls, pacing, pc, stop, predicted, policy, acked, config>>

\* The forest selects any level.
Decide(ok, elapsed) ==
    /\ calls # {} /\ Collected = Window /\ ~Decided
    /\ Observe(ok)
    /\ initialized' = TRUE
    /\ bad' = 0
    /\ wait' = Due(elapsed)
    /\ predicted' \in Levels
    /\ Apply(predicted') \/ ApplyFails(predicted')

\* Mutant of Guarded: the safety layer steps down when it should step up.
GuardedDown == Minus(policy, 1)

\* Mutant of Guarded: the strongest level is never reached.
GuardedCapped == IF policy < 2 THEN policy + 1 ELSE policy

\* The level the safety layer goes to: one up, and never past the strongest.
Guarded == Least(3, policy + 1)

\* A decided combination: RequiredSamples bad samples in a row strengthen it.
Hold(ok, elapsed) ==
    LET sustained == BadInARow(ok) >= RequiredSamples
        target == IF sustained THEN Guarded ELSE policy
    IN
    /\ calls # {} /\ Collected = Window /\ Decided
    /\ Observe(ok)
    /\ initialized' = TRUE
    /\ bad' = IF sustained THEN 0 ELSE BadInARow(ok)
    /\ wait' = Due(elapsed)
    /\ predicted' = predicted
    /\ Apply(target) \/ ApplyFails(target)

\* Mutant of Weaker: everything is given back at once.
WeakerAtOnce == 0

\* One level down.
Weaker == Minus(policy, 1)

\* No calls: one level is given back every RestoreStep seconds.
Release(ok, elapsed) ==
    LET restoring == closedLoop /\ policy > 0 /\ Due(elapsed) = 0 IN
    /\ calls = {}
    /\ Observe(ok)
    /\ initialized' = Decided
    /\ bad' = 0
    /\ predicted' = predicted
    /\ \/ /\ Apply(IF restoring THEN Weaker ELSE policy)
          /\ wait' = IF restoring THEN RestoreStep ELSE Due(elapsed)
       \/ /\ restoring
          /\ ApplyFails(Weaker)
          /\ wait' = Due(elapsed)

\* The jobs of the run cannot be read.
SampleFails ==
    /\ pc = "loop" /\ ~stop
    /\ state' = "ERROR"
    /\ UNCHANGED <<calls, pacing, pc, stop, decision, acked, config>>

------------------------------------------------------------------------------
(* The end.                                                                 *)

LeaveLoop ==
    /\ pc = "loop" /\ stop
    /\ pc' = "finally"
    /\ UNCHANGED <<calls, pacing, stop, decision, acked, state, config>>

\* The first write fails, or the report of a failed sample cannot be written.
Raises ==
    /\ writesFail
    /\ pc \in {"start", "loop"}
    /\ pc' = "finally"
    /\ UNCHANGED <<calls, pacing, stop, decision, acked, state, config>>

\* Mutant of Finally: the pacing is only put back when a policy is in force.
FinallyIfPolicy ==
    /\ pc = "finally"
    /\ pacing' = IF policy > 0 THEN 0 ELSE pacing
    /\ pc' = "over"
    /\ state' = "OFF"
    /\ UNCHANGED <<calls, stop, decision, acked, config>>

Finally ==
    /\ pc = "finally"
    /\ pacing' = 0
    /\ pc' = "over"
    /\ state' = "OFF"
    /\ UNCHANGED <<calls, stop, decision, acked, config>>

\* The pacing file cannot be written even then.
FinallyFails ==
    /\ writesFail
    /\ pc = "finally"
    /\ pc' = "crashed"
    /\ UNCHANGED <<calls, pacing, stop, decision, acked, state, config>>

------------------------------------------------------------------------------
Sample(ok, elapsed) ==
    \/ Collect(ok, elapsed) \/ Decide(ok, elapsed)
    \/ Hold(ok, elapsed) \/ Release(ok, elapsed)

\* A sample that reports what it did.
GoodSample ==
    /\ \E ok \in BOOLEAN, elapsed \in Elapsed : Sample(ok, elapsed)
    /\ state' # "ERROR"

Step ==
    \/ Start \/ SampleFails \/ LeaveLoop \/ Finally
    \/ \E ok \in BOOLEAN, elapsed \in Elapsed :
           Sample(ok, elapsed) \/ InferenceFails(ok, elapsed)

Next == CallsChange \/ StopSignal \/ Step \/ Raises \/ FinallyFails

Spec == Init /\ [][Next]_vars

\* The loop never blocks: every request has a timeout.  What can be read and
\* written again and again is, again and again.
FairSpec == Spec /\ WF_vars(Step) /\ SF_vars(GoodSample)

------------------------------------------------------------------------------
(* Properties.                                                              *)

\* Every variable stays in its domain.
TypeOK ==
    /\ calls \subseteq VoiceUEs
    /\ signature \subseteq VoiceUEs
    /\ {stop, initialized, healthy, acked, closedLoop, writesFail} \subseteq BOOLEAN
    /\ {pacing, predicted, policy} \subseteq Levels
    /\ pc \in {"start", "loop", "finally", "over", "crashed"}
    /\ history \in 0 .. Window
    /\ bad \in 0 .. RequiredSamples
    /\ wait \in 0 .. RestoreStep
    /\ state \in {"OBSERVING", "WOULD_PROTECT", "PROTECTING", "COOLDOWN", "ERROR", "OFF"}

\* However the xApp ends, it leaves the video traffic unpaced, unless the pacing
\* file cannot be written any more.
EndsUnpaced == pc = "over" => pacing = 0

\* While its files can be written, the loop never paces more than it reports:
\* OBSERVING and WOULD_PROTECT, all that observe_only ever says, mean full load.
ReductionReported ==
    ~writesFail /\ pc = "loop" /\ pacing > 0 =>
        /\ closedLoop
        /\ state \in {"PROTECTING", "COOLDOWN", "ERROR"}

\* Reduced pacing is never left behind and never hidden.
UnpacedOrReported == EndsUnpaced /\ ReductionReported

\* Once decided, the protection of a combination of calls never relaxes and is
\* never decided again, and it grows by one level at a time, whatever samples,
\* inferences and writes fail in between.
OnlyStrengthens ==
    [][initialized /\ signature # {} /\ signature' = signature
           => initialized' /\ policy' \in {policy, policy + 1}]_vars

\* While files can be written, pacing is given back one level at a time, unless a
\* new combination of calls is decided or the xApp ends.
GradualRelease ==
    [][~writesFail /\ pc = "loop" /\ pacing' < pacing
           => \/ pacing' = pacing - 1 /\ signature' = {}
              \/ initialized' /\ (initialized => signature' # signature)]_vars

\* A combination of calls that stays below the SLA is in the end, and from then on,
\* protected as strongly as possible by a closed loop whose files can be written.
ReachesStrongest ==
    closedLoop /\ ~writesFail =>
        \A s \in SUBSET VoiceUEs \ {{}} :
            <>[](pc = "loop" /\ signature = s /\ ~healthy) => <>[](pacing = 3)

\* Once there are no more calls, the pacing is in the end back to full for good.
PacingReleased == <>[](calls = {}) => <>[](pacing = 0 \/ pc = "crashed")

\* So it is at least while files can be written.
ReleasedIfWritable == ~writesFail => PacingReleased

Phase == CASE pc = "start"   -> "begin"
           [] pc = "loop"    -> "loop"
           [] pc = "finally" -> "leave"
           [] pc = "over"    -> "final"
           [] pc = "crashed" -> "gone"

\* RF touches the pacing file only as an xApp may: what VoiceGuardProcess takes
\* for granted of its processes, the reset at the end included.
Contract == INSTANCE XappContract WITH phase <- Phase, stop <- stop, reduced <- pacing > 0
ImplementsXapp == Contract!Spec
==============================================================================
