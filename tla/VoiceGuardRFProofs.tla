-------------------------- MODULE VoiceGuardRFProofs -------------------------
(***************************************************************************)
(* Proofs about VoiceGuardRF for every set of voice UEs, every size of the *)
(* windows, both modes, and with files that can or cannot always be        *)
(* written.                                                                *)
(***************************************************************************)
EXTENDS VoiceGuardRF, TLAPS

\* What ties the pacing to the policy and the policy to the report.
PolicyInv ==
    /\ EndsUnpaced
    /\ ~closedLoop => policy = 0
    /\ pc = "start" => policy = 0
    /\ ~writesFail /\ pc = "loop" => pacing = policy
    /\ ~writesFail /\ pc = "loop" /\ policy # 0 => state \in {"PROTECTING", "COOLDOWN", "ERROR"}

Inv == TypeOK /\ PolicyInv

\* The operators on levels and counters stay in range.
LEMMA Ranges ==
    ASSUME TypeOK
    PROVE  /\ Guarded \in Levels /\ policy \in Levels /\ Guarded \in {policy, policy + 1}
           /\ Weaker \in Levels /\ Weaker \in {policy, policy - 1}
           /\ Collected \in 0 .. Window
           /\ \A ok \in BOOLEAN : BadInARow(ok) \in 0 .. RequiredSamples
           /\ \A elapsed \in Elapsed : Due(elapsed) \in 0 .. RestoreStep
           /\ RestoreStep \in 0 .. RestoreStep
<1>1. Window \in Nat \ {0} /\ RequiredSamples \in Nat \ {0} /\ RestoreStep \in Nat \ {0}
    BY SizesArePositive
<1>2. /\ Guarded \in Levels /\ policy \in Levels /\ Guarded \in {policy, policy + 1}
      /\ Weaker \in Levels /\ Weaker \in {policy, policy - 1}
    BY DEF TypeOK, Levels, Guarded, Weaker, Least, Minus
<1>3. Collected \in 0 .. Window
    BY <1>1 DEF TypeOK, Collected, Changed, Least
<1>4. ASSUME NEW ok \in BOOLEAN
      PROVE  BadInARow(ok) \in 0 .. RequiredSamples
    BY <1>1 DEF TypeOK, BadInARow, Changed, Least
<1>5. ASSUME NEW elapsed \in Elapsed
      PROVE  Due(elapsed) \in 0 .. RestoreStep
    BY <1>1 DEF TypeOK, Due, Changed, Minus, Elapsed
<1>6. QED
    BY <1>1, <1>2, <1>3, <1>4, <1>5

\* What adopting a level does, whether or not it can be written.
LEMMA Applied ==
    ASSUME Inv, NEW target \in Levels, pc = "loop", Apply(target) \/ ApplyFails(target)
    PROVE  /\ policy' \in {policy, target} /\ pacing' \in {pacing, target}
           /\ policy' \in Levels /\ pacing' \in Levels
           /\ ~closedLoop => policy' = policy
           /\ ~writesFail => pacing' = policy'
           /\ UNCHANGED <<calls, pc, stop, acked, closedLoop, writesFail>>
           /\ state' \in {"OBSERVING", "WOULD_PROTECT", "PROTECTING", "COOLDOWN", "ERROR"}
           /\ ~writesFail /\ policy' # 0 => state' \in {"PROTECTING", "COOLDOWN", "ERROR"}
<1>1. /\ policy \in Levels /\ pacing \in Levels
      /\ ~writesFail => pacing = policy
      /\ ~closedLoop => policy = 0
    BY DEF Inv, PolicyInv, TypeOK
<1>2. CASE ApplyFails(target)
    BY <1>1, <1>2 DEF ApplyFails, config
<1>3. CASE Apply(target)
    <2>1. /\ policy' \in {policy, target} /\ pacing' \in {pacing, target}
          /\ policy' \in Levels /\ pacing' \in Levels
          /\ ~closedLoop => policy' = policy
          /\ ~writesFail => pacing' = policy'
          /\ UNCHANGED <<calls, pc, stop, acked, closedLoop, writesFail>>
        BY <1>1, <1>3 DEF Apply, Finish, config
    <2>2. state' \in {Report, "ERROR"}
        BY <1>3 DEF Apply, Finish
    <2>3. Report \in {"OBSERVING", "WOULD_PROTECT", "PROTECTING", "COOLDOWN"}
        BY DEF Report
    <2>4. policy' # 0 => Report \in {"PROTECTING", "COOLDOWN"}
        <3>1. policy' # 0 => policy' > 0 /\ closedLoop
            BY <2>1, <1>1 DEF Levels
        <3>2. QED
            BY <3>1 DEF Report
    <2>5. QED
        BY <2>1, <2>2, <2>3, <2>4
<1>4. QED
    BY <1>2, <1>3

\* A sample adopts a level next to the present one, or takes a first decision.
LEMMA Sampled ==
    ASSUME Inv, NEW ok \in BOOLEAN, NEW elapsed \in Elapsed, Sample(ok, elapsed)
    PROVE  /\ pc = "loop" /\ Observe(ok)
           /\ \E target \in Levels :
                  /\ Apply(target) \/ ApplyFails(target)
                  /\ \/ target = policy
                     \/ target = policy - 1 /\ calls = {} /\ signature' = {}
                     \/ target = policy + 1 /\ signature # {}
                     \/ ~Decided /\ initialized' /\ (calls = signature => ~initialized)
           /\ initialized' \in BOOLEAN /\ (Decided => initialized')
           /\ bad' \in 0 .. RequiredSamples /\ wait' \in 0 .. RestoreStep
           /\ predicted' \in Levels
<1> USE Ranges DEF Inv
<1>0. predicted \in Levels /\ initialized \in BOOLEAN /\ Decided \in BOOLEAN
      /\ 0 \in 0 .. RequiredSamples
    BY SizesArePositive DEF TypeOK, Decided, Changed
<1>1. CASE Collect(ok, elapsed)
    BY <1>0, <1>1 DEF Collect, Observe
<1>2. CASE Decide(ok, elapsed)
    BY <1>0, <1>2 DEF Decide, Observe, Decided, Changed
<1>3. CASE Hold(ok, elapsed)
    BY <1>0, <1>3 DEF Hold, Observe, Decided, Changed
<1>4. CASE Release(ok, elapsed)
    BY <1>0, <1>4 DEF Release, Observe, Decided, Changed
<1>5. QED
    BY <1>1, <1>2, <1>3, <1>4 DEF Sample

\* Inv holds initially.
LEMMA InvInit == Init => Inv
<1> SUFFICES ASSUME Init PROVE Inv
    OBVIOUS
<1>1. TypeOK
    <2>1. calls \subseteq VoiceUEs /\ signature \subseteq VoiceUEs
        BY DEF Init
    <2>2. {stop, initialized, healthy, acked, closedLoop, writesFail} \subseteq BOOLEAN
        BY Zenon DEF Init
    <2>3. {pacing, predicted, policy} \subseteq Levels
        BY DEF Init, Levels
    <2>4. history \in 0 .. Window /\ bad \in 0 .. RequiredSamples /\ wait \in 0 .. RestoreStep
        BY SizesArePositive DEF Init
    <2>5. QED
        BY <2>1, <2>2, <2>3, <2>4 DEF Init, TypeOK
<1>2. PolicyInv
    BY DEF Init, PolicyInv, EndsUnpaced
<1>3. QED
    BY <1>1, <1>2 DEF Inv

\* A sample keeps Inv.
LEMMA SampleKeeps ==
    ASSUME Inv, NEW ok \in BOOLEAN, NEW elapsed \in Elapsed, Sample(ok, elapsed)
    PROVE  Inv'
<1>1. /\ pc = "loop" /\ Observe(ok)
      /\ initialized' \in BOOLEAN
      /\ bad' \in 0 .. RequiredSamples /\ wait' \in 0 .. RestoreStep
      /\ predicted' \in Levels
    BY Sampled
<1>2. PICK target \in Levels : Apply(target) \/ ApplyFails(target)
    BY Sampled
<1>3. /\ policy' \in Levels /\ pacing' \in Levels
      /\ ~closedLoop => policy' = policy
      /\ ~writesFail => pacing' = policy'
      /\ UNCHANGED <<calls, pc, stop, acked, closedLoop, writesFail>>
      /\ state' \in {"OBSERVING", "WOULD_PROTECT", "PROTECTING", "COOLDOWN", "ERROR"}
      /\ ~writesFail /\ policy' # 0 => state' \in {"PROTECTING", "COOLDOWN", "ERROR"}
    BY <1>1, <1>2, Applied
<1>4. history' \in 0 .. Window /\ signature' \subseteq VoiceUEs /\ healthy' \in BOOLEAN
    BY <1>1, Ranges DEF Observe, Inv, TypeOK
<1>5. TypeOK'
    BY <1>1, <1>3, <1>4 DEF Inv, TypeOK
<1>6. PolicyInv'
    BY <1>1, <1>3 DEF Inv, PolicyInv, EndsUnpaced
<1>7. QED
    BY <1>5, <1>6 DEF Inv

\* So does an inference that raises.
LEMMA InferenceFailureKeeps ==
    ASSUME Inv, NEW ok \in BOOLEAN, NEW elapsed \in Elapsed, InferenceFails(ok, elapsed)
    PROVE  Inv'
<1>1. /\ BadInARow(ok) \in 0 .. RequiredSamples
      /\ Due(elapsed) \in 0 .. RestoreStep
      /\ Collected \in 0 .. Window
    BY Ranges DEF Inv
<1>2. TypeOK'
    BY <1>1 DEF InferenceFails, Observe, config, Inv, TypeOK
<1>3. PolicyInv'
    BY DEF InferenceFails, Observe, config, Inv, PolicyInv, EndsUnpaced
<1>4. QED
    BY <1>2, <1>3 DEF Inv

\* Every step keeps Inv.
LEMMA InvStep == Inv /\ [Next]_vars => Inv'
<1> SUFFICES ASSUME Inv, [Next]_vars
             PROVE  Inv'
    OBVIOUS
<1> USE DEF Inv, TypeOK, PolicyInv, EndsUnpaced
<1>1. CASE UNCHANGED vars
    BY <1>1 DEF vars, decision, config
<1>2. CASE CallsChange
    BY <1>2 DEF CallsChange, decision, config
<1>3. CASE StopSignal
    BY <1>3 DEF StopSignal, decision, config
<1>4. CASE Start
    BY <1>4 DEF Start, decision, config, Levels
<1>5. CASE SampleFails
    BY <1>5 DEF SampleFails, decision, config
<1>6. CASE LeaveLoop
    BY <1>6 DEF LeaveLoop, decision, config
<1>7. CASE Finally
    BY <1>7 DEF Finally, decision, config, Levels
<1>8. CASE Raises
    BY <1>8 DEF Raises, decision, config
<1>9. CASE FinallyFails
    BY <1>9 DEF FinallyFails, decision, config
<1>10. ASSUME NEW ok \in BOOLEAN, NEW elapsed \in Elapsed,
              Sample(ok, elapsed) \/ InferenceFails(ok, elapsed)
       PROVE  Inv'
    BY <1>10, SampleKeeps, InferenceFailureKeeps
<1>11. QED
    BY <1>1, <1>2, <1>3, <1>4, <1>5, <1>6, <1>7, <1>8, <1>9, <1>10 DEF Next, Step

LEMMA Invariance == Spec => []Inv
BY InvInit, InvStep, PTL DEF Spec

\* Every variable of the xApp stays in its domain.
THEOREM TypeCorrect == Spec => []TypeOK
<1>1. Inv => TypeOK
    BY DEF Inv
<1>2. QED
    BY <1>1, Invariance, PTL

\* The xApp never paces more than it reports, and ends with full load.
THEOREM PacingIsReported == Spec => []UnpacedOrReported
<1>1. Inv => EndsUnpaced /\ ReductionReported
    BY DEF Inv, TypeOK, PolicyInv, ReductionReported, Levels
<1>2. Inv => UnpacedOrReported
    BY <1>1 DEF UnpacedOrReported
<1>3. QED
    BY <1>2, Invariance, PTL

\* For a decided combination of calls the safety layer only strengthens, one level
\* at a time, even when writes and inferences fail.
THEOREM SafetyLayerOnlyStrengthens == Spec => OnlyStrengthens
<1> DEFINE Strengthens ==
        initialized /\ signature # {} /\ signature' = signature
            => initialized' /\ policy' \in {policy, policy + 1}
<1>1. ASSUME Inv, [Next]_vars, initialized, signature # {}, signature' = signature
      PROVE  initialized' /\ policy' \in {policy, policy + 1}
    <2>1. CASE \E ok \in BOOLEAN, elapsed \in Elapsed : Sample(ok, elapsed)
        <3>1. PICK ok \in BOOLEAN, elapsed \in Elapsed : Sample(ok, elapsed)
            BY <2>1
        <3>2. Observe(ok) /\ (Decided => initialized') /\ pc = "loop"
            BY <1>1, <3>1, Sampled
        <3>3. calls = signature /\ Decided
            BY <1>1, <3>2 DEF Observe, Decided, Changed
        <3>4. PICK target \in Levels :
                  /\ Apply(target) \/ ApplyFails(target)
                  /\ \/ target = policy
                     \/ target = policy - 1 /\ calls = {} /\ signature' = {}
                     \/ target = policy + 1 /\ signature # {}
                     \/ ~Decided /\ initialized' /\ (calls = signature => ~initialized)
            BY <1>1, <3>1, Sampled
        <3>5. policy' \in {policy, target}
            BY <1>1, <3>2, <3>4, Applied
        <3>6. QED
            BY <1>1, <3>2, <3>3, <3>4, <3>5
    <2>2. CASE \E ok \in BOOLEAN, elapsed \in Elapsed : InferenceFails(ok, elapsed)
        BY <1>1, <2>2 DEF InferenceFails, Observe, Decided, Changed
    <2>3. CASE ~(\E ok \in BOOLEAN, elapsed \in Elapsed :
                     Sample(ok, elapsed) \/ InferenceFails(ok, elapsed))
        BY <1>1, <2>3 DEF Next, Step, vars, decision, config, CallsChange, StopSignal, Start,
               SampleFails, LeaveLoop, Finally, Raises, FinallyFails
    <2>4. QED
        BY <2>1, <2>2, <2>3
<1>2. Inv /\ [Next]_vars => [Strengthens]_vars
    BY <1>1
<1>3. QED
    BY <1>2, Invariance, PTL DEF Spec, OnlyStrengthens

\* Pacing is given back one level at a time, and only without calls, unless a new
\* combination of calls has been decided.
THEOREM ReleaseIsGradual == Spec => GradualRelease
<1> DEFINE Gradual ==
        ~writesFail /\ pc = "loop" /\ pacing' < pacing
            => \/ pacing' = pacing - 1 /\ signature' = {}
               \/ initialized' /\ (initialized => signature' # signature)
<1>1. ASSUME Inv, [Next]_vars, ~writesFail, pc = "loop", pacing' < pacing
      PROVE  \/ pacing' = pacing - 1 /\ signature' = {}
             \/ initialized' /\ (initialized => signature' # signature)
    <2>1. pacing = policy /\ pacing \in Levels
        BY <1>1 DEF Inv, TypeOK, PolicyInv
    <2>2. CASE \E ok \in BOOLEAN, elapsed \in Elapsed : Sample(ok, elapsed)
        <3>1. PICK ok \in BOOLEAN, elapsed \in Elapsed : Sample(ok, elapsed)
            BY <2>2
        <3>2. signature' = calls
            BY <1>1, <3>1, Sampled DEF Observe
        <3>3. PICK target \in Levels :
                  /\ Apply(target) \/ ApplyFails(target)
                  /\ \/ target = policy
                     \/ target = policy - 1 /\ calls = {} /\ signature' = {}
                     \/ target = policy + 1 /\ signature # {}
                     \/ ~Decided /\ initialized' /\ (calls = signature => ~initialized)
            BY <1>1, <3>1, Sampled
        <3>4. pacing' \in {pacing, target}
            BY <1>1, <3>3, Applied
        <3>5. QED
            BY <1>1, <2>1, <3>2, <3>3, <3>4 DEF Levels
    <2>3. CASE \E ok \in BOOLEAN, elapsed \in Elapsed : InferenceFails(ok, elapsed)
        BY <1>1, <2>1, <2>3 DEF InferenceFails, Levels
    <2>4. CASE ~(\E ok \in BOOLEAN, elapsed \in Elapsed :
                     Sample(ok, elapsed) \/ InferenceFails(ok, elapsed))
        BY <1>1, <2>1, <2>4 DEF Next, Step, vars, decision, config, CallsChange, StopSignal, Start,
               SampleFails, LeaveLoop, Finally, Raises, FinallyFails, Levels
    <2>5. QED
        BY <2>2, <2>3, <2>4
<1>2. Inv /\ [Next]_vars => [Gradual]_vars
    BY <1>1
<1>3. QED
    BY <1>2, Invariance, PTL DEF Spec, GradualRelease

------------------------------------------------------------------------------
(* RF implements XappContract.                                              *)

\* Phase, point by point.
PhaseByPoint ==
    /\ pc = "start" => Phase = "begin"
    /\ pc = "loop" => Phase = "loop"
    /\ pc = "finally" => Phase = "leave"
    /\ pc = "over" => Phase = "final"
    /\ pc = "crashed" => Phase = "gone"

LEMMA Phases == PhaseByPoint /\ PhaseByPoint'
BY DEF PhaseByPoint, Phase

\* Every step is one of the contract, or none.
LEMMA ContractStep ==
    ASSUME Inv, [Next]_vars
    PROVE  [Contract!Next]_(Contract!vars)
<1> USE DEF Contract!Next, Contract!vars
<1>1. CASE UNCHANGED <<pc, stop, pacing>>
    BY <1>1 DEF Phase
<1>2. CASE StopSignal
    <2>1. Contract!Signal
        BY <1>2, Phases DEF StopSignal, Running, Contract!Signal, PhaseByPoint, Phase, Inv, TypeOK
    <2>2. QED
        BY <2>1
<1>3. CASE Start
    <2>1. Contract!Begin
        BY <1>3, Phases DEF Start, Contract!Begin, PhaseByPoint
    <2>2. QED
        BY <2>1
<1>4. ASSUME NEW ok \in BOOLEAN, NEW elapsed \in Elapsed,
             Sample(ok, elapsed) \/ InferenceFails(ok, elapsed)
      PROVE  [Contract!Next]_(Contract!vars)
    <2>1. pc = "loop" /\ ~stop
        BY <1>4, Sampled DEF InferenceFails, Observe
    <2>2. pc' = pc /\ stop' = stop
        BY <1>4, <2>1, Sampled, Applied DEF InferenceFails
    <2>3. Contract!Sample
        BY <2>1, <2>2, Phases DEF PhaseByPoint, Contract!Sample
    <2>4. QED
        BY <2>3
<1>5. CASE LeaveLoop \/ Raises
    <2>1. Contract!Leave \/ Contract!BeginFails
        BY <1>5, Phases DEF LeaveLoop, Raises, PhaseByPoint, Contract!Leave, Contract!BeginFails
    <2>2. QED
        BY <2>1
<1>6. CASE Finally
    <2>1. Contract!Restore
        BY <1>6, Phases DEF Finally, PhaseByPoint, Contract!Restore
    <2>2. QED
        BY <2>1
<1>7. CASE FinallyFails
    <2>1. Contract!RestoreFails
        BY <1>7, Phases DEF FinallyFails, PhaseByPoint, Contract!RestoreFails
    <2>2. QED
        BY <2>1
<1>8. CASE CallsChange \/ SampleFails
    BY <1>1, <1>8 DEF CallsChange, SampleFails
<1>9. CASE UNCHANGED vars
    BY <1>1, <1>9 DEF vars
<1>10. QED
    BY <1>2, <1>3, <1>4, <1>5, <1>6, <1>7, <1>8, <1>9 DEF Next, Step

\* Whatever fails and whenever it is signalled, RF changes the pacing file only when
\* it begins, in a sample begun before the signal and when it leaves, and then
\* resets it: the steps that the processes of VoiceGuardProcess take.
THEOREM RFIsAnXapp == Spec => ImplementsXapp
<1>1. Init => Contract!Init
    BY Phases DEF Init, Contract!Init, PhaseByPoint
<1>2. Inv /\ [Next]_vars => [Contract!Next]_(Contract!vars)
    BY ContractStep
<1>3. QED
    BY <1>1, <1>2, InvInit, InvStep, PTL DEF Spec, ImplementsXapp, Contract!Spec
==============================================================================
