------------------------ MODULE VoiceGuardRulesProofs ------------------------
(***************************************************************************)
(* Proofs about VoiceGuardRules for every number of required samples and   *)
(* every cooldown, in every mode.                                          *)
(***************************************************************************)
EXTENDS VoiceGuardRules, TLAPS

\* Where the pacing can be reduced: in the loop under a reported protection or
\* after one with an undecodable answer, while the RC call of one is pending, or
\* before the clean-up has run.
PacingInv ==
    /\ ReductionReported
    /\ EndsUnpaced
    /\ pc \in {"baseline", "rollback", "restore", "lastRestore"} => pacing = "full"
    /\ pc \in {"start", "baseline", "loop", "protect", "rollback", "restore", "finally",
               "lastRestore", "over", "crashed"}

\* PacingInv holds initially.
LEMMA PacingInit == Init => PacingInv
BY DEF Init, PacingInv, ReductionReported, EndsUnpaced

\* Every step of the environment and of the xApp keeps PacingInv.
LEMMA PacingStep == PacingInv /\ [Next]_vars => PacingInv'
<1> SUFFICES ASSUME PacingInv, [Next]_vars
             PROVE  PacingInv'
    OBVIOUS
<1> USE DEF PacingInv, ReductionReported, EndsUnpaced, history, config
<1>1. CASE UNCHANGED vars
    BY <1>1 DEF vars
<1>2. CASE CallChanges
    BY <1>2 DEF CallChanges
<1>3. CASE StopSignal
    BY <1>3 DEF StopSignal
<1>4. CASE Start
    BY <1>4 DEF Start, internal
<1>5. CASE GoodSample
    BY <1>5 DEF GoodSample, Sample, MayControl, MayRestore
<1>6. CASE SampleFails
    BY <1>6 DEF SampleFails, internal
<1>7. CASE LeaveLoop
    BY <1>7 DEF LeaveLoop, internal
<1>8. CASE Finally
    BY <1>8 DEF Finally, internal
<1>9. CASE Raises
    BY <1>9 DEF Raises, internal
<1>14. CASE FinallyFails
    BY <1>14 DEF FinallyFails, internal
<1>15. CASE BridgeGarbles
    BY <1>15 DEF BridgeGarbles, internal
<1>10. ASSUME NEW acked \in BOOLEAN, ApplyBaseline(acked)
       PROVE  PacingInv'
    BY <1>10 DEF ApplyBaseline, internal
<1>11. ASSUME NEW acked \in BOOLEAN, ApplyProtected(acked)
       PROVE  PacingInv'
    BY <1>11 DEF ApplyProtected
<1>12. ASSUME NEW acked \in BOOLEAN, RollBack(acked) \/ Restore(acked) \/ LastRestore(acked)
       PROVE  PacingInv'
    BY <1>12 DEF RollBack, Restore, LastRestore, internal
<1>13. QED
    BY <1>1, <1>2, <1>3, <1>4, <1>5, <1>6, <1>7, <1>8, <1>9, <1>10, <1>11, <1>12, <1>14, <1>15
       DEF Next, Step

\* However the xApp ends it leaves the video traffic unpaced, and a reduction is
\* always reported while it lasts.
THEOREM PacingIsSafe == Spec => []UnpacedOrReported
<1>1. Spec => []PacingInv
    BY PacingInit, PacingStep, PTL DEF Spec
<1>2. PacingInv => UnpacedOrReported
    BY DEF PacingInv, UnpacedOrReported
<1>3. QED
    BY <1>1, <1>2, PTL

------------------------------------------------------------------------------
(* Types.                                                                   *)

LEMMA TypeInit == Init => TypeOK
<1>1. 0 \in 0 .. RequiredSamples /\ 0 \in 0 .. Cooldown /\ Cooldown \in 0 .. Cooldown
    BY SamplesArePositive, CooldownIsNat
<1>2. QED
    BY <1>1 DEF Init, TypeOK, Grants

LEMMA CountersTyped ==
    ASSUME TypeOK, NEW elapsed \in Elapsed
    PROVE  /\ Remaining(elapsed) \in 0 .. Cooldown
           /\ \A suffers \in BOOLEAN : CountBad(suffers) => bad' \in 0 .. RequiredSamples
BY SamplesArePositive, CooldownIsNat DEF TypeOK, Remaining, CountBad, Elapsed

LEMMA GrantsTyped ==
    ASSUME TypeOK, NEW policy \in {"baseline", "protected"}, NEW acked \in BOOLEAN
    PROVE  AfterRc(policy, acked) \subseteq Grants
BY DEF TypeOK, Grants, AfterRc

LEMMA TypeStep == TypeOK /\ [Next]_vars => TypeOK'
<1> SUFFICES ASSUME TypeOK, [Next]_vars
             PROVE  TypeOK'
    OBVIOUS
<1> USE DEF config, internal, history
<1>1. CASE UNCHANGED vars
    BY <1>1 DEF vars, TypeOK
<1>2. CASE CallChanges \/ StopSignal \/ Start \/ SampleFails \/ LeaveLoop \/ Finally \/ Raises
           \/ FinallyFails
    BY <1>2 DEF CallChanges, StopSignal, Start, SampleFails, LeaveLoop, Finally, Raises, FinallyFails,
                TypeOK
<1>3. ASSUME NEW degraded \in BOOLEAN, NEW elapsed \in Elapsed, Sample(degraded, elapsed)
      PROVE  TypeOK'
    <2>1. cooldown' \in 0 .. Cooldown
        BY <1>3, CountersTyped DEF Sample
    <2>2. bad' \in 0 .. RequiredSamples
        <3>1. (call /\ degraded) \in BOOLEAN
            OBVIOUS
        <3>2. QED
            BY <1>3, <3>1, CountersTyped DEF Sample
    <2>3. state' \in {"OBSERVING", "WOULD_PROTECT", "PROTECTING", "COOLDOWN"}
        <3>1. cooldown' > 0 \/ cooldown' = 0
            BY <2>1, CooldownIsNat
        <3>2. QED
            BY <1>3, <3>1 DEF Sample
    <2>4. pacing' \in {pacing, "full", "reduced"} /\ pc' \in {pc, "protect", "restore"}
        BY <1>3 DEF Sample
    <2>5. /\ UNCHANGED <<call, grants, stop, protected, rcReady, factor, config>>
          /\ wasActive' \in {call, wasActive} /\ garbled' \in {garbled, "none"}
        BY <1>3 DEF Sample
    <2>6. unseen' \in 0 .. Cooldown
        BY <1>3, CooldownIsNat DEF Sample, Elapsed, TypeOK
    <2>7. QED
        BY <2>1, <2>2, <2>3, <2>4, <2>5, <2>6 DEF TypeOK
<1>4. ASSUME NEW acked \in BOOLEAN,
             \/ ApplyBaseline(acked) \/ ApplyProtected(acked) \/ RollBack(acked)
             \/ Restore(acked) \/ LastRestore(acked)
      PROVE  TypeOK'
    <2>1. grants' \in Grants
        BY <1>4, GrantsTyped DEF ApplyBaseline, ApplyProtected, RollBack, Restore, LastRestore, TypeOK
    <2>2. QED
        BY <1>4, <2>1 DEF ApplyBaseline, ApplyProtected, RollBack, Restore, LastRestore, TypeOK
<1>5. CASE BridgeGarbles
    <2>1. grants' \in Grants
        BY <1>5, GrantsTyped DEF BridgeGarbles
    <2>2. /\ pc' \in {"finally", "crashed", "loop"} /\ state' \in {state, "ERROR"}
          /\ garbled' \in {"baseline", "rollback", "restore", "lastRestore", "protect"}
        BY <1>5 DEF BridgeGarbles
    <2>3. UNCHANGED <<call, pacing, stop, internal, rcReady, factor, unseen, config>>
        BY <1>5 DEF BridgeGarbles
    <2>4. QED
        BY <2>1, <2>2, <2>3 DEF TypeOK
<1>6. QED
    BY <1>1, <1>2, <1>3, <1>4, <1>5 DEF Next, Step, GoodSample

\* Every variable of the xApp and of the gNB stays in its domain.
THEOREM TypeCorrect == Spec => []TypeOK
BY TypeInit, TypeStep, PTL DEF Spec

------------------------------------------------------------------------------
(* Protection.                                                              *)

\* Bad samples are counted during a call only, and the end of one resets them.
SufferingInv ==
    /\ TypeOK
    /\ pc = "restore" => bad = 0
    /\ RequiredSamples > 1 /\ bad > 0 => wasActive

LEMMA SufferingStep == SufferingInv /\ [Next]_vars => SufferingInv'
<1> USE DEF history, internal
<1>7. SufferingInv /\ [Next]_vars => TypeOK' /\ (pc' = "restore" => bad' = 0)
    BY TypeStep DEF SufferingInv, Next, Step, vars, GoodSample, Sample, CountBad, MayRestore,
           CallChanges, StopSignal, Start, SampleFails, LeaveLoop, Finally, ApplyBaseline,
           ApplyProtected, RollBack, Restore, LastRestore, BridgeGarbles, Raises, FinallyFails
<1> SUFFICES ASSUME SufferingInv, [Next]_vars, RequiredSamples > 1, bad' > 0
             PROVE  wasActive'
    BY <1>7 DEF SufferingInv
<1>1. bad \in Nat /\ RequiredSamples \in Nat /\ (bad > 0 => wasActive)
    BY SamplesArePositive DEF SufferingInv, TypeOK
<1>2. ASSUME NEW degraded \in BOOLEAN, NEW elapsed \in Elapsed, Sample(degraded, elapsed)
      PROVE  wasActive'
    <2>1. call /\ pc = "loop"
        BY <1>2 DEF Sample, CountBad
    <2>2. CASE pc' = "loop"
        BY <1>2, <2>1, <2>2 DEF Sample
    <2>3. CASE pc' # "loop"
        <3>1. bad' >= RequiredSamples /\ bad' \in {bad, bad + 1} /\ wasActive' = wasActive
            BY <1>2, <2>1, <2>3 DEF Sample, CountBad, MayRestore
        <3>2. QED
            BY <1>1, <3>1
    <2>4. QED
        BY <2>2, <2>3
<1>3. ASSUME NEW acked \in BOOLEAN, ApplyProtected(acked) \/ RollBack(acked)
      PROVE  wasActive'
    BY <1>1, <1>3 DEF ApplyProtected, RollBack
<1>4. ASSUME NEW acked \in BOOLEAN, Restore(acked)
      PROVE  wasActive'
    BY <1>1, <1>4 DEF Restore, SufferingInv
<1>5. CASE ~GoodSample /\ bad' = bad /\ wasActive' = wasActive
    BY <1>1, <1>5
<1>6. QED
    BY <1>2, <1>3, <1>4, <1>5
       DEF Next, Step, vars, GoodSample, CallChanges, StopSignal, Start, SampleFails, LeaveLoop,
           Finally, ApplyBaseline, LastRestore, BridgeGarbles, Raises, FinallyFails

\* Whatever samples fail in between, a protection starts in a call that the
\* sample before it saw too.
THEOREM ProtectionIsSustained == Spec => ProtectsSustained
<1>1. Init => SufferingInv
    BY TypeInit DEF Init, SufferingInv
<1>2. ASSUME SufferingInv, [Next]_vars, pc = "loop", pc' = "protect", RequiredSamples > 1
      PROVE  wasActive /\ call
    <2>1. PICK degraded \in BOOLEAN, elapsed \in Elapsed : Sample(degraded, elapsed)
        BY <1>2 DEF Next, Step, vars, internal, CallChanges, StopSignal, Start, GoodSample,
               SampleFails, LeaveLoop, Finally, ApplyBaseline, ApplyProtected, RollBack,
               Restore, LastRestore, BridgeGarbles, Raises, FinallyFails
    <2>2. bad' >= RequiredSamples
        BY <1>2, <2>1 DEF Sample
    <2>3. bad \in Nat /\ RequiredSamples \in Nat
        BY <1>2, SamplesArePositive DEF SufferingInv, TypeOK
    <2>4. call /\ bad > 0
        BY <1>2, <2>1, <2>2, <2>3 DEF Sample, CountBad, MayRestore
    <2>5. QED
        BY <1>2, <2>4 DEF SufferingInv
<1>3. SufferingInv /\ [Next]_vars =>
          [pc = "loop" /\ pc' = "protect" /\ RequiredSamples > 1 => wasActive /\ call]_vars
    BY <1>2
<1>4. QED
    BY <1>1, <1>3, SufferingStep, PTL DEF Spec, ProtectsSustained

------------------------------------------------------------------------------
(* The release.                                                             *)

\* What is left of the cooldown and what has passed since the call was seen make
\* up a whole cooldown, from the sample that sees its end on.
CooldownInv ==
    /\ TypeOK
    /\ protected => wasActive \/ unseen + cooldown >= Cooldown
    /\ pc = "restore" => unseen + cooldown >= Cooldown

\* A good sample keeps the sum while the call is away.
LEMMA SampleWaits ==
    ASSUME CooldownInv, NEW degraded \in BOOLEAN, NEW elapsed \in Elapsed,
           Sample(degraded, elapsed), protected, ~call
    PROVE  unseen' + cooldown' >= Cooldown
<1>1. /\ elapsed \in Nat /\ unseen \in 0 .. Cooldown /\ cooldown \in 0 .. Cooldown
      /\ Cooldown \in Nat
    BY CooldownIsNat DEF Elapsed, CooldownInv, TypeOK
<1>2. /\ unseen' = IF unseen + elapsed < Cooldown THEN unseen + elapsed ELSE Cooldown
      /\ cooldown' = Remaining(elapsed)
    BY DEF Sample
<1>3. CASE wasActive
    <2>1. cooldown' = Cooldown
        BY <1>2, <1>3 DEF Remaining
    <2>2. unseen' \in Nat /\ Cooldown \in Nat
        BY <1>1, <1>2
    <2>3. \A a, c \in Nat : a + c >= c
        OBVIOUS
    <2>4. QED
        BY <2>1, <2>2, <2>3
<1>4. CASE ~wasActive
    <2>1. unseen + cooldown >= Cooldown
        BY <1>4 DEF CooldownInv
    <2>2. cooldown' = IF cooldown > elapsed THEN cooldown - elapsed ELSE 0
        BY <1>2, <1>4 DEF Remaining
    <2>3. QED
        BY <1>1, <1>2, <2>1, <2>2
<1>5. QED
    BY <1>3, <1>4

LEMMA CooldownStep == CooldownInv /\ [Next]_vars => CooldownInv'
<1> SUFFICES ASSUME CooldownInv, [Next]_vars
             PROVE  CooldownInv'
    OBVIOUS
<1> USE DEF history, internal
<1>1. TypeOK'
    BY TypeStep DEF CooldownInv
<1>2. ASSUME NEW degraded \in BOOLEAN, NEW elapsed \in Elapsed, Sample(degraded, elapsed)
      PROVE  CooldownInv'
    <2>1. /\ pc = "loop" /\ protected' = protected
          /\ pc' = "restore" => protected /\ ~call
          /\ pc' \in {"loop", "protect", "restore"} /\ (pc' = "loop" => wasActive' = call)
          /\ pc' = "protect" => ~protected
        BY <1>2 DEF Sample, MayRestore
    <2>2. protected /\ ~call => unseen' + cooldown' >= Cooldown
        BY <1>2, SampleWaits
    <2>3. QED
        BY <1>1, <2>1, <2>2 DEF CooldownInv
<1>3. ASSUME NEW acked \in BOOLEAN, ApplyProtected(acked) \/ RollBack(acked) \/ Restore(acked)
      PROVE  CooldownInv'
    <2>1. /\ UNCHANGED <<unseen, cooldown>> /\ pc' # "restore"
          /\ protected' => wasActive' \/ pc = "restore"
        BY <1>3 DEF ApplyProtected, RollBack, Restore
    <2>2. QED
        BY <1>1, <2>1 DEF CooldownInv
<1>4. CASE UNCHANGED <<unseen, cooldown, protected, wasActive>> /\ (pc' = "restore" => pc = "restore")
    BY <1>1, <1>4 DEF CooldownInv
<1>5. QED
    BY <1>2, <1>3, <1>4
       DEF Next, Step, vars, GoodSample, CallChanges, StopSignal, Start, SampleFails, LeaveLoop,
           Finally, ApplyBaseline, LastRestore, BridgeGarbles, Raises, FinallyFails

\* However calls come and go and samples and controls fail, the loop gives the
\* pacing back a whole cooldown after the last call it saw.
THEOREM ReleaseWaits == Spec => CooldownOfLastCall
<1>1. Init => CooldownInv
    BY TypeInit DEF Init, CooldownInv
<1>2. ASSUME CooldownInv, [Next]_vars, pc = "loop", pacing = "reduced", pacing' = "full"
      PROVE  unseen' >= Cooldown
    <2>1. PICK degraded \in BOOLEAN, elapsed \in Elapsed : Sample(degraded, elapsed)
        BY <1>2 DEF Next, Step, vars, internal, CallChanges, StopSignal, Start, GoodSample,
               SampleFails, LeaveLoop, Finally, ApplyBaseline, ApplyProtected, RollBack,
               Restore, LastRestore, BridgeGarbles, Raises, FinallyFails
    <2>2. protected /\ ~call /\ cooldown' = 0
        BY <1>2, <2>1 DEF Sample, MayRestore
    <2>3. unseen' + cooldown' >= Cooldown
        BY <1>2, <2>1, <2>2, SampleWaits
    <2>4. unseen' \in Nat
        BY <1>2, TypeStep, CooldownIsNat DEF CooldownInv, TypeOK
    <2>5. QED
        BY <2>2, <2>3, <2>4
<1>3. CooldownInv /\ [Next]_vars =>
          [pc = "loop" /\ pacing = "reduced" /\ pacing' = "full" => unseen' >= Cooldown]_vars
    BY <1>2
<1>4. QED
    BY <1>1, <1>3, CooldownStep, PTL DEF Spec, CooldownOfLastCall

------------------------------------------------------------------------------
(* The grant limits, when the protected policies are the baseline's.        *)

\* Behind the acknowledged baseline every later call asks for what is there, so
\* that one which fails half-way changes nothing either.
BaselineInv ==
    /\ pc \in {"start", "baseline"} => ~rcReady
    /\ garbled = "baseline" => ~rcReady /\ pc \in {"finally", "over", "crashed"}
    /\ ~differs /\ garbled # "baseline" =>
        /\ pc \in {"loop", "protect", "restore", "lastRestore"} =>
               grants = IF closedLoop THEN "baseline" ELSE "untouched"
        /\ pc \in {"baseline", "protect", "restore", "lastRestore"} => closedLoop
        /\ pc # "rollback"
        /\ rcReady => grants = "baseline"
        /\ pc = "finally" => \/ grants \in {"untouched", "baseline"}
                             \/ state = "ERROR" /\ ~rcReady
        /\ pc = "start" => grants = "untouched"
        /\ pc = "over" /\ state = "OFF" => grants \in {"untouched", "baseline"}

LEMMA BaselineInit == Init => BaselineInv
BY DEF Init, BaselineInv

LEMMA BaselineStep == TypeOK /\ BaselineInv /\ [Next]_vars => BaselineInv'
<1> SUFFICES ASSUME TypeOK, BaselineInv, [Next]_vars
             PROVE  BaselineInv'
    OBVIOUS
<1> USE DEF BaselineInv, history, config
<1>1. CASE UNCHANGED vars
    BY <1>1 DEF vars
<1>2. CASE CallChanges \/ StopSignal \/ SampleFails \/ LeaveLoop \/ Raises \/ FinallyFails
    BY <1>2 DEF CallChanges, StopSignal, SampleFails, LeaveLoop, Raises, FinallyFails
<1>3. CASE Start
    BY <1>3 DEF Start, TypeOK
<1>4. CASE Finally
    BY <1>4 DEF Finally, MayControl, TypeOK
<1>5. CASE GoodSample
    BY <1>5 DEF GoodSample, Sample, MayControl, MayRestore
<1>6. ASSUME NEW acked \in BOOLEAN, ApplyBaseline(acked)
      PROVE  BaselineInv'
    BY <1>6 DEF ApplyBaseline, AfterRc
<1>7. ASSUME NEW acked \in BOOLEAN, ApplyProtected(acked)
      PROVE  BaselineInv'
    BY <1>7 DEF ApplyProtected
<1>8. ASSUME NEW acked \in BOOLEAN, RollBack(acked) \/ Restore(acked) \/ LastRestore(acked)
      PROVE  BaselineInv'
    BY <1>8 DEF RollBack, Restore, LastRestore, AfterRc
<1>9. CASE BridgeGarbles
    BY <1>9 DEF BridgeGarbles, AfterRc, internal
<1>10. QED
    BY <1>1, <1>2, <1>3, <1>4, <1>5, <1>6, <1>7, <1>8, <1>9 DEF Next, Step

\* With the default policies an xApp that reports OFF has left the grant limits
\* at their baseline, whichever bridge calls failed and how far they got.
THEOREM OffIsBaseline == Spec => []DefaultOffMeansBaseline
<1>1. BaselineInv => DefaultOffMeansBaseline
    BY DEF BaselineInv, DefaultOffMeansBaseline, OffMeansBaseline
<1>2. QED
    BY <1>1, TypeInit, TypeStep, BaselineInit, BaselineStep, PTL DEF Spec

------------------------------------------------------------------------------
(* Rule V1 implements XappContract.                                         *)

\* Phase, point by point.
PhaseByPoint ==
    /\ pc = "start" => Phase = "begin"
    /\ pc \in {"baseline", "loop", "rollback", "restore"} => Phase = "loop"
    /\ pc = "protect" => Phase = "sample"
    /\ pc = "finally" => Phase = "leave"
    /\ pc \in {"lastRestore", "over"} => Phase = "final"
    /\ pc = "crashed" => Phase = "gone"

LEMMA Phases == PhaseByPoint /\ PhaseByPoint'
BY DEF PhaseByPoint, Phase

\* Every step is one of the contract, or none.
LEMMA ContractStep ==
    ASSUME TypeOK, [Next]_vars
    PROVE  [Contract!Next]_(Contract!vars)
<1> USE DEF Contract!Next, Contract!vars
<1>1. CASE UNCHANGED <<pc, stop, pacing>>
    BY <1>1 DEF Phase
<1>2. CASE StopSignal
    <2>1. Contract!Signal
        BY <1>2, Phases DEF StopSignal, Running, Contract!Signal, Phase, TypeOK
    <2>2. QED
        BY <2>1
<1>3. CASE Start
    <2>1. Contract!Begin
        BY <1>3, Phases DEF Start, Contract!Begin, PhaseByPoint
    <2>2. QED
        BY <2>1
<1>4. CASE GoodSample
    <2>1. PICK degraded \in BOOLEAN, elapsed \in Elapsed : Sample(degraded, elapsed)
        BY <1>4 DEF GoodSample
    <2>2. /\ pc = "loop" /\ ~stop /\ stop' = stop
          /\ pc' \in {"loop", "protect", "restore"}
        BY <2>1 DEF Sample
    <2>3. Contract!Sample
        BY <2>2, Phases DEF PhaseByPoint, Contract!Sample
    <2>4. QED
        BY <2>3
<1>5. ASSUME NEW acked \in BOOLEAN, ApplyBaseline(acked) \/ RollBack(acked) \/ Restore(acked)
      PROVE  [Contract!Next]_(Contract!vars)
    <2>1. /\ Phase = "loop" /\ UNCHANGED <<stop, pacing>>
          /\ pc' \in {"loop", "finally"}
        BY <1>5, Phases DEF ApplyBaseline, RollBack, Restore, PhaseByPoint
    <2>2. CASE pc' = "loop"
        BY <2>1, <2>2, Phases DEF PhaseByPoint
    <2>3. CASE pc' = "finally"
        <3>1. Contract!Leave
            BY <2>1, <2>3, Phases DEF PhaseByPoint, Contract!Leave
        <3>2. QED
            BY <3>1
    <2>4. QED
        BY <2>1, <2>2, <2>3
<1>6. ASSUME NEW acked \in BOOLEAN, ApplyProtected(acked)
      PROVE  [Contract!Next]_(Contract!vars)
    <2>1. pc = "protect" /\ stop' = stop /\ pc' \in {"loop", "rollback"}
        BY <1>6 DEF ApplyProtected
    <2>2. Contract!SampleEnds
        BY <2>1, Phases DEF PhaseByPoint, Contract!SampleEnds
    <2>3. QED
        BY <2>2
<1>7. CASE LeaveLoop \/ Raises
    <2>1. Contract!Leave \/ Contract!BeginFails
        BY <1>7, Phases DEF LeaveLoop, Raises, PhaseByPoint, Contract!Leave, Contract!BeginFails
    <2>2. QED
        BY <2>1
<1>8. CASE Finally
    <2>1. Contract!Restore
        BY <1>8, Phases DEF Finally, PhaseByPoint, Contract!Restore
    <2>2. QED
        BY <2>1
<1>9. CASE FinallyFails
    <2>1. Contract!RestoreFails
        BY <1>9, Phases DEF FinallyFails, PhaseByPoint, Contract!RestoreFails
    <2>2. QED
        BY <2>1
<1>10. ASSUME NEW acked \in BOOLEAN, LastRestore(acked)
       PROVE  [Contract!Next]_(Contract!vars)
    <2>1. Phase = "final" /\ Phase' = "final" /\ UNCHANGED <<stop, pacing>>
        BY <1>10, Phases DEF LastRestore, PhaseByPoint
    <2>2. QED
        BY <2>1
<1>11. CASE CallChanges \/ SampleFails
    BY <1>1, <1>11 DEF CallChanges, SampleFails
<1>12. CASE UNCHANGED vars
    BY <1>1, <1>12 DEF vars
<1>13. CASE BridgeGarbles
    <2>1. UNCHANGED <<stop, pacing>>
        BY <1>13 DEF BridgeGarbles
    <2>2. CASE pc = "baseline"
        <3>1. Contract!Leave
            BY <1>13, <2>1, <2>2, Phases DEF BridgeGarbles, PhaseByPoint, Contract!Leave
        <3>2. QED
            BY <3>1
    <2>3. CASE pc = "protect"
        <3>1. Contract!SampleEnds
            BY <1>13, <2>1, <2>3, Phases DEF BridgeGarbles, PhaseByPoint, Contract!SampleEnds, TypeOK
        <3>2. QED
            BY <3>1
    <2>4. CASE pc \in {"rollback", "restore"}
        BY <1>13, <2>1, <2>4, Phases DEF BridgeGarbles, PhaseByPoint
    <2>5. CASE pc = "lastRestore"
        <3>1. Contract!End
            BY <1>13, <2>1, <2>5, Phases DEF BridgeGarbles, PhaseByPoint, Contract!End
        <3>2. QED
            BY <3>1
    <2>6. QED
        BY <1>13, <2>2, <2>3, <2>4, <2>5 DEF BridgeGarbles
<1>14. QED
    BY <1>2, <1>3, <1>4, <1>5, <1>6, <1>7, <1>8, <1>9, <1>10, <1>11, <1>12, <1>13 DEF Next, Step

\* Whatever fails and whenever it is signalled, Rule V1 changes the pacing file only
\* when it begins, in a sample begun before the signal and when it leaves, and then
\* resets it: the steps that the processes of VoiceGuardProcess take.
THEOREM RulesIsAnXapp == Spec => ImplementsXapp
<1>1. Init => Contract!Init
    BY Phases DEF Init, Contract!Init, PhaseByPoint
<1>2. TypeOK /\ [Next]_vars => [Contract!Next]_(Contract!vars)
    BY ContractStep
<1>3. QED
    BY <1>1, <1>2, TypeInit, TypeStep, PTL DEF Spec, ImplementsXapp, Contract!Spec
==============================================================================
