---------------------------- MODULE XappContract ----------------------------
(***************************************************************************)
(* What a VoiceGuard xApp does with the pacing file, whichever xApp it is  *)
(* and however it decides: it resets the file when it begins, changes it   *)
(* in samples that begin before it is asked to stop, and resets it when it *)
(* leaves.  VoiceGuardRules and VoiceGuardRF implement it; the processes   *)
(* of VoiceGuardProcess take its steps.                                    *)
(***************************************************************************)
VARIABLES
    phase,      \* where the xApp is, from the first line of its try block on
    stop,       \* stop_requested
    reduced     \* the pacing file paces the video

vars == <<phase, stop, reduced>>

Phases == {"begin", "loop", "sample", "leave", "final", "gone"}

\* The file is as the xApp before has left it.
Init ==
    /\ phase = "begin"
    /\ stop = FALSE
    /\ reduced \in BOOLEAN

Signal ==
    /\ phase # "gone" /\ ~stop
    /\ stop' = TRUE
    /\ UNCHANGED <<phase, reduced>>

\* The pacing is reset; what else must be ready may not be.
Begin ==
    /\ phase = "begin"
    /\ phase' \in {"loop", "leave"}
    /\ reduced' = FALSE
    /\ UNCHANGED stop

BeginFails ==
    /\ phase = "begin"
    /\ phase' = "leave"
    /\ UNCHANGED <<stop, reduced>>

\* A sample that has nothing to wait for is one step;
Sample ==
    /\ phase = "loop" /\ ~stop
    /\ phase' \in {"loop", "sample"}
    /\ reduced' \in BOOLEAN
    /\ UNCHANGED stop

\* a sample that waits for the radio may be signalled meanwhile.
SampleEnds ==
    /\ phase = "sample"
    /\ phase' = "loop"
    /\ reduced' \in BOOLEAN
    /\ UNCHANGED stop

\* stop_requested, or an exception.
Leave ==
    /\ phase \in {"loop", "sample"}
    /\ phase' = "leave"
    /\ UNCHANGED <<stop, reduced>>

Restore ==
    /\ phase = "leave"
    /\ phase' = "final"
    /\ reduced' = FALSE
    /\ UNCHANGED stop

RestoreFails ==
    /\ phase = "leave"
    /\ phase' = "gone"
    /\ UNCHANGED <<stop, reduced>>

\* The last report.
End ==
    /\ phase = "final"
    /\ phase' = "gone"
    /\ UNCHANGED <<stop, reduced>>

Next ==
    \/ Signal \/ Begin \/ BeginFails \/ Sample \/ SampleEnds \/ Leave
    \/ Restore \/ RestoreFails \/ End

Spec == Init /\ [][Next]_vars
==============================================================================
