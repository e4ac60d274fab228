SPECIFICATION FairSpec
CONSTANTS
    ue9 = ue9
    ue10 = ue10
    VoiceUEs <- MCVoiceUEs
    Window = 3
    RequiredSamples = 2
    RestoreStep = 2
CHECK_DEADLOCK FALSE
INVARIANTS
    TypeOK
    UnpacedOrReported
PROPERTIES
    OnlyStrengthens
    GradualRelease
    ReleasedIfWritable
    ReachesStrongest
    ImplementsXapp
