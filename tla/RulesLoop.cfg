SPECIFICATION FairSpec
CONSTANTS
    RequiredSamples = 3
    Cooldown = 3
CHECK_DEADLOCK FALSE
INVARIANTS
    UnpacedOrReported
    DefaultOffMeansBaseline
PROPERTIES
    CooldownOfLastCall
    ProtectsSustained
    PacingReleased
    ImplementsXapp
