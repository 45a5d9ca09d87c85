SPECIFICATION OnboardingSpec
CONSTANTS
    Token = {"t1"}
    InitialVMs <- ExistingVMs
    MaxDisturbances = 1
    Run = {"r1"}
INVARIANTS
    OnboardingTypeOK
    CompletedMeansRepaired
    NothingForgotten
PROPERTIES
    RequestDropped
    OnboardedBecomesReady
    RecoversSkipped
CHECK_DEADLOCK FALSE
