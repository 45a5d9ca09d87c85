SPECIFICATION Spec
CONSTANTS
    Token = {"t1", "t2"}
    InitialVMs <- AllVMs
    MaxDisturbances = 1
INVARIANTS
    TypeOK
    CompletedMeansRepaired
    MergedMarkersTruthful
    AlloyDriftSeen
    NothingForgotten
PROPERTIES
    BootstrapNotInterrupted
    ImplementsLifecycle
    StampKept
    RequestsAreServed
    SkippedIsRecovered
    SourcesAreMerged
    HealthyBecomesReady
    StatusAgreesWithReason
CHECK_DEADLOCK FALSE
