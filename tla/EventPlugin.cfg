\* The event plugin with three events: every startup failure, every order of
\* handlers, connection breaks, kills and shutdown.  No symmetry, because the
\* run checks liveness.
CONSTANTS
    e1 = e1
    e2 = e2
    e3 = e3
    Events <- ThreeEvents
SPECIFICATION FairSpec
INVARIANTS
    TypeOK
    NoPublishDuringClose
    EmptySlotOnlyAtShutdown
    AtMostOnce
    RealTimeOrder
    CleanExitDeliversAcked
    NoSilentExit
PROPERTIES
    WarningsSettle
    ShutdownCompletes
    ImplementsDelivery
