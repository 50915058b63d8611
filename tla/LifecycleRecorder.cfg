SPECIFICATION LifecycleSpec
CONSTANT Kind = "recorder"
INVARIANT
    NoOrphanServer
CHECK_DEADLOCK FALSE
