SPECIFICATION LifecycleSpec
CONSTANT Kind = "engine"
INVARIANTS
    NoOrphanServer
PROPERTIES
    BootEnds
    ShutdownEnds
CHECK_DEADLOCK FALSE
