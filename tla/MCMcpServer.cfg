\* Three calls for two slots: the cap is reached, a call is refused at it, and
\* a slot comes back for a later call; the client may name a root.
CONSTANTS
    Calls = {c1, c2, c3}
    NoCall = NoCall
    MaxAbandoned = 2
    WarnAt = 2
    LaunchDir = launch
    RootDirs = {root}
SPECIFICATION ServerSpec
INVARIANTS
    ServerTypeOK
    CountExact
    WorkBounded
    SpinIsCovered
    GroundHolds
PROPERTIES
    SlotReturned
    ImplementsPool
\* The client may stop sending.
CHECK_DEADLOCK FALSE
