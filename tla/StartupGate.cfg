SPECIFICATION StartupSpec
CONSTANTS
    HoldTime = 3
    HeartbeatTimeout = 2
INVARIANT StartupTypeOK
PROPERTIES StartupIsEarned GateConcludes
