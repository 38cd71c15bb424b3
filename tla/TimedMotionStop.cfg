SPECIFICATION Spec
CONSTANTS
    CollisionStopTimeout = 1
    AcquisitionTimeout = 1
    SettlingDuration = 1
    UndockTimeout = 1
    Durations = {1, 2}
INVARIANT AnyStopAborts
