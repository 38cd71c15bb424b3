SPECIFICATION Spec
CONSTANTS
    CollisionStopTimeout = 1
    AcquisitionTimeout = 1
    ApproachTimeout = 1
    RetryDelay = 1
    SettlingDuration = 1
    MaximumRetries = 1
PROPERTY NavigationAborts
