SPECIFICATION Spec
CONSTANTS
    Moves = {left, right}
    Zero = zero
    NonFinite = nan
    CommandTimeout = 2
    ReadinessTimeout = 2
INVARIANT TypeOK
PROPERTIES NothingRevokedIsSubmitted RobotStops
