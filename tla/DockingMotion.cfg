SPECIFICATION MotionSpec
CONSTANTS
    Errors <- MCErrors
    PositionTolerance = 2
    PositionHysteresis = 1
    YawTolerance = 2
    YawHysteresis = 1
    YawStops = {5}
    Confirmations = {1, 2}
INVARIANTS MotionTypeOK NeverReverses
PROPERTIES RestsBeforeLargeTurn YawRestsBeforeReversal NoWaitingBand
