SPECIFICATION Spec
CONSTANTS
    Moves = {slow, fast}
    Zero = zero
    NonFinite = nonfinite
    Timeout = 2
    MaxTime = 6
INVARIANT TypeOK
PROPERTY IsAPermit
