SPECIFICATION Spec
CONSTANTS
    Tables = {table}
    Boxes = {box}
    Timed = {table}
    Instances = {red, blue}
    NoTag = notag
    TopicOf <- OneCamera
    Samples = 2
    TrackingTimeout = 1
    MaxTime = 4
    MaxGenerations = 2
INVARIANTS TypeOK TargetIsSupported UndockLeavesDockedTarget
PROPERTY AttemptsSeeNewTargets
