SPECIFICATION Spec
CONSTANTS
    Moves = {move}
    Zero = zero
    NonFinite = nonfinite
    Timeout = 1
    StatusTopics = {to_pose, through_poses}
    MaxTime = 3
INVARIANTS TypeOK NoReplayAcrossHandover LocalCommandHasOwner RestBeforeResult TimedMotionNearPoll
