CONSTANTS
    Users = {u1, u2}
    Supervisor = sup
    Requests = {"start", "stop", "apply", "switch"}
    Saved = {"rtsp", "srt"}
    MaxRequests = 3
    MaxFailures = 1
    MaxRebinds = 0
    MaxMedia = 1
    MaxChanges = 0
    MaxEvents = 5
INIT Init
NEXT Next
SYMMETRY Symmetry
CHECK_DEADLOCK FALSE
INVARIANTS OneListener OpeningsOwned
PROPERTIES StopCompletes RestartFollowsOwnStop NoOutputLost
