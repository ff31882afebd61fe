CONSTANTS
    Users = {u1, u2}
    Supervisor = sup
    Requests = {"start", "stop", "switch"}
    Saved = {"rtsp"}
    MaxRequests = 3
    MaxFailures = 1
    MaxRebinds = 1
    MaxMedia = 0
    MaxChanges = 1
    MaxEvents = 3
SPECIFICATION Spec
CHECK_DEADLOCK FALSE
PROPERTIES ScopeRepaired RequestsReturn
