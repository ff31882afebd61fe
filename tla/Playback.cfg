CONSTANTS
    Users = {u1, u2}
    Supervisor = sup
    Requests = {"start", "retry", "stop", "record", "mute"}
    MaxRequests = 3
    MaxChanges = 1
    MaxWaits = 1
SPECIFICATION Spec
CHECK_DEADLOCK FALSE
INVARIANTS StopIsFinal ClaimsHeld
PROPERTIES Settles
