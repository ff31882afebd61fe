CONSTANTS
    u1 = u1
    u2 = u2
    a3 = a3
    oldnet = oldnet
    a1 = a1
    a2 = a2
    n1 = n1
    n2 = n2
    net = net
    Users = {u1}
    Adopter = adopter
    Nics = {n1, n2}
    Addrs = {a1, a2, a3}
    Subnets = {net, oldnet}
    SubnetOf <- Nets
    None = None
    Nobody = nobody
    LegacyAddrs = {a3}
    Ops = {"add", "removeSaved", "removeManual", "mode", "reload", "select", "cleanup", "refresh", "start"}
    MaxRequests = 2
    MaxAttempts = 1
    MaxFaults = 1
SPECIFICATION Spec
SYMMETRY Symmetry
CHECK_DEADLOCK FALSE
INVARIANTS RoutesTrue PauseOwned
PROPERTIES OwnershipDurable RemovalFinal
