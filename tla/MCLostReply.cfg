\* Two relays, one connection each; four OpenSIPS requests on one call.
CONSTANTS
    A = A
    B = B
    Ips = {A, B}
    Conns = {1, 2}
    ConnIp <- TwoRelayConnIp
    CallIds = {x}
    Reqs = {1, 2, 3, 4}
    NoConn = NoConn
    NoIp = NoIp
    NoSession = NoSession
    NoCall = NoCall
    Probe = Probe
    NoFile = NoFile
    MaxStops = 0
    MaxLate = 0
    Cmds = {"update", "remove"}

SPECIFICATION Spec

INVARIANT WaiterAccounted

CONSTRAINT PlainTraffic

CHECK_DEADLOCK FALSE
