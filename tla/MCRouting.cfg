\* Two relays, one connection each, with failover between them; one OpenSIPS request.
CONSTANTS
    A = A
    B = B
    Ips = {A, B}
    Conns = {1, 2}
    ConnIp <- TwoRelayConnIp
    CallIds = {x}
    Reqs = {1}
    NoConn = NoConn
    NoIp = NoIp
    NoSession = NoSession
    NoCall = NoCall
    Probe = Probe
    NoFile = NoFile
    MaxStops = 0
    MaxLate = 0
    Cmds = {"update", "remove", "summary"}

SPECIFICATION Spec

INVARIANT TypeOK
INVARIANT WaiterAccounted

\* The dispatcher is a server: once every request is answered and every
\* connection used, nothing is left to do and it idles.
CHECK_DEADLOCK FALSE
