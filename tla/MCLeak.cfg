\* One relay on one connection, an update and a remove of the same call,
\* under the reactor's timer fairness.
CONSTANTS
    A = A
    B = B
    Ips = {A}
    Conns = {1}
    ConnIp <- OneRelayConnIp
    CallIds = {x}
    Reqs = {1, 2}
    NoConn = NoConn
    NoIp = NoIp
    NoSession = NoSession
    NoCall = NoCall
    Probe = Probe
    NoFile = NoFile
    MaxStops = 0
    MaxLate = 0
    Cmds = {"update", "remove"}

SPECIFICATION FairSpec

PROPERTY UnbackedSessionsDropped

\* The dispatcher is a server: once every request is answered and every
\* connection used, nothing is left to do and it idles.
CHECK_DEADLOCK FALSE
