\* One relay that reconnects once; two pipelined OpenSIPS requests, so that one
\* connectionLost fails both; under the reactor's timer fairness.
CONSTANTS
    A = A
    B = B
    Ips = {A}
    Conns = {1, 2}
    ConnIp <- ReconnectOnceConnIp
    CallIds = {x}
    Reqs = {1, 2}
    NoConn = NoConn
    NoIp = NoIp
    NoSession = NoSession
    NoCall = NoCall
    Probe = Probe
    NoFile = NoFile
    MaxStops = 0
    MaxLate = 0
    Cmds = {"update", "remove"}

SPECIFICATION TimerSpec

CONSTRAINT PlainRequests

PROPERTY ImplementsLifecycle

\* The dispatcher is a server: once every request is answered and every
\* connection used, nothing is left to do and it idles.
CHECK_DEADLOCK FALSE
