\* Two relays; B's TLS handshake is in flight when the listeners stop; one
\* graceful shutdown; the reactor's fairness.
CONSTANTS
    A = A
    B = B
    Ips = {A, B}
    Conns = {1, 2}
    ConnIp <- TwoRelayConnIp
    CallIds = {x}
    Reqs = {1}
    NoConn = NoConn
    NoIp = NoIp
    NoSession = NoSession
    NoCall = NoCall
    Probe = Probe
    NoFile = NoFile
    MaxStops = 1
    MaxLate = 1
    Cmds = {"update", "remove"}

SPECIFICATION FairSpec

PROPERTY ShutdownCompletes

\* Once stopped the process stays stopped (no restart is left).
CHECK_DEADLOCK FALSE
