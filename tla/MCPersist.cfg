\* One relay that connects three times (replacements, crashes of the relay,
\* cleanup timers); one request; the process shuts down or crashes and
\* restarts twice; the reactor's fairness.
CONSTANTS
    A = A
    B = B
    Ips = {A}
    Conns = {1, 2, 3}
    ConnIp <- ReconnectConnIp
    CallIds = {x}
    Reqs = {1}
    NoConn = NoConn
    NoIp = NoIp
    NoSession = NoSession
    NoCall = NoCall
    Probe = Probe
    NoFile = NoFile
    MaxStops = 2
    MaxLate = 0
    Cmds = {"update", "remove"}

SPECIFICATION FairSpec

INVARIANT RegistryIsCurrent
INVARIANT NoCleanupOfConnectedRelay
INVARIANT SessionsReclaimable
PROPERTY ShutdownCompletes

\* After its last restart the dispatcher serves until the work is done and
\* then idles.
CHECK_DEADLOCK FALSE
