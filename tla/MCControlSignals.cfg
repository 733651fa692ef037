\* One OpenSIPS connection with a request in flight when a second shutdown
\* signal arrives.
CONSTANTS
    Prots = {1}
    Kind <- OneOpenSIPS
    MaxReqs = 1
    Pipeline = 1
    MaxSignals = 2

SPECIFICATION Spec

INVARIANT ShutdownInOrder

CHECK_DEADLOCK FALSE
