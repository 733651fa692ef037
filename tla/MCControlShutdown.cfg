\* Two OpenSIPS connections whose clients pipeline two requests, and a
\* management client.
CONSTANTS
    Prots = {1, 2, 3}
    Kind <- WithManagement
    MaxReqs = 3
    Pipeline = 2
    MaxSignals = 1

SPECIFICATION Spec

INVARIANT TypeOK
INVARIANT ShutdownInOrder

\* Once both factories are done and the clients have stopped, nothing is
\* left to do.
CHECK_DEADLOCK FALSE
