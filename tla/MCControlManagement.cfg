\* One OpenSIPS connection and one management client, each sending one
\* request at a time.
CONSTANTS
    Prots = {1, 2}
    Kind <- OneOfEach
    MaxReqs = 2
    Pipeline = 1
    MaxSignals = 1

SPECIFICATION Spec

INVARIANT NoReplyDropped

CHECK_DEADLOCK FALSE
