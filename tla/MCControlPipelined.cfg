\* One OpenSIPS connection whose client pipelines two requests.
CONSTANTS
    Prots = {1}
    Kind <- OneOpenSIPS
    MaxReqs = 2
    Pipeline = 2
    MaxSignals = 1

SPECIFICATION Spec

INVARIANT NoReplyDropped

CHECK_DEADLOCK FALSE
