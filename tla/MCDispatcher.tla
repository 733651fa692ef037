---------------------------- MODULE MCDispatcher ----------------------------
(* Instances of Dispatcher for TLC.  Connection objects are numbered; a    *)
(* relay reconnects on the next unused connection of its address.         *)
EXTENDS Dispatcher

CONSTANTS A, B

\* Relay A connects three times (each connection replaces the one before).
ReconnectConnIp == (1 :> A) @@ (2 :> A) @@ (3 :> A)

\* Relay A connects twice.
ReconnectOnceConnIp == (1 :> A) @@ (2 :> A)

\* Relay A connects once.
OneRelayConnIp == (1 :> A)

\* Relays A and B connect once each.
TwoRelayConnIp == (1 :> A) @@ (2 :> B)

\* State constraint for runs that look for a witness in fault-free
\* executions: no relay drops its connection, times out or halts.
FaultFree ==
    \A c \in Conns : cst[c] # "half" /\ ~timedout[c] /\ ~halting[c]

\* A narrower constraint: fault-free executions in which the relays answer
\* every command successfully and expire nothing, and OpenSIPS sends no
\* dialog_id or media_relay header.
PlainTraffic ==
    /\ FaultFree
    /\ \A c \in Conns : cst[c] # "closed"
    /\ \A c \in Conns : \A i \in DOMAIN fromRelay[c] :
          fromRelay[c][i].kind = "resp" /\ fromRelay[c][i].body # "error"
    /\ \A r \in Reqs : ~req[r].dialog /\ req[r].pref = NoIp

\* OpenSIPS sends no dialog_id header: the dialog_id only changes what an
\* expired session does, never whether a request is answered.
NoDialogRequests == \A r \in Reqs : ~req[r].dialog

\* OpenSIPS sends no dialog_id or media_relay header: the requests differ
\* only in the call they name.  Every request stays enabled, so the
\* behaviours kept are whole and liveness is checked on them soundly.
PlainRequests == \A r \in Reqs : ~req[r].dialog /\ req[r].pref = NoIp
=============================================================================
