------------------------------ MODULE Control ------------------------------
(***************************************************************************)
(* The dispatcher's control connections (src/mediaproxy/dispatcher.py):    *)
(* OpenSIPSControlProtocol on the UNIX socket and ManagementControlProtocol *)
(* on the management port, each kept by its ControlFactory, and the order  *)
(* callback chain of Dispatcher._shutdown that every shutdown signal      *)
(* starts: stop listening, shut the OpenSIPS factory down, then the        *)
(* management factory, then RelayFactory.shutdown (its closing and saving  *)
(* are module Dispatcher's; here it is a Deferred that fires once the      *)
(* relays are gone), then _stop.                                          *)
(*                                                                         *)
(* A request handed to the dispatcher is a Deferred that fires later       *)
(* (Fire); the relay side that fires it is module Dispatcher, whose        *)
(* ImplementsLifecycle property is the promise that it does.  A transport  *)
(* is "open", "closing" after loseConnection (it no longer reads, but      *)
(* still flushes what is written) or "closed" after connectionLost.        *)
(***************************************************************************)
EXTENDS Naturals, TLC

CONSTANTS
    Prots,      \* control connections
    Kind,       \* Prots -> Factories: which listener accepted it
    MaxReqs,    \* requests a client sends on one connection
    Pipeline,   \* requests a client keeps in flight on one connection
    MaxSignals  \* SIGHUP, SIGINT and SIGTERM the process gets

Factories == {"opensips", "management"}
Signals   == 1..MaxSignals

\* The callbacks of Dispatcher._shutdown, in the order it adds them: the
\* step after each shutdown() call, "stopped" once _stop has run.
Then == ("opensips" :> "management") @@ ("management" :> "relays")
          @@ ("relays" :> "stopped")

ASSUME Kind \in [Prots -> Factories]
ASSUME MaxReqs \in Nat /\ Pipeline \in Nat \ {0} /\ MaxSignals \in Nat \ {0}

VARIABLES
    listening,    \* the listeners accept connections
    fstate,       \* shutting_down of both ControlFactorys and of the
                  \* RelayFactory, and whether its defer fired
    chain,        \* per signal: the _shutdown callback it is at
    protocols,    \* ControlFactory.protocols
    pst,          \* "init" | "open" | "closing" | "closed"
    inProgress,   \* ControlProtocol.in_progress
    outstanding,  \* Deferreds of this connection not yet fired
    sent,         \* requests the client has sent
    serverClosed, \* connections the dispatcher closed on its own account
    holds         \* signals whose chain waits on a shutdown() Deferred

vars == <<listening, fstate, chain, protocols, pst, inProgress, outstanding,
          sent, serverClosed, holds>>
chainVars == <<chain, holds>>

ShuttingDown(p) == fstate[Kind[p]] # "running"

\* Seeded fault for mutation testing: the shutdown Deferred fires on the
\* first connection_lost.
FactoryConnectionLost_noEmptyCheck(p) ==
    LET f == Kind[p] IN
    /\ protocols' = [protocols EXCEPT ![f] = @ \ {p}]
    /\ fstate' = IF fstate[f] = "shutting" THEN [fstate EXCEPT ![f] = "done"] ELSE fstate

\* ControlFactory.connection_lost: forget the connection; the last one to go
\* while shutting down fires the factory's shutdown Deferred.
FactoryConnectionLost(p) ==
    LET f == Kind[p]
        left == protocols[f] \ {p}
    IN
    /\ protocols' = [protocols EXCEPT ![f] = left]
    /\ fstate' = IF fstate[f] = "shutting" /\ left = {}
                 THEN [fstate EXCEPT ![f] = "done"] ELSE fstate

\* transport.loseConnection by the dispatcher (a no-op unless open).
CloseBy(p) ==
    /\ pst' = [pst EXCEPT ![p] = IF @ = "open" THEN "closing" ELSE @]
    /\ serverClosed' = IF pst[p] = "open" THEN serverClosed \cup {p} ELSE serverClosed

\* Seeded fault for mutation testing: _decrement subtracts one.
Decrement_subtract(p, n) ==
    /\ inProgress' = [inProgress EXCEPT ![p] = n - 1]
    /\ IF ShuttingDown(p) THEN CloseBy(p) ELSE UNCHANGED <<pst, serverClosed>>

\* ControlProtocol._decrement, the last callback of every Deferred handed to
\* _add_callbacks, with in_progress = n before it: it sets in_progress to 0
\* and closes the connection if the factory is shutting down.
Decrement(p, n) ==
    /\ inProgress' = [inProgress EXCEPT ![p] = 0]
    /\ IF ShuttingDown(p) THEN CloseBy(p) ELSE UNCHANGED <<pst, serverClosed>>

-----------------------------------------------------------------------------
\* ControlFactory.buildProtocol: a client connects while the listener is up.
\* ManagementControlProtocol.connectionMade may reject the peer certificate
\* (loseConnection).
Accept(p) ==
    LET f == Kind[p] IN
    /\ listening
    /\ pst[p] = "init"
    /\ protocols' = [protocols EXCEPT ![f] = @ \cup {p}]
    /\ \/ pst' = [pst EXCEPT ![p] = "open"]
       \/ /\ f = "management"
          /\ pst' = [pst EXCEPT ![p] = "closing"]
    /\ UNCHANGED <<listening, fstate, inProgress, outstanding, sent, serverClosed,
                   chainVars>>

\* OpenSIPSControlProtocol.lineReceived on the blank line ending a request:
\* in_progress goes up and handle_request's Deferred gets the callbacks.  It
\* fires at once when handle_request raises (no call_id) or the router
\* answers locally; otherwise it is outstanding.
OpenSIPSRequest(p) ==
    /\ Kind[p] = "opensips"
    /\ \/ /\ inProgress' = [inProgress EXCEPT ![p] = @ + 1]
          /\ outstanding' = [outstanding EXCEPT ![p] = @ + 1]
          /\ UNCHANGED <<pst, serverClosed>>
       \/ /\ Decrement(p, inProgress[p] + 1)
          /\ UNCHANGED outstanding

\* ManagementControlProtocol.lineReceived: `summary' and `sessions' hand a
\* DeferredList over the relays to _add_callbacks without counting it in
\* in_progress (it fires at once when no relay is registered); `version' and
\* unknown lines are answered at once; `quit' and `exit' close.
ManagementRequest(p) ==
    /\ Kind[p] = "management"
    /\ \/ /\ outstanding' = [outstanding EXCEPT ![p] = @ + 1]
          /\ UNCHANGED <<inProgress, pst, serverClosed>>
       \/ /\ Decrement(p, inProgress[p])
          /\ UNCHANGED outstanding
       \/ UNCHANGED <<inProgress, outstanding, pst, serverClosed>>
       \/ /\ pst' = [pst EXCEPT ![p] = "closing"]
          /\ UNCHANGED <<inProgress, outstanding, serverClosed>>

\* The client sends one request on a connection the dispatcher reads.
Request(p) ==
    /\ pst[p] = "open"
    /\ sent[p] < MaxReqs
    /\ outstanding[p] < Pipeline
    /\ sent' = [sent EXCEPT ![p] = @ + 1]
    /\ OpenSIPSRequest(p) \/ ManagementRequest(p)
    /\ UNCHANGED <<listening, fstate, protocols, chainVars>>

\* An outstanding Deferred fires: reply (lost if the transport is gone),
\* then _decrement.
Fire(p) ==
    /\ outstanding[p] > 0
    /\ outstanding' = [outstanding EXCEPT ![p] = @ - 1]
    /\ Decrement(p, inProgress[p])
    /\ UNCHANGED <<listening, fstate, protocols, sent, chainVars>>

\* The client closes its end: connectionLost.
PeerClose(p) ==
    /\ pst[p] = "open"
    /\ pst' = [pst EXCEPT ![p] = "closed"]
    /\ FactoryConnectionLost(p)
    /\ UNCHANGED <<listening, inProgress, outstanding, sent, serverClosed,
                   chainVars>>

\* A closing transport has flushed its writes: connectionLost.
ConnLost(p) ==
    /\ pst[p] = "closing"
    /\ pst' = [pst EXCEPT ![p] = "closed"]
    /\ FactoryConnectionLost(p)
    /\ UNCHANGED <<listening, inProgress, outstanding, sent, serverClosed,
                   chainVars>>

\* A shutdown signal: the handler has the reactor run Dispatcher._shutdown,
\* which stops every listener (a no-op for one already stopped) and starts
\* its own callback chain at the OpenSIPS factory.
StopListening(i) ==
    /\ chain[i] = "none"
    /\ \A j \in Signals : j < i => chain[j] # "none"
    /\ listening' = FALSE
    /\ chain' = [chain EXCEPT ![i] = "opensips"]
    /\ UNCHANGED <<fstate, protocols, pst, inProgress, outstanding, sent,
                   serverClosed, holds>>

\* ControlFactory.shutdown(f), for a factory not yet shutting down: with no
\* connection it is done at once; otherwise it closes the connections whose
\* in_progress is 0 and waits for the last connection_lost.
FactoryShutdown(f) ==
    LET idle == {p \in protocols[f] : inProgress[p] = 0 /\ pst[p] = "open"} IN
    /\ fstate' = [fstate EXCEPT ![f] = IF protocols[f] = {} THEN "done" ELSE "shutting"]
    /\ pst' = [p \in Prots |-> IF p \in idle THEN "closing" ELSE pst[p]]
    /\ serverClosed' = serverClosed \cup idle

\* Chain i moves on to the next callback of Dispatcher._shutdown.
Advance(i) == chain' = [chain EXCEPT ![i] = Then[@]]

\* RelayFactory.shutdown called by chain i: the relay connections are not
\* part of this module, so it either has none, and succeed(None) runs
\* _save_state at once and the chain goes on in the same step, or it closes
\* them and the chain waits on self.defer until the last one detaches
\* (RelaysDetached).
RelayFactoryShutdown(i) ==
    \/ /\ fstate' = [fstate EXCEPT !["relays"] = "done"]
       /\ Advance(i)
       /\ UNCHANGED holds
    \/ /\ fstate' = [fstate EXCEPT !["relays"] = "shutting"]
       /\ holds' = holds \cup {i}
       /\ UNCHANGED chain

\* The callback at which chain i stands (Dispatcher._shutdown) calls
\* shutdown() on the OpenSIPS factory, the management factory or the
\* RelayFactory.  Each of them returns None when it is already shutting
\* down (`if self.shutting_down: return'), and the chain goes straight on;
\* otherwise it returns a Deferred, succeed(None) for a factory without
\* connections, that the chain waits on.
CallShutdown(i) ==
    LET s == chain[i] IN
    /\ s \in DOMAIN Then
    /\ i \notin holds
    /\ IF fstate[s] # "running"
       THEN /\ Advance(i)
            /\ UNCHANGED <<fstate, pst, serverClosed, holds>>
       ELSE IF s = "relays"
       THEN /\ RelayFactoryShutdown(i)
            /\ UNCHANGED <<pst, serverClosed>>
       ELSE /\ FactoryShutdown(s)
            /\ IF protocols[s] = {} THEN Advance(i) /\ UNCHANGED holds
               ELSE holds' = holds \cup {i} /\ UNCHANGED chain
    /\ UNCHANGED <<listening, protocols, inProgress, outstanding, sent>>

\* The Deferred chain i waits on fires (the last connection_lost of the
\* factory, or the RelayFactory's once its state is saved) and the chain
\* runs its next callback.
Resume(i) ==
    /\ i \in holds
    /\ fstate[chain[i]] = "done"
    /\ holds' = holds \ {i}
    /\ Advance(i)
    /\ UNCHANGED <<listening, fstate, protocols, pst, inProgress, outstanding,
                   sent, serverClosed>>

\* RelayFactory.shutdown's Deferred fires: the last relay connection is
\* gone and _save_state has written the sessions (module Dispatcher,
\* ShutdownCompletes).
RelaysDetached ==
    /\ fstate["relays"] = "shutting"
    /\ fstate' = [fstate EXCEPT !["relays"] = "done"]
    /\ UNCHANGED <<listening, chain, protocols, pst, inProgress, outstanding,
                   sent, serverClosed, holds>>

Init ==
    /\ listening = TRUE
    /\ fstate = [s \in DOMAIN Then |-> "running"]
    /\ chain = [i \in Signals |-> "none"]
    /\ protocols = [f \in Factories |-> {}]
    /\ pst = [p \in Prots |-> "init"]
    /\ inProgress = [p \in Prots |-> 0]
    /\ outstanding = [p \in Prots |-> 0]
    /\ sent = [p \in Prots |-> 0]
    /\ serverClosed = {}
    /\ holds = {}

Next ==
    \/ \E p \in Prots : Accept(p) \/ Request(p) \/ Fire(p) \/ PeerClose(p) \/ ConnLost(p)
    \/ \E i \in Signals : StopListening(i) \/ CallShutdown(i) \/ Resume(i)
    \/ RelaysDetached

\* No fairness: the KeyError of run lost_reply leaves a Deferred that never
\* fires, and a late relay (run late_relay) keeps the RelayFactory from
\* detaching, so neither Fire nor RelaysDetached is bound to happen.
Spec == Init /\ [][Next]_vars

-----------------------------------------------------------------------------
TypeOK ==
    /\ listening \in BOOLEAN
    /\ fstate \in [DOMAIN Then -> {"running", "shutting", "done"}]
    /\ chain \in [Signals -> {"none", "stopped"} \cup DOMAIN Then]
    /\ holds \subseteq Signals
    /\ protocols \in [Factories -> SUBSET Prots]
    /\ pst \in [Prots -> {"init", "open", "closing", "closed"}]
    /\ inProgress \in [Prots -> Nat]
    /\ outstanding \in [Prots -> 0..Pipeline]
    /\ sent \in [Prots -> 0..MaxReqs]
    /\ serverClosed \subseteq Prots

\* Graceful shutdown lets in-flight requests finish (spec section 5): the
\* dispatcher never closes a control connection, in ControlFactory.shutdown
\* or in _decrement, while a Deferred of that connection is outstanding, so
\* no reply is thrown away.
NoReplyDropped == \A p \in serverClosed : outstanding[p] = 0

\* Graceful shutdown goes in the order of spec section 5, whatever signals
\* arrive: the relay connections are closed (RelayFactory.shutdown) only
\* once no control connection still waits on a reply, so no in-flight
\* request loses its relay; and the reactor stops (_stop) only once the
\* RelayFactory has saved the sessions.
InFlight(p) == pst[p] \in {"open", "closing"} /\ outstanding[p] > 0
ShutdownInOrder ==
    /\ fstate["relays"] # "running" => ~\E p \in Prots : InFlight(p)
    /\ (\E i \in Signals : chain[i] = "stopped") => fstate["relays"] = "done"
=============================================================================
