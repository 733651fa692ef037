----------------------------- MODULE Dispatcher -----------------------------
(***************************************************************************)
(* The core of the MediaProxy dispatcher (src/mediaproxy/dispatcher.py):   *)
(*                                                                         *)
(*  - RelayServerProtocol: one per TLS connection from a relay; the        *)
(*    sequence-numbered command table, per-command timers, the timed-out   *)
(*    grace timer, and the unsolicited `expired' and `ping' lines;         *)
(*  - RelayFactory: the registry ip -> connection, the per-ip cleanup      *)
(*    timers, the session table call_id -> RelaySession and the routing    *)
(*    policy of send_command (pinned routing, placement with failover);    *)
(*  - the requests OpenSIPS sends, each a caller waiting on a Deferred.    *)
(*                                                                         *)
(* The relay processes are the environment: each holds a set of call-ids,  *)
(* reads the commands of its open connection in order, answers each on the *)
(* same connection, expires sessions on its own, pings, drops its          *)
(* connection, crashes (losing its sessions) and reconnects on a new       *)
(* connection.  Timers fire at any moment while armed.  Every Twisted      *)
(* callback runs to completion, so each handler below is one atomic step,  *)
(* including the errback chains (failover) that it triggers synchronously. *)
(***************************************************************************)
EXTENDS Naturals, Sequences, SequencesExt, FiniteSets

CONSTANTS
    Ips,        \* relay addresses (RelayServerProtocol.ip)
    Conns,      \* connection objects; each belongs to one relay address
    ConnIp,     \* Conns -> Ips
    CallIds,    \* call-ids OpenSIPS sends
    Reqs,       \* OpenSIPS requests, each issued once
    NoConn, NoIp, NoSession, NoCall,
    Probe,      \* the `sessions' command new_relay sends on connect
    NoFile,     \* no dispatcher_state file on disk
    MaxStops,   \* bound on the process's graceful shutdowns and crashes
    MaxLate,    \* bound on the TLS handshakes in flight when the listener stops
    Cmds        \* the commands callers send: update, remove (OpenSIPS) and
                \* summary (the management queries summary and sessions)

ASSUME ConnIp \in [Conns -> Ips]
ASSUME Conns \subseteq Nat
ASSUME MaxStops \in Nat /\ MaxLate \in Nat
ASSUME Cmds \subseteq {"update", "remove", "summary"}

VARIABLES
    sessions,      \* RelayFactory.sessions
    relays,        \* RelayFactory.relays
    cleanup,       \* ip \in DOMAIN RelayFactory.cleanup_timers
    replacing,     \* old connections whose ConnectionReplaced teardown is scheduled
    cst,           \* "init" | "open" (both ends up) | "half" (relay end gone) | "closed"
    authenticated, \* RelayServerProtocol.authenticated
    halting,       \* RelayServerProtocol.halting
    timedout,      \* RelayServerProtocol.timedout
    grace,         \* RelayServerProtocol.disconnect_timer is armed
    stale,         \* commands left in the table by an earlier connectionLost
    seqNo,         \* RelayServerProtocol.sequence_number
    pending,       \* RelayServerProtocol.commands, as {[seq, who]}
    toRelay,       \* command blocks written on the connection, unread by the relay
    fromRelay,     \* lines written by the relay, unread by the dispatcher
    relayHas,      \* call-ids each relay process holds a session for
    req,           \* the OpenSIPS requests and their Deferreds
    stage,         \* "running" | "draining" (listeners stopped) |
                   \* "relays" (RelayFactory.shutting_down) | "stopped"
    stateFile,     \* the pickled session table on disk, or NoFile
    stops,         \* shutdowns and crashes so far
    handshaking    \* connections accepted before stopListening whose TLS
                   \* handshake has not completed

sessVars  == <<sessions>>
lifeVars  == <<stage, stateFile, stops, handshaking>>
regVars   == <<relays, cleanup, replacing, lifeVars>>
connVars  == <<cst, authenticated, halting, timedout, grace, stale>>
netVars   == <<seqNo, pending, toRelay, req>>
relayVars == <<fromRelay, relayHas>>
vars == <<sessVars, regVars, connVars, netVars, relayVars>>

Session == [relay : Ips, dialog : BOOLEAN, expired : BOOLEAN]
ReqRecord == [st : {"idle", "wait", "replied", "failed"},
            cmd : {"update", "remove", "summary"}, call : CallIds, dialog : BOOLEAN,
            pref : Ips \cup {NoIp}, place : BOOLEAN, try : Seq(Conns), left : Nat]
Entry   == [seq : Nat, who : Reqs \cup {Probe}]
Block   == [seq : Nat, cmd : {"update", "remove", "sessions", "summary"},
            call : CallIds \cup {NoCall}]
Line    == [kind : {"resp", "expired"}, seq : Nat,
            body : {"ok", "error", "halting", "stats", "list", "none"},
            cmd : {"update", "remove", "sessions", "summary", "none"},
            call : CallIds \cup {NoCall}, list : SUBSET CallIds,
            lapsed : BOOLEAN]

\* The transport has not yet reported connectionLost, so the disconnect
\* timer's transport.connectionLost still runs the protocol's handler.
\* "closing": loseConnection was called; the transport no longer reads.
Live(c)   == cst[c] \in {"open", "half", "closing"}
Reading(c) == cst[c] \in {"open", "half"}
\* The process is running its reactor.
Up == stage # "stopped"
\* RelayServerProtocol.active
Active(c) == ~halting[c] /\ ~timedout[c]
CmdOf(who) == IF who = Probe THEN "sessions" ELSE req[who].cmd
LiveSession(x)    == sessions[x] # NoSession /\ ~sessions[x].expired
ExpiredSession(x) == sessions[x] # NoSession /\ sessions[x].expired
\* new_relay's callLater(0) teardown of a replaced connection runs in the next
\* reactor iteration: until then the dispatcher only handles lines already
\* read on the replaced connection.  The relays keep acting meanwhile.
TeardownDue == replacing # {}
OpenConnOf(ip) == {c \in Conns : ConnIp[c] = ip /\ cst[c] = "open"}

(***************************************************************************)
(* The command-sending state threaded through one handler: the errbacks a  *)
(* handler fires may send commands to other connections (failover).        *)
(***************************************************************************)
Net == [seqNo |-> seqNo, pending |-> pending, toRelay |-> toRelay, req |-> req]
SetNet(n) == /\ seqNo' = n.seqNo /\ pending' = n.pending
             /\ toRelay' = n.toRelay /\ req' = n.req

\* The caller's Deferred fires and runs the chain _add_callbacks gave it:
\* reply writes the answer (`replied') or _error_handler writes `error'
\* (`failed'), and after _decrement nothing refers to the request any more,
\* so its slot keeps only the outcome.
IdleRequest == [st |-> "idle", cmd |-> "update", call |-> CHOOSE x \in CallIds : TRUE,
                dialog |-> FALSE, pref |-> NoIp, place |-> FALSE, try |-> << >>,
                left |-> 0]
Answer(n, r, st) == [n EXCEPT !.req[r] = [IdleRequest EXCEPT !.st = st]]

\* Seeded fault for mutation testing: the DeferredList waits for one answer
\* more than it sent.
PartDone_offByOne(n, r) ==
    IF n.req[r].left = 0 THEN Answer(n, r, "replied")
    ELSE [n EXCEPT !.req[r].left = @ - 1]

\* One Deferred of a management query's DeferredList fires (with the relay's
\* answer, or with a failure that _summary_error turns into an error entry
\* and _got_statistics skips): the list fires, and the caller gets the
\* joined answers, once the last of them has.
PartDone(n, r) ==
    IF n.req[r].left = 1 THEN Answer(n, r, "replied")
    ELSE [n EXCEPT !.req[r].left = @ - 1]

\* The Deferred of one command succeeds.
Succeed(n, r) ==
    IF n.req[r].cmd = "summary" THEN PartDone(n, r) ELSE Answer(n, r, "replied")

\* RelayServerProtocol.send_command: take the next sequence number, arm a
\* timer, store the command and write it (lost unless the relay end is up).
SendCommand(n, c, who, cmd, call) ==
    LET s == n.seqNo[c]
    IN [n EXCEPT !.seqNo[c]   = s + 1,
                 !.pending[c] = @ \cup {[seq |-> s, who |-> who]},
                 !.toRelay[c] = IF cst[c] = "open"
                                THEN Append(@, [seq |-> s, cmd |-> cmd, call |-> call])
                                ELSE @]

\* RelayFactory._try_next: send the update to the head of the candidate list,
\* or fail with "No suitable relay found".
TryNext(n, r) ==
    IF n.req[r].try = << >>
    THEN Answer(n, r, "failed")
    ELSE SendCommand(n, Head(n.req[r].try), r, "update", n.req[r].call)

\* The errback of the Deferred of one command: the probe has none; a part of
\* a management query is done; a placing update drops the failed relay and
\* tries the next (RelayFactory._relay_error); any other caller gets `error'.
FailWaiter(n, who) ==
    IF who = Probe THEN n
    ELSE IF n.req[who].cmd = "summary" THEN PartDone(n, who)
    ELSE IF n.req[who].place
         THEN TryNext([n EXCEPT !.req[who].try = Tail(@)], who)
         ELSE Answer(n, who, "failed")

FailAll(n, entries) == FoldLeft(FailWaiter, n, [i \in DOMAIN entries |-> entries[i].who])

\* Seeded fault for mutation testing: connection_lost without the check
\* that the connection is still the registered one.
FactoryConnectionLost_noCurrentCheck(c) ==
    /\ relays'  = [relays EXCEPT ![ConnIp[c]] = NoConn]
    /\ cleanup' = [cleanup EXCEPT ![ConnIp[c]] = TRUE]
    /\ UNCHANGED lifeVars

\* RelayFactory._save_state, then Dispatcher._stop: the session table is
\* pickled and the reactor stops.
SaveState ==
    /\ stateFile' = sessions
    /\ stage'     = "stopped"

\* Seeded fault for mutation testing: connection_lost without its
\* shutting_down branch.
FactoryConnectionLost_noShutdownBranch(c) ==
    LET ip == ConnIp[c] IN
    IF relays[ip] = c
    THEN /\ relays'  = [relays EXCEPT ![ip] = NoConn]
         /\ cleanup' = [cleanup EXCEPT ![ip] = TRUE]
         /\ UNCHANGED lifeVars
    ELSE UNCHANGED <<relays, cleanup, lifeVars>>

\* RelayFactory.connection_lost: ignore a connection that is no longer the
\* registered one (it was replaced); otherwise unregister it and, unless
\* shutting down, arm the cleanup timer of its address; while shutting down
\* the last one to go completes shutdown (its callback saves the state).
FactoryConnectionLost(c) ==
    LET ip == ConnIp[c] IN
    IF relays[ip] = c
    THEN /\ relays' = [relays EXCEPT ![ip] = NoConn]
         /\ IF stage = "relays"
            THEN /\ UNCHANGED cleanup
                 /\ IF \A i \in Ips : relays'[i] = NoConn
                    THEN SaveState ELSE UNCHANGED <<stage, stateFile>>
            ELSE /\ cleanup' = [cleanup EXCEPT ![ip] = TRUE]
                 /\ UNCHANGED <<stage, stateFile>>
         /\ UNCHANGED <<stops, handshaking>>
    ELSE UNCHANGED <<relays, cleanup, lifeVars>>

\* Seeded fault for mutation testing: the commands in the table are dropped
\* without firing their Deferreds.
ConnectionLost_noErrback(c, n) ==
    /\ SetNet([n EXCEPT !.pending[c] = {}, !.toRelay[c] = << >>])
    /\ stale'     = [stale EXCEPT ![c] = FALSE]
    /\ timedout'  = [timedout EXCEPT ![c] = FALSE]
    /\ grace'     = [grace EXCEPT ![c] = FALSE]
    /\ cst'       = [cst EXCEPT ![c] = "closed"]
    /\ fromRelay' = [fromRelay EXCEPT ![c] = << >>]
    /\ FactoryConnectionLost(c)

(***************************************************************************)
(* RelayServerProtocol.connectionLost on a live connection: every command  *)
(* still in the table is errbacked (in the table's iteration order) but    *)
(* left in it, the grace timer is cancelled, and the factory is told.  n   *)
(* is the command-sending state when the close starts.                     *)
(***************************************************************************)
ConnectionLost(c, n) ==
    \E order \in SetToSeqs(n.pending[c]) :
        /\ SetNet(FailAll([n EXCEPT !.pending[c] = {}, !.toRelay[c] = << >>], order))
        /\ stale'     = [stale EXCEPT ![c] = n.pending[c] # {}]
        /\ timedout'  = [timedout EXCEPT ![c] = FALSE]
        /\ grace'     = [grace EXCEPT ![c] = FALSE]
        /\ cst'       = [cst EXCEPT ![c] = "closed"]
        /\ fromRelay' = [fromRelay EXCEPT ![c] = << >>]
        /\ FactoryConnectionLost(c)

(***************************************************************************)
(* connectionLost called again on a closed connection (a grace timer armed *)
(* by a command sent after the close, or the ConnectionReplaced teardown). *)
(* If commands of the first close are still in the table, the loop raises  *)
(* AlreadyCancelled on the first of them, after errbacking the commands it *)
(* met before: any subset of the ones sent since.  Otherwise all of them   *)
(* are errbacked and timedout is reset.  RelayFactory ignores the call.    *)
(***************************************************************************)
ClosedConnectionLost(c) ==
    \E done \in SUBSET pending[c] :
        /\ ~stale[c] => done = pending[c]
        /\ \E order \in SetToSeqs(done) :
              SetNet(FailAll([Net EXCEPT !.pending[c] = @ \ done], order))
        /\ stale'    = [stale EXCEPT ![c] = @ \/ done # {}]
        /\ timedout' = [timedout EXCEPT ![c] = IF stale[c] THEN @ ELSE FALSE]

-----------------------------------------------------------------------------
(* The relay processes (environment).                                      *)

\* Seeded fault for mutation testing: new_relay leaves the cleanup timer armed.
NewRelay_keepTimer(c) ==
    LET ip == ConnIp[c] IN
    /\ replacing' = IF relays[ip] # NoConn THEN replacing \cup {relays[ip]} ELSE replacing
    /\ relays'    = [relays EXCEPT ![ip] = c]
    /\ UNCHANGED cleanup
    /\ seqNo'     = [seqNo EXCEPT ![c] = 1]
    /\ pending'   = [pending EXCEPT ![c] = {[seq |-> 0, who |-> Probe]}]
    /\ toRelay'   = [toRelay EXCEPT ![c] =
                        << [seq |-> 0, cmd |-> "sessions", call |-> NoCall] >>]

\* RelayFactory.new_relay: schedule the teardown of the connection the
\* newcomer replaces, install the newcomer, cancel the address's cleanup
\* timer and probe the relay with a `sessions' command.
NewRelay(c) ==
    LET ip == ConnIp[c]
        old == relays[ip]
    IN
    /\ replacing' = IF old # NoConn THEN replacing \cup {old} ELSE replacing
    /\ relays'    = [relays EXCEPT ![ip] = c]
    /\ cleanup'   = [cleanup EXCEPT ![ip] = FALSE]
    /\ seqNo'     = [seqNo EXCEPT ![c] = 1]
    /\ pending'   = [pending EXCEPT ![c] = {[seq |-> 0, who |-> Probe]}]
    /\ toRelay'   = [toRelay EXCEPT ![c] =
                        << [seq |-> 0, cmd |-> "sessions", call |-> NoCall] >>]

\* A relay opens a new TLS connection once it holds no open one; if it
\* crashed since its last connection it has lost its sessions.
\* RelayServerProtocol.connectionMade: a rejected certificate closes the
\* connection before anything is exchanged (connection_lost then ignores
\* it); an accepted one is marked authenticated and published.
Connect(c) ==
    LET ip == ConnIp[c] IN
    /\ cst[c] = "init"
    /\ stage = "running" \/ (Up /\ c \in handshaking)
    /\ ~TeardownDue
    /\ OpenConnOf(ip) = {}
    /\ \A d \in Conns : ConnIp[d] = ip /\ d < c => cst[d] # "init"
    /\ handshaking' = handshaking \ {c}
    /\ \/ /\ cst' = [cst EXCEPT ![c] = "closed"]
          /\ UNCHANGED <<sessVars, relays, cleanup, replacing, stage, stateFile, stops,
                         authenticated, halting, timedout, grace, stale, netVars,
                         relayVars>>
       \/ /\ cst' = [cst EXCEPT ![c] = "open"]
          /\ authenticated' = [authenticated EXCEPT ![c] = TRUE]
          /\ NewRelay(c)
          /\ \E crashed \in BOOLEAN :
                relayHas' = IF crashed THEN [relayHas EXCEPT ![ip] = {}] ELSE relayHas
          /\ UNCHANGED <<sessVars, halting, timedout, grace, stale, req, fromRelay,
                         stage, stateFile, stops>>

\* The relay loses its connection.  Blocks it had not read are lost, lines it
\* wrote may still arrive.
RelayDisconnect(c) ==
    /\ cst[c] = "open"
    /\ cst' = [cst EXCEPT ![c] = "half"]
    /\ toRelay' = [toRelay EXCEPT ![c] = << >>]
    /\ UNCHANGED <<sessVars, regVars, authenticated, halting, timedout, grace,
                   stale, seqNo, pending, req, relayVars>>

\* The answers a relay holding the sessions `has' may give to block m.
Reply(m, has) ==
    CASE m.cmd = "update"   -> {"ok", "error", "halting"}
      [] m.cmd = "remove"   -> {IF m.call \in has THEN "stats" ELSE "error", "halting"}
      [] m.cmd = "sessions" -> {"list", "halting"}
      [] m.cmd = "summary"  -> {"ok", "halting"}

RespLine(m, body, has) ==
    [kind |-> "resp", seq |-> m.seq, body |-> body, cmd |-> m.cmd,
     call |-> m.call, list |-> has, lapsed |-> FALSE]

\* The relay reads the next command block and answers it.
RelayAnswer(c) ==
    LET ip == ConnIp[c]
        m == Head(toRelay[c])
        has == relayHas[ip]
    IN
    /\ cst[c] = "open"
    /\ toRelay[c] # << >>
    /\ \E body \in Reply(m, has) :
         /\ relayHas' = [relayHas EXCEPT ![ip] =
                           CASE body = "ok" /\ m.cmd = "update" -> has \cup {m.call}
                             [] body = "stats" -> has \ {m.call}
                             [] OTHER -> has]
         /\ fromRelay' = [fromRelay EXCEPT ![c] = Append(@, RespLine(m, body, has))]
    /\ toRelay' = [toRelay EXCEPT ![c] = Tail(@)]
    /\ UNCHANGED <<sessVars, regVars, connVars, seqNo, pending, req>>

\* A session times out at the relay; the `expired' line goes out on the
\* relay's open connection, if it has one.
RelayExpire(ip, x) ==
    /\ x \in relayHas[ip]
    /\ relayHas' = [relayHas EXCEPT ![ip] = @ \ {x}]
    /\ \E lapsed \in BOOLEAN :
         fromRelay' = [c \in Conns |->
             IF c \in OpenConnOf(ip)
             THEN Append(fromRelay[c],
                    [kind |-> "expired", seq |-> 0, body |-> "none", cmd |-> "none",
                     call |-> x, list |-> {}, lapsed |-> lapsed])
             ELSE fromRelay[c]]
    /\ UNCHANGED <<sessVars, regVars, connVars, netVars>>

\* The relay's heartbeat reaches a timed-out connection: lineReceived for
\* `ping' leaves the timed-out state, cancels the grace timer and answers
\* `pong'.  (On a connection that is not timed out it changes nothing, and
\* no other handler reads timedout, so its place among the other lines does
\* not matter.)
Ping(c) ==
    /\ Up
    /\ Reading(c)
    /\ timedout[c]
    /\ ~TeardownDue
    /\ timedout' = [timedout EXCEPT ![c] = FALSE]
    /\ grace'    = [grace EXCEPT ![c] = FALSE]
    /\ UNCHANGED <<sessVars, regVars, cst, authenticated, halting, stale,
                   netVars, relayVars>>

-----------------------------------------------------------------------------
(* The dispatcher's handlers.                                              *)

\* RelayFactory.send_command for one OpenSIPS request (call_id present).
\* A live session is routed to its pinned relay; an update without one is
\* placed on the candidates: the preferred relay if registered and active,
\* then the other active relays in random order; a remove of an expired
\* session is answered locally; anything else fails.
Candidates(pref) ==
    LET others == {relays[i] : i \in {i \in Ips \ {pref} :
                       relays[i] # NoConn /\ Active(relays[i])}}
        first  == IF pref # NoIp /\ relays[pref] # NoConn /\ Active(relays[pref])
                  THEN << relays[pref] >> ELSE << >>
    IN {first \o p : p \in SetToSeqs(others)}

Route(r, q) ==
    LET x == q.call
        s == sessions[x]
        n == [Net EXCEPT !.req[r] = q]
    IN
    \/ /\ LiveSession(x)
       /\ IF relays[s.relay] = NoConn
          THEN SetNet(Answer(n, r, "failed"))
          ELSE SetNet(SendCommand([n EXCEPT !.req[r].st = "wait"], relays[s.relay],
                                  r, q.cmd, x))
       /\ UNCHANGED sessions
    \/ /\ ~LiveSession(x)
       /\ q.cmd = "update"
       /\ \E try \in Candidates(q.pref) :
             SetNet(TryNext([n EXCEPT !.req[r].st = "wait", !.req[r].place = TRUE,
                                      !.req[r].try = try], r))
       /\ UNCHANGED sessions
    \/ /\ ExpiredSession(x)
       /\ q.cmd = "remove"
       /\ sessions' = [sessions EXCEPT ![x] = NoSession]
       /\ SetNet(Answer(n, r, "replied"))
    \/ /\ s = NoSession
       /\ q.cmd = "remove"
       /\ SetNet(Answer(n, r, "failed"))
       /\ UNCHANGED sessions

\* RelayFactory.get_summary and get_statistics: send the query to every
\* registered relay (halting and timed-out ones too) and gather the
\* Deferreds in a DeferredList, which fires at once when there are none.
FanOut(n, r) ==
    LET regs == {relays[i] : i \in {i \in Ips : relays[i] # NoConn}} IN
    IF regs = {} THEN Answer(n, r, "replied")
    ELSE FoldSet(LAMBDA c, acc : SendCommand(acc, c, r, "summary", NoCall),
                 [n EXCEPT !.req[r].st = "wait", !.req[r].left = Cardinality(regs)],
                 regs)

\* A caller sends request r: OpenSIPS an update or remove, whose call-id
\* and, for an update, dialog_id and media_relay headers are inputs
\* (RelayFactory.send_command); the management console a summary or
\* sessions query.
Request(r) ==
    /\ req[r].st = "idle"
    /\ stage \in {"running", "draining"}
    /\ ~TeardownDue
    /\ \E cmd \in Cmds, x \in CallIds, d \in BOOLEAN, p \in Ips \cup {NoIp} :
         /\ cmd # "update" => (~d /\ p = NoIp)
         /\ IF cmd = "summary"
            THEN /\ x = IdleRequest.call
                 /\ SetNet(FanOut([Net EXCEPT !.req[r].cmd = "summary"], r))
                 /\ UNCHANGED sessions
            ELSE Route(r, [req[r] EXCEPT !.cmd = cmd, !.call = x, !.dialog = d,
                                         !.pref = p])
    /\ UNCHANGED <<regVars, connVars, relayVars>>

\* The line just handled is consumed.
Consume(c) == fromRelay' = [fromRelay EXCEPT ![c] = Tail(@)]

\* RelayFactory._cb_purge_sessions: drop the live sessions pinned to ip that
\* the relay's `sessions' answer does not list.
Purge(ip, list) ==
    [x \in CallIds |->
        IF LiveSession(x) /\ sessions[x].relay = ip /\ x \notin list
        THEN NoSession ELSE sessions[x]]

\* Seeded fault for mutation testing: the session records the protocol
\* object instead of its address.
AddSession_storeProtocol(r, c) ==
    sessions' = [sessions EXCEPT ![req[r].call] =
                    [relay |-> c, dialog |-> req[r].dialog, expired |-> FALSE]]

\* RelayFactory._add_session: the placed update succeeded on connection c;
\* the session is pinned to its address.
AddSession(r, c) ==
    sessions' = [sessions EXCEPT ![req[r].call] =
                    [relay |-> ConnIp[c], dialog |-> req[r].dialog, expired |-> FALSE]]

\* RelayServerProtocol.lineReceived for `<seq> <rest>' on connection c.
\* An unknown seq is dropped.  `error' and `halting' errback the waiter.  The
\* answer to a remove is the relay's statistics: the session is looked up by
\* call_id (a KeyError if it is gone, which Twisted turns into closing the
\* connection, the popped Deferred never fired) and dropped, and the waiter
\* gets `removed'.  Any other answer is the waiter's result: the probe
\* reconciles the sessions, a placing update records the session pinned to
\* the relay that answered (RelayFactory._add_session).
HandleResponse(c, l) ==
    LET hits == {e \in pending[c] : e.seq = l.seq} IN
    IF hits = {}
    THEN Consume(c) /\ UNCHANGED <<sessVars, regVars, connVars, netVars, relayHas>>
    ELSE
    LET e  == CHOOSE e \in hits : TRUE
        n  == [Net EXCEPT !.pending[c] = @ \ {e}]
        ip == ConnIp[c]
    IN
    CASE l.body \in {"error", "halting"} ->
            /\ SetNet(FailWaiter(n, e.who))
            /\ halting' = [halting EXCEPT ![c] = @ \/ l.body = "halting"]
            /\ Consume(c)
            /\ UNCHANGED <<sessVars, regVars, cst, authenticated, timedout, grace,
                           stale, relayHas>>
      [] CmdOf(e.who) = "remove" /\ sessions[l.call] = NoSession ->
            /\ ConnectionLost(c, n)
            /\ UNCHANGED <<sessVars, replacing, authenticated, halting, relayHas>>
      [] CmdOf(e.who) = "remove" ->
            /\ sessions' = [sessions EXCEPT ![l.call] = NoSession]
            /\ SetNet(Answer(n, e.who, "replied"))
            /\ Consume(c)
            /\ UNCHANGED <<regVars, connVars, relayHas>>
      [] e.who = Probe ->
            /\ sessions' = Purge(ip, l.list)
            /\ SetNet(n)
            /\ Consume(c)
            /\ UNCHANGED <<regVars, connVars, relayHas>>
      [] OTHER ->
            /\ IF req[e.who].place THEN AddSession(e.who, c) ELSE UNCHANGED sessions
            /\ SetNet(Succeed(n, e.who))
            /\ Consume(c)
            /\ UNCHANGED <<regVars, connVars, relayHas>>

\* RelayServerProtocol.lineReceived for `expired <json>': drop it if the
\* session is unknown or pinned elsewhere; if it has a dialog_id and the
\* relay reports a start_time and a stream that did not end as an unselected
\* ICE candidate (lapsed), ask OpenSIPS to end the dialog and mark the
\* session expired; otherwise drop it.
HandleExpired(c, l) ==
    LET s == sessions[l.call] IN
    /\ IF s = NoSession THEN UNCHANGED sessions
       ELSE IF s.relay # ConnIp[c] THEN UNCHANGED sessions
       ELSE IF s.dialog /\ l.lapsed
            THEN sessions' = [sessions EXCEPT ![l.call].expired = TRUE]
            ELSE sessions' = [sessions EXCEPT ![l.call] = NoSession]
    /\ Consume(c)
    /\ UNCHANGED <<regVars, connVars, netVars, relayHas>>

\* The dispatcher reads the next line of connection c.
Receive(c) ==
    LET l == Head(fromRelay[c]) IN
    /\ Up
    /\ Reading(c)
    /\ fromRelay[c] # << >>
    /\ TeardownDue => c \in replacing
    /\ IF l.kind = "expired" THEN HandleExpired(c, l) ELSE HandleResponse(c, l)

\* The dispatcher notices that the relay end of c is gone.
ConnLost(c) ==
    /\ Up
    /\ cst[c] \in {"half", "closing"}
    /\ ~TeardownDue
    /\ ConnectionLost(c, Net)
    /\ UNCHANGED <<sessVars, replacing, authenticated, halting, relayHas>>

\* Seeded fault for mutation testing: the timed-out command is read from
\* the table but not popped.
Timeout_keepEntry(c) ==
    /\ Up
    /\ ~TeardownDue
    /\ \E e \in pending[c] :
        /\ SetNet(FailWaiter(Net, e.who))
        /\ IF timedout[c] THEN UNCHANGED <<timedout, grace>>
           ELSE /\ timedout' = [timedout EXCEPT ![c] = TRUE]
                /\ grace'    = [grace EXCEPT ![c] = TRUE]
        /\ UNCHANGED <<sessVars, regVars, cst, authenticated, halting, stale,
                       relayVars>>

\* RelayServerProtocol._timeout: the command's Deferred fails with "relay timed
\* out"; the first timeout marks the connection timed out and arms the grace
\* timer.
Timeout(c) ==
    /\ Up
    /\ ~TeardownDue
    /\ \E e \in pending[c] :
        /\ SetNet(FailWaiter([Net EXCEPT !.pending[c] = @ \ {e}], e.who))
        /\ IF timedout[c] THEN UNCHANGED <<timedout, grace>>
           ELSE /\ timedout' = [timedout EXCEPT ![c] = TRUE]
                /\ grace'    = [grace EXCEPT ![c] = TRUE]
        /\ UNCHANGED <<sessVars, regVars, cst, authenticated, halting, stale,
                       relayVars>>

\* The grace timer fires: transport.connectionLost(TCPTimedOutError).
GraceExpire(c) ==
    /\ Up
    /\ grace[c]
    /\ ~TeardownDue
    /\ \/ /\ Live(c)
          /\ ConnectionLost(c, Net)
          /\ UNCHANGED <<sessVars, replacing, authenticated, halting, relayHas>>
       \/ /\ cst[c] = "closed"
          /\ grace' = [grace EXCEPT ![c] = FALSE]
          /\ ClosedConnectionLost(c)
          /\ UNCHANGED <<sessVars, regVars, cst, authenticated, halting, relayVars>>

\* The callLater(0) of new_relay: old.transport.connectionLost(ConnectionReplaced).
ReplacedTeardown(o) ==
    /\ Up
    /\ o \in replacing
    /\ replacing' = replacing \ {o}
    /\ \/ /\ Live(o)
          /\ ConnectionLost(o, Net)
          /\ UNCHANGED <<sessVars, authenticated, halting, relayHas>>
       \/ /\ cst[o] = "closed"
          /\ ClosedConnectionLost(o)
          /\ UNCHANGED <<sessVars, relays, cleanup, lifeVars, cst, authenticated, halting,
                         grace, relayVars>>

\* RelayFactory._do_cleanup: the cleanup timer of a lost relay fires and every
\* session pinned to it is dropped.
DoCleanup(ip) ==
    /\ Up
    /\ cleanup[ip]
    /\ ~TeardownDue
    /\ cleanup'  = [cleanup EXCEPT ![ip] = FALSE]
    /\ sessions' = [x \in CallIds |->
                      IF sessions[x] # NoSession /\ sessions[x].relay = ip
                      THEN NoSession ELSE sessions[x]]
    /\ UNCHANGED <<relays, replacing, lifeVars, connVars, netVars, relayVars>>

\* RelayFactory._remove_expired_sessions (every 600 s): the expired sessions
\* older than cleanup_expired_sessions_after are dropped; which of them are old
\* enough is left open.
RemoveExpiredSessions ==
    /\ Up
    /\ ~TeardownDue
    /\ \E old \in SUBSET {x \in CallIds : ExpiredSession(x)} :
        /\ old # {}
        /\ sessions' = [x \in CallIds |-> IF x \in old THEN NoSession ELSE sessions[x]]
        /\ UNCHANGED <<regVars, connVars, netVars, relayVars>>

-----------------------------------------------------------------------------
(* The process: graceful shutdown, crash and restart.                      *)

\* Dispatcher._shutdown (SIGHUP, SIGINT or SIGTERM): the listeners stop, so
\* no new connection is accepted, but a relay whose TCP connection was
\* accepted before still completes its TLS handshake (connectionMade) later;
\* the OpenSIPS and management factories shut down next (module Control)
\* while relay traffic goes on.
StopListening ==
    /\ stage = "running"
    /\ ~TeardownDue
    /\ stops < MaxStops
    /\ stage' = "draining"
    /\ stops' = stops + 1
    /\ \E late \in SUBSET {c \in Conns : cst[c] = "init"} :
          /\ Cardinality(late) <= MaxLate
          /\ handshaking' = late
    /\ UNCHANGED <<sessVars, relays, cleanup, replacing, stateFile, connVars,
                   netVars, relayVars>>

\* RelayFactory.shutdown, once the control factories are done: cancel every
\* cleanup timer and close every registered relay (loseConnection), or save
\* the state at once if none is registered.
RelayShutdown ==
    LET registered == {relays[i] : i \in {i \in Ips : relays[i] # NoConn}} IN
    /\ stage = "draining"
    /\ ~TeardownDue
    /\ cleanup' = [i \in Ips |-> FALSE]
    /\ IF registered = {} THEN SaveState
       ELSE /\ stage' = "relays"
            /\ UNCHANGED stateFile
    /\ cst'     = [c \in Conns |-> IF c \in registered THEN "closing" ELSE cst[c]]
    /\ toRelay' = [c \in Conns |-> IF c \in registered THEN << >> ELSE toRelay[c]]
    /\ UNCHANGED <<sessVars, relays, replacing, stops, handshaking, authenticated,
                   halting, timedout, grace, stale, seqNo, pending, req, relayVars>>

\* The process dies at any point: every connection is gone, and the state
\* file, unlinked at startup, is not on disk.
Crash ==
    /\ Up
    /\ stops < MaxStops
    /\ stage'     = "stopped"
    /\ stops'     = stops + 1
    /\ handshaking' = {}
    /\ cst'       = [c \in Conns |-> IF cst[c] = "init" THEN "init" ELSE "closed"]
    /\ toRelay'   = [c \in Conns |-> << >>]
    /\ fromRelay' = [c \in Conns |-> << >>]
    /\ UNCHANGED <<sessVars, relays, cleanup, replacing, stateFile, authenticated,
                   halting, timedout, grace, stale, seqNo, pending, req, relayHas>>

\* Seeded fault for mutation testing: the loaded sessions get no cleanup
\* timers.
Start_noCleanupTimers ==
    /\ stage = "stopped"
    /\ sessions' = IF stateFile = NoFile THEN [x \in CallIds |-> NoSession] ELSE stateFile
    /\ cleanup'  = [i \in Ips |-> FALSE]
    /\ stateFile' = NoFile
    /\ stage' = "running"
    /\ handshaking' = {}
    /\ relays' = [i \in Ips |-> NoConn]
    /\ replacing' = {}
    /\ cst' = [c \in Conns |-> "init"]
    /\ authenticated' = [c \in Conns |-> FALSE]
    /\ halting' = [c \in Conns |-> FALSE]
    /\ timedout' = [c \in Conns |-> FALSE]
    /\ grace' = [c \in Conns |-> FALSE]
    /\ stale' = [c \in Conns |-> FALSE]
    /\ seqNo' = [c \in Conns |-> 0]
    /\ pending' = [c \in Conns |-> {}]
    /\ toRelay' = [c \in Conns |-> << >>]
    /\ fromRelay' = [c \in Conns |-> << >>]
    /\ req' = [r \in Reqs |-> IF req[r].st = "wait"
                              THEN [IdleRequest EXCEPT !.st = "failed"] ELSE req[r]]
    /\ UNCHANGED <<stops, relayHas>>

\* A new process starts: RelayFactory.__init__ loads the pickled sessions,
\* if the file is there, arms a cleanup timer for every address they name,
\* and unlinks the file.  The OpenSIPS callers of the old process saw its
\* socket close: their requests failed.
Start ==
    LET loaded == IF stateFile = NoFile THEN [x \in CallIds |-> NoSession]
                  ELSE stateFile
    IN
    /\ stage = "stopped"
    /\ sessions' = loaded
    /\ cleanup'  = [i \in Ips |-> \E x \in CallIds :
                                    loaded[x] # NoSession /\ loaded[x].relay = i]
    /\ stateFile' = NoFile
    /\ stage' = "running"
    /\ handshaking' = {}
    /\ relays' = [i \in Ips |-> NoConn]
    /\ replacing' = {}
    /\ cst' = [c \in Conns |-> "init"]
    /\ authenticated' = [c \in Conns |-> FALSE]
    /\ halting' = [c \in Conns |-> FALSE]
    /\ timedout' = [c \in Conns |-> FALSE]
    /\ grace' = [c \in Conns |-> FALSE]
    /\ stale' = [c \in Conns |-> FALSE]
    /\ seqNo' = [c \in Conns |-> 0]
    /\ pending' = [c \in Conns |-> {}]
    /\ toRelay' = [c \in Conns |-> << >>]
    /\ fromRelay' = [c \in Conns |-> << >>]
    /\ req' = [r \in Reqs |-> IF req[r].st = "wait"
                              THEN [IdleRequest EXCEPT !.st = "failed"] ELSE req[r]]
    /\ UNCHANGED <<stops, relayHas>>

-----------------------------------------------------------------------------
Init ==
    /\ sessions  = [x \in CallIds |-> NoSession]
    /\ relays    = [i \in Ips |-> NoConn]
    /\ cleanup   = [i \in Ips |-> FALSE]
    /\ replacing = {}
    /\ cst       = [c \in Conns |-> "init"]
    /\ authenticated = [c \in Conns |-> FALSE]
    /\ halting   = [c \in Conns |-> FALSE]
    /\ timedout  = [c \in Conns |-> FALSE]
    /\ grace     = [c \in Conns |-> FALSE]
    /\ stale     = [c \in Conns |-> FALSE]
    /\ seqNo     = [c \in Conns |-> 0]
    /\ pending   = [c \in Conns |-> {}]
    /\ toRelay   = [c \in Conns |-> << >>]
    /\ fromRelay = [c \in Conns |-> << >>]
    /\ relayHas  = [i \in Ips |-> {}]
    /\ req = [r \in Reqs |-> IdleRequest]
    /\ stage = "running"
    /\ stateFile = NoFile
    /\ stops = 0
    /\ handshaking = {}

Next ==
    \/ \E r \in Reqs : Request(r)
    \/ \E c \in Conns :
          \/ Connect(c) \/ RelayDisconnect(c) \/ RelayAnswer(c) \/ Ping(c)
          \/ Receive(c) \/ ConnLost(c) \/ Timeout(c) \/ GraceExpire(c)
          \/ ReplacedTeardown(c)
    \/ \E i \in Ips : DoCleanup(i) \/ \E x \in CallIds : RelayExpire(i, x)
    \/ RemoveExpiredSessions
    \/ StopListening \/ RelayShutdown \/ Crash \/ Start

Spec == Init /\ [][Next]_vars

\* The reactor runs every timer once it is due: each command's relay_timeout
\* timer, the disconnect_timer and new_relay's callLater(0).
TimerFairness ==
    \A c \in Conns :
        /\ WF_vars(Timeout(c))
        /\ WF_vars(GraceExpire(c))
        /\ WF_vars(ReplacedTeardown(c))

\* It also runs the cleanup timers and the shutdown callbacks, reads the lines
\* that have arrived and reports a connection whose peer has gone.  The
\* relays and OpenSIPS get no fairness: a relay may stay silent and OpenSIPS
\* may stop sending.
Fairness ==
    /\ TimerFairness
    /\ \A c \in Conns : WF_vars(Receive(c)) /\ WF_vars(ConnLost(c))
    /\ \A i \in Ips : WF_vars(DoCleanup(i))
    /\ WF_vars(RelayShutdown)

\* The timers alone: a liveness property checked under TimerSpec holds
\* under FairSpec too.
TimerSpec == Spec /\ TimerFairness
FairSpec == Spec /\ Fairness

\* The OpenSIPS requests, seen through the promise of RequestLifecycle.
Lifecycle == INSTANCE RequestLifecycle WITH st <- [r \in Reqs |-> req[r].st]

-----------------------------------------------------------------------------
TypeOK ==
    /\ sessions \in [CallIds -> Session \cup {NoSession}]
    /\ relays \in [Ips -> Conns \cup {NoConn}]
    /\ cleanup \in [Ips -> BOOLEAN]
    /\ replacing \subseteq Conns
    /\ cst \in [Conns -> {"init", "open", "half", "closing", "closed"}]
    /\ authenticated \in [Conns -> BOOLEAN]
    /\ halting \in [Conns -> BOOLEAN]
    /\ timedout \in [Conns -> BOOLEAN]
    /\ grace \in [Conns -> BOOLEAN]
    /\ stale \in [Conns -> BOOLEAN]
    /\ seqNo \in [Conns -> Nat]
    /\ pending \in [Conns -> SUBSET Entry]
    /\ toRelay \in [Conns -> Seq(Block)]
    /\ fromRelay \in [Conns -> Seq(Line)]
    /\ relayHas \in [Ips -> SUBSET CallIds]
    /\ req \in [Reqs -> ReqRecord]
    /\ stage \in {"running", "draining", "relays", "stopped"}
    /\ stateFile \in [CallIds -> Session \cup {NoSession}] \cup {NoFile}
    /\ stops \in 0..MaxStops
    /\ handshaking \subseteq Conns

\* RelayFactory.relays names, for each address, a live authenticated
\* connection of that address, and every live authenticated connection that
\* is not being replaced is the registered one: new_relay installs the
\* newcomer before the old connection is torn down, and connection_lost
\* unregisters a connection only while it is still the registered one.
\* (A process that has stopped has no registry.)
RegistryIsCurrent ==
    Up =>
        /\ \A i \in Ips : relays[i] # NoConn =>
              ConnIp[relays[i]] = i /\ authenticated[relays[i]] /\ Live(relays[i])
        /\ \A c \in Conns : Live(c) /\ authenticated[c] /\ c \notin replacing =>
              relays[ConnIp[c]] = c

\* A cleanup timer is armed only for an address with no registered
\* connection: a relay that reconnects cancels it in new_relay, so
\* _do_cleanup never drops the sessions of a relay that is back.
NoCleanupOfConnectedRelay ==
    \A i \in Ips : cleanup[i] => relays[i] = NoConn

\* Every session is pinned to a registered relay or to an address whose
\* cleanup timer is armed: no interleaving of connectionLost, replacement and
\* _add_session leaves a session that nothing will ever reclaim, and a
\* restart arms a cleanup timer for every address of the sessions it loads.
\* (From RelayFactory.shutdown on, the sessions are kept for the state file.)
SessionsReclaimable ==
    stage \in {"running", "draining"} =>
        \A x \in CallIds : sessions[x] # NoSession =>
            relays[sessions[x].relay] # NoConn \/ cleanup[sessions[x].relay]

\* Every OpenSIPS request still waiting has exactly one command in flight (its
\* Deferred sits in exactly one command table, where a response, a timeout or
\* connectionLost will fire it), a waiting management query has exactly as
\* many as its DeferredList still waits for, and an answered request has none.
WaiterAccounted ==
    \A r \in Reqs :
        LET holders == UNION {{<<c, e>> : e \in {e \in pending[c] : e.who = r}} : c \in Conns}
        IN Cardinality(holders) =
             IF req[r].st # "wait" THEN 0
             ELSE IF req[r].cmd = "summary" THEN req[r].left ELSE 1

\* A live session stays pinned to the relay it was placed on (spec section 3:
\* relay_addr is immutable for the session's lifetime; RelayFactory.
\* _add_session and the routing of send_command).
PinnedRelayStable ==
    [][\A x \in CallIds :
          LiveSession(x) /\ sessions'[x] # NoSession
          => sessions'[x].relay = sessions[x].relay]_sessions

\* Every request, from OpenSIPS or the management console, is answered
\* exactly once, and one that waits on relays is eventually answered (by the
\* relays' responses, their relay_timeout timers, or connectionLost; for a
\* query, once the last Deferred of its DeferredList has fired), whatever
\* the relays do.
ImplementsLifecycle == Lifecycle!Spec

\* A live session that its relay no longer holds (RelaySession outliving the
\* relay's session) is eventually dropped: by the answer to its remove, the
\* relay's `expired' line, the purge after a reconnect or _do_cleanup.
Unbacked(x) == LiveSession(x) /\ x \notin relayHas[sessions[x].relay]
UnbackedSessionsDropped == \A x \in CallIds : Unbacked(x) ~> ~Unbacked(x)

\* Once RelayFactory.shutdown has closed the registered relays, the last
\* connection_lost completes it and the sessions are saved, whatever the
\* relays do: shutdown never waits forever on the relay side.
ShutdownCompletes == stage = "relays" ~> stage = "stopped"
=============================================================================
