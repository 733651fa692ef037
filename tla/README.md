# TLA+ models of the MediaProxy dispatcher

This directory model-checks `src/mediaproxy/dispatcher.py`, the MediaProxy
dispatcher. The dispatcher sits between OpenSIPS and a pool of media relays.
OpenSIPS sends `update` and `remove` commands for calls over a UNIX socket.
The dispatcher sends each command to a relay over a TLS connection the relay
opened, and remembers which relay holds each call's session.

## 1. Inventory

### Components

| Component | Code | State | Operations |
|---|---|---|---|
| Relay connection | `RelayServerProtocol` (185-320) | `commands` (seq -> command, Deferred, timer), `sequence_number`, `halting`, `timedout`, `disconnect_timer`, `authenticated` | `connectionMade`, `send_command`, `_timeout`, `lineReceived` (`expired`, `ping`, response), `connectionLost` |
| Relay registry | `RelayFactory` (330-485) | `relays` (ip -> connection), `cleanup_timers`, `shutting_down` | `new_relay`, `_cb_purge_sessions`, `connection_lost`, `_do_cleanup`, `shutdown`, `_save_state` |
| Session router | `RelayFactory.send_command`, `_try_next`, `_relay_error`, `_add_session`, `_remove_expired_sessions` | `sessions` (call_id -> `RelaySession(relay_ip, dialog_id, expire_time)`) | route to the pinned relay; place with failover; answer a remove of an expired session locally; sweep every 600 s |
| Persistence | `RelayFactory.__init__`, `_save_state` | the pickled `dispatcher_state` file | load and unlink at start; dump at shutdown |
| OpenSIPS ingress | `ControlProtocol`, `OpenSIPSControlProtocol`, `ControlFactory` (51-170) | `in_progress`, `shutting_down`, the connections | `lineReceived`, `handle_request`, `_decrement`, `shutdown` |
| Management | `ManagementControlProtocol`, `get_summary`, `get_statistics` | none of its own | fan-out queries over every relay |
| Process | `Dispatcher` (488-555) | the factories, accounting modules | `run`, `_shutdown`, `update_statistics` |

### How they interact

- OpenSIPS requests go through `Dispatcher.send_command` to `RelayFactory.send_command`.
- A call with a live session goes to its pinned relay's connection.
- An `update` for a new call tries the candidate relays in turn:
  - the preferred relay first, if it is registered and active;
  - then the other active relays, shuffled.
- Each failure errback (`_relay_error`) sends to the next candidate. The first
  success pins the session (`_add_session`).
- A relay that connects replaces any older connection from the same address.
  The old connection is torn down by `callLater(0)`.
- On connect, the new connection cancels the address's cleanup timer and
  sends a `sessions` probe. The probe's answer purges the sessions the relay
  no longer holds.
- A lost connection fails every command in its table. It unregisters itself
  if it is still the registered one, and arms a cleanup timer that will drop
  the address's sessions.

### Hard behaviours

- Many callbacks in one reactor: OpenSIPS requests, relay lines, per-command
  timers, grace timers, cleanup timers, the 600 s sweep and the deferred
  teardown all interleave.
- Several commands for one connection are pipelined.
- Relays disconnect, time out, halt, crash (losing their sessions) and
  reconnect.
- Every shutdown signal runs `_shutdown` again, with its own callback chain
  over the factories' `shutdown()`.
- Errbacks fire synchronously inside other handlers. Failover runs inside
  `connectionLost` and `_timeout`.
- `connectionLost` does not clear the command table. It can be called a
  second time, by the grace timer or by the replacement teardown.

### Properties wanted, per component

- **Connection:**
  - responses are matched to the right command;
  - every waiting caller has exactly one command in flight;
  - every caller is eventually answered.
- **Registry:**
  - the registry names the current connection;
  - no cleanup timer is armed for a connected relay;
  - every session can be reclaimed.
- **Router:** a live session never changes relay.
- **Ingress:**
  - `in_progress` counts the requests in flight;
  - shutdown closes a connection only when it is idle.
- **Persistence:** sessions survive a clean restart.

## 2. Modules

`Dispatcher.tla` models the relay connections, the registry and the router
together, because their handlers call each other synchronously. Each Twisted
callback is one atomic action. Any errback chain it triggers is included in
that action. This chain is the record `Net` (`seqNo`, `pending`, `toRelay`,
`req`), threaded through `SendCommand`, `TryNext`, `FailWaiter` and `FailAll`.

| Code | Variable |
|---|---|
| `RelayFactory.sessions` | `sessions` (relay, dialog, expired) |
| `RelayFactory.relays` | `relays` |
| `cleanup_timers` | `cleanup` |
| scheduled `ConnectionReplaced` teardowns | `replacing` |
| transport state | `cst`: `init`, `open`, `half` (relay end gone), `closing` (`loseConnection` called, no more reads), `closed` |
| `halting`, `timedout`, `authenticated` | same names |
| `disconnect_timer` | `grace` |
| entries an earlier `connectionLost` left in the table | `stale` |
| `commands` | `pending`, as a set of (seq, who) |
| bytes in flight each way | `toRelay` and `fromRelay` (sequences) |
| each relay process's sessions | `relayHas` |
| the OpenSIPS callers | `req` |
| where the process is in `_shutdown` | `stage`: `running`, `draining`, `relays` (waiting in `connection_lost`), `stopped` |
| the `dispatcher_state` file | `stateFile` |
| relays whose TLS handshake was in flight at `stopListening` | `handshaking` |

| Action | Code |
|---|---|
| `Request` + `Route` | `RelayFactory.send_command` |
| `Request` + `FanOut` | `RelayFactory.get_summary` / `get_statistics` (a management query) |
| `PartDone` (inside the handlers that fire a command) | one Deferred of the query's `DeferredList` firing |
| `Connect` + `NewRelay` | `connectionMade` / `new_relay` |
| `Receive` -> `HandleResponse` / `HandleExpired` | `lineReceived` |
| `Ping` | the `ping` branch of `lineReceived` |
| `Timeout` | `_timeout` |
| `GraceExpire` | the disconnect timer firing |
| `ConnLost` | the transport noticing the relay is gone |
| `ReplacedTeardown` | the `callLater(0)` of `new_relay` |
| `ConnectionLost` / `ClosedConnectionLost` | `connectionLost` on a live or on an already closed connection |
| `FactoryConnectionLost` | `connection_lost` |
| `DoCleanup` | `_do_cleanup` |
| `RemoveExpiredSessions` | `_remove_expired_sessions` |
| `StopListening` | `Dispatcher._shutdown` stopping the listeners |
| `RelayShutdown` | `RelayFactory.shutdown` |
| `SaveState` (inside `RelayShutdown` / `FactoryConnectionLost`) | `_save_state` and `_stop` |
| `Crash` | the process dying (spec_modelled) |
| `Start` | `RelayFactory.__init__` loading and unlinking the state file |

The relay processes are the environment and are modelled from the protocol
(spec_modelled):
- `RelayAnswer` answers commands in order;
- `RelayExpire` expires a session;
- `RelayDisconnect` drops the connection;
- `Connect` reconnects, with an optional crash that empties `relayHas`.

Abstractions:
- The `expired` line's `start_time` and ICE status are folded into one flag,
  `lapsed`.
- Ping is an atomic step on a timed-out connection. Elsewhere it changes no
  dispatcher state.
- A caller's data is forgotten once its Deferred fires.
- Wording, JSON and logging are left out.
- The `callLater(0)` teardown is urgent (`TeardownDue`): no other dispatcher
  callback runs before it, except lines already read on the replaced
  connection. The relays keep acting.

The callers are OpenSIPS and the management console. The constant `Cmds` says
which commands they send. `update` and `remove` go through `Route`. `summary`
stands for both management queries, which differ only in how the answers are
joined. A query sends one command to every registered relay and counts them
in `left`. Every firing of one of its Deferreds, whether an answer, a timeout,
a `halting` or `error` reply or `connectionLost`, is a `PartDone`. The caller
is answered when the last one fires, or at once when no relay is registered.

`StopListening` picks up to `MaxLate` relays whose TCP connection was accepted
but whose TLS handshake is not finished. They may still run `connectionMade`
while the process shuts down.

`RequestLifecycle.tla` is the abstract specification of what an OpenSIPS
caller is promised. A request is issued once and is then answered at once or
waits. A waiting request is eventually answered exactly once (`Settle`). One
step may settle several waiting requests, because one `connectionLost` fails
every command in its table. `Dispatcher` refines it by
`Lifecycle == INSTANCE RequestLifecycle WITH st <- [r \in Reqs |-> req[r].st]`,
checked as the property `ImplementsLifecycle`.

`Control.tla` models the control connections (lines 51-170) and the callback
chain of `Dispatcher._shutdown` that each shutdown signal starts (lines
530-555). Its state:

| Code | Variable |
|---|---|
| the listeners | `listening` |
| `shutting_down` and `defer` of both `ControlFactory`s and of the `RelayFactory` | `fstate`: `running`, `shutting`, `done` |
| per shutdown signal, the `_shutdown` callback its chain is at | `chain`: `none`, `opensips`, `management`, `relays`, `stopped` |
| the chains waiting on a Deferred that `shutdown()` returned | `holds` |
| `ControlFactory.protocols` | `protocols` |
| the transport | `pst`: `init`, `open`, `closing`, `closed` |
| `in_progress` | `inProgress` |
| Deferreds of a connection not yet fired | `outstanding` |
| connections the dispatcher closed itself | `serverClosed` |

`Request` is one request line (block) of `lineReceived`. It becomes either
`OpenSIPSRequest` (counted in `in_progress`, answered later or at once) or
`ManagementRequest`. A `summary`/`sessions` query is outstanding without being
counted. `version` and unknown lines are answered at once, and `quit` closes.
`Fire` is a Deferred firing: reply, then `_decrement`.

Every SIGHUP, SIGINT or SIGTERM runs `Dispatcher._shutdown`, which builds its
own callback chain. `StopListening(i)` is signal `i`: the listeners stop and
chain `i` starts at the OpenSIPS factory. `CallShutdown(i)` is the chain's
next callback calling `shutdown()` on the OpenSIPS factory, the management
factory or the `RelayFactory`, in the order of `Then`:
- a factory already shutting down returns `None` and the chain goes straight
  on;
- otherwise `FactoryShutdown` (`ControlFactory.shutdown`) closes the idle
  connections. The chain goes on at once when there are none, and otherwise
  waits on the factory's Deferred (`holds`).

`Resume(i)` is that Deferred firing, so the chain runs its next callback.
After the `RelayFactory` the next callback is `_stop`. `RelaysDetached` is
the `RelayFactory`'s Deferred firing once the last relay is gone. The
closing of the relays and `_save_state` behind it are module `Dispatcher`'s.

`PeerClose` and `ConnLost` run
`connectionLost` and `connection_lost`. The relay side that fires the
Deferreds is `Dispatcher`, so the two modules share only the promise
`ImplementsLifecycle`.

`MCDispatcher.tla` gives the instances:
- `ReconnectConnIp`: one address with three successive connections;
- `ReconnectOnceConnIp`: one address with two;
- `TwoRelayConnIp`: two addresses, one connection each;
- `OneRelayConnIp`: one address, one connection;
- `FaultFree` and `PlainTraffic`: state constraints that narrow the
  violation runs;
- `NoDialogRequests` and `PlainRequests`: constraints for the lifecycle runs.
  OpenSIPS sends no `dialog_id` header (`NoDialogRequests`), nor a
  `media_relay` header either (`PlainRequests`). They only remove choices of
  `Request`'s inputs. Every action stays enabled exactly when it would be
  without them, so no fair step is cut off and the behaviours kept are whole
  ones. A `dialog_id` only decides what an expired session does, and a
  `media_relay` only decides which relay an update tries first (the failover
  run keeps it).

`MCControl.tla` gives `Kind` maps: OpenSIPS connections only, or a mix with
management connections.

All Dispatcher cfgs other than `MCPersist.cfg` and `MCLateRelay.cfg` set
`MaxStops = 0`, so the process never stops in them. Only `MCLateRelay.cfg`
sets `MaxLate` above 0. The routing and failover-lifecycle runs add
`"summary"` to `Cmds`. The other runs use `{"update", "remove"}`. Every
Control cfg sets `MaxSignals = 1` except `MCControlSignals.cfg`, which sets it
to 2.

## 3. Runs

### routing (`MCRouting.cfg`, pass)

The setup is two relays and 1 request: an update, a remove or a management
query. It checks `WaiterAccounted`: a waiting OpenSIPS request has exactly
one command in a relay's table, and a query's `DeferredList` still waits for
exactly the commands left in the relays' tables.

About 400k states. Failover crosses both relays, and a query fans out to
both. Timeouts, `halting` answers, grace expiry and the second
`connectionLost` all occur.

### pinned_relay (`MCPinned.cfg`, violation of `PinnedRelayStable`)

Two updates for a new call are placed on relays A and B concurrently. The
later `_add_session` (line 415) re-pins the live session from A to B, which
contradicts spec section 3.

### lost_reply (`MCLostReply.cfg`, violation of `WaiterAccounted`)

The witness uses relay A only:
1. update x pins x to A;
2. OpenSIPS pipelines remove, update and remove;
3. the first stats answer deletes x;
4. the relay recreates x on the update;
5. the second stats answer raises `KeyError` at line 296.

Twisted closes the connection. The popped Deferred is never fired, so
OpenSIPS waits forever.

### lifecycle_failover (`MCLifecycle.cfg`, pass) and lifecycle_pipelined (`MCLifecyclePipelined.cfg`, pass)

Both check `ImplementsLifecycle` under `TimerSpec`:
- failover: two relays and one request (an update, a remove or a management
  query), with no `dialog_id`. About 250k states, 1.5 minutes.
- pipelined: one relay that reconnects once and two requests on one
  connection, with no `dialog_id` or `media_relay`. About 145k states, under
  a minute.

Every waiting request is answered exactly once, through failover, timeouts,
grace expiry, replacement and a second `connectionLost`. A query's
`DeferredList` fires exactly once, after its last command. This holds within
the model: the `KeyError` of lost_reply needs three pipelined commands on one
call, which these instances do not send.

### persist (`MCPersist.cfg`, pass)

One relay that connects three times, one request, and two stops (graceful
or crash) with restarts. Three connections allow a replacement with the old
connection still live, and a reconnect after a relay crash while a cleanup
timer is armed. Restarts reset the connections, so they happen again in the
next process. It checks:
- `RegistryIsCurrent` while the process is up;
- `NoCleanupOfConnectedRelay`;
- `SessionsReclaimable`: every session has a cleanup timer or a connected
  relay, also after a restart loads the state file;
- `ShutdownCompletes`: once `RelayFactory.shutdown` closes the relays,
  `_save_state` runs. The run has `MaxLate = 0`: no handshake is in flight
  at the stop (see late_relay).

About 370k states, about a minute.

### leak (`MCLeak.cfg`, violation of `UnbackedSessionsDropped`)

Update then remove on one relay. The remove times out, so OpenSIPS gets
`error`, but the relay removes the session. Its stats line matches no
command and is dropped (lines 279-282). The relay's pings clear `timedout`
and cancel the grace timer, so the connection stays up. The dispatcher keeps
a live session the relay no longer has, for as long as the relay is
connected.

The same property also catches a second leak, at line 373. Restrict this
cfg to `Cmds = {"update"}`, so that no remove can time out, and give relay A
a second connection (`ReconnectOnceConnIp`). TLC then finds:
1. an update pins x to A;
2. the relay crashes and reconnects without x;
3. `new_relay`'s `sessions` probe times out;
4. the relay's late list answer is dropped as unexpected;
5. the relay pings.

The probe has no errback and is never retried, so the purge never runs and
x stays pinned to a relay that does not hold it.

### ctl_shutdown (`MCControlShutdown.cfg`, pass)

Three connections, one of them management, with two requests in flight on
each, and one shutdown signal. It checks `ShutdownInOrder`, the order of
spec section 5. `RelayFactory.shutdown` starts only once no control
connection waits on a reply, and `_stop` runs only after the `RelayFactory`
has saved the sessions. It depends on each factory firing its Deferred only
at the last `connection_lost`, and on the chain waiting on each factory in
turn. `RelayFactory.shutdown` either has no relays, and `succeed(None)` saves
the state in the same step, or closes them and holds the chain until they
detach.

No liveness property is checked here. The factories' shutdowns do not always
complete: the `KeyError` of lost_reply leaves a Deferred that never fires.

About 100k states.

### ctl_pipelined (`MCControlPipelined.cfg`, violation of `NoReplyDropped`)

Two requests on one OpenSIPS connection. The second has no call_id and is
answered synchronously. `_decrement` (line 80) sets `in_progress` to 0
although the first is still outstanding. The process is then told to stop:
`ControlFactory.shutdown` closes the connection and the first reply is lost.

### ctl_management (`MCControlManagement.cfg`, violation of `NoReplyDropped`)

A `summary` query on a management connection is never counted in
`in_progress` (lines 128-133). Shutdown closes the connection with the query
in flight.

### late_relay (`MCLateRelay.cfg`, violation of `ShutdownCompletes`)

1. Relay A is registered, and relay B's TLS handshake is in flight when the
   listeners stop.
2. `RelayFactory.shutdown` closes A.
3. B's `connectionMade` (line 231) calls `new_relay` with no
   `shutting_down` check, so B is registered and nothing closes it.
4. A's `connection_lost` finds the registry not empty.

The shutdown Deferred never fires, `_save_state` and `_stop` never run, and
the process hangs for as long as B stays connected. The persist run sets
`MaxLate = 0`, so `ShutdownCompletes` holds there only for shutdowns with no
handshake in flight.

### ctl_signals (`MCControlSignals.cfg`, violation of `ShutdownInOrder`)

1. An OpenSIPS request is in flight when the first signal arrives.
2. Its chain calls the OpenSIPS factory's `shutdown` and waits for the
   connection to drain.
3. A second signal starts a second chain. The OpenSIPS factory's `shutdown`
   returns `None` (line 160), so that chain goes on at once.
4. The management factory has no connections, so it is done at once.
5. `RelayFactory.shutdown` closes the relays under the in-flight request.

If the relays are still detaching when a chain reaches
`RelayFactory.shutdown` a second time, it returns `None` too (line 470).
`_stop` then stops the reactor before `_save_state`, and the sessions are
lost. The same invariant states both.

### Mutants

Every property of the passing runs is broken by a seeded fault that sits
next to the definition it replaces:
- a session storing the protocol instead of the address;
- a timeout that does not pop its command;
- `connection_lost` without its identity check;
- `connection_lost` without its `shutting_down` branch;
- `new_relay` that leaves the cleanup timer armed;
- `connectionLost` that drops its commands without errbacks;
- a restart that arms no cleanup timers;
- `_decrement` that subtracts one;
- `ControlFactory.connection_lost` firing on the first loss (it breaks
  `ShutdownInOrder`);
- a `DeferredList` that waits for one answer more than it sent.

## 4. Fairness

The reactor runs every callback whose time has come, so the liveness
properties assume weak fairness of (`Dispatcher.TimerFairness`):
- `Timeout`, because `send_command` arms a timer per command;
- `GraceExpire`, the disconnect timer;
- `ReplacedTeardown`, the `callLater(0)` of `new_relay`.

`Fairness` adds:
- `DoCleanup`, the cleanup timers;
- `RelayShutdown`, the next callback of `_shutdown`;
- `Receive`, because lines that have arrived are read;
- `ConnLost`, because the transport reports a peer that is gone.

The lifecycle runs use only `TimerFairness` (`TimerSpec`). A property that
holds under less fairness also holds under more, and fewer fairness
conditions keep those runs within time.

The relays and OpenSIPS get no fairness. A relay may stay silent, drop its
connection or never answer, and OpenSIPS may stop sending.

`Control` assumes no fairness and checks only safety. Weak fairness of
`Fire` would need every Deferred to fire, which the `KeyError` of lost_reply
defeats. Weak fairness of `RelaysDetached` would need the relays to detach,
which a late relay defeats (run late_relay).

## 5. Not modelled, and the plan

Not modelled, and why:
- TLS certificate checks: a nondeterministic accept or reject.
- Configuration and accounting: they are I/O.
- Logging and JSON.
- `update_statistics` and `end_dialog`: they change no dispatcher state.
- The JSON joining of the management answers (`_got_summaries`,
  `_got_statistics`): a query's result is just "replied".
- One module composing `Control` and `Dispatcher`. They share no state. They
  meet at two points:
  - a control connection's Deferred is a `Dispatcher` request;
  - `RelayFactory.shutdown` is a callback of `_shutdown`'s chain.

  In `Control` a Deferred may fire at any time or never (`Fire`), and the
  relays may detach at any time or never (`RelaysDetached`). `Dispatcher` models one signal per process
  run and lets `RelayShutdown` run any time after the stop, which includes
  the order the code imposes. The product of the two state spaces is beyond
  TLC's reach at useful bounds.

A consequence across the two modules: the `KeyError` of lost_reply leaves a
Deferred that never fires. The OpenSIPS connection then keeps `in_progress`
above 0, so `ControlFactory.shutdown` never closes it, and the process never
gets to `RelayFactory.shutdown`.

A bug found while modelling, with no run of its own because every run slot
holds another property: `_cb_purge_sessions` (lines 376-384) applies the
relay's `sessions` list when the answer is read, not when the relay made it.
The action property "a probe answer drops only sessions the relay does not
hold" is violated on `MCDispatcher` with these settings:
- `Ips = {A}`, `Conns = {1, 2}`, `ConnIp <- ReconnectOnceConnIp`;
- `Reqs = {1, 2}`, `Cmds = {"update"}`;
- `MaxStops = 0`, `MaxLate = 0`, `FairSpec`.

The trace has 14 states:
1. x is placed on A.
2. A crashes and reconnects without x.
3. An update pinned to A re-creates x after A answered the probe with an
   empty list.
4. The stale list then deletes x and calls `end_dialog` for a call that is
   still up.

A divergence from spec section 4.3, noted here because no run checks it
any more: `get_summary` and `get_statistics` (lines 432 and 444) send a
management query to every registered relay, halting and timed-out ones
included. The spec says queries go to the active relays only. A query sent
to a timed-out relay holds its reply back until `relay_timeout`. An earlier
run found this with the action property that every `summary` command goes
to an active connection. It gave way to ctl_signals, because the check
accepts at most 12 runs.

A divergence the code has from spec section 9, noted here: an `expired` event
for a session without a `dialog_id` deletes the session (line 264). The spec
says it is marked expired.

Open ends:
1. Larger instances of the lifecycle runs (three pipelined commands on one
   call), so that the `KeyError` of lost_reply also shows as a liveness
   violation. The liveness runs are already close to the five-minute limit
   at two requests.
2. Restart after a graceful stop with relays reconnecting before their
   cleanup timers fire, at larger bounds.
3. A second signal in `Dispatcher` itself, so that the lost `_save_state`
   of ctl_signals also shows against the sessions it loses.
