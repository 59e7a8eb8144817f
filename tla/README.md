# OpenMux Server in TLA+

OpenMux Server multiplexes serial consoles, processes and TCP devices ("ports")
to many clients at once, over telnet, SSH, a TCP line protocol and a web
console, and federates ports between servers over MuxCon links. This directory
holds a TLA+ model of it: who may drive a port and how that is decided between
servers, how output reaches viewers and log files, how device links, peers and
browsers come and go, what reloads, actions, outlets and the configuration
editor do meanwhile. TLC checks the model on small instances; TLAPS proves
thirty-six theorems for every value of the constants.

Source paths below are relative to `src/openmux/server/`; `muxcon.py` and the
other adapters are in its `adapters/`, the console client in `src/openmux/client/`.

## 1. Inventory

The server is one asyncio event loop, and so is the client. A handler is atomic
between two awaits that really suspend, so everything that is hard here is an
interleaving at an await: a socket drain, a queue read, a timer, a lock, a future
another task resolves, a task cancelled where it waits.

| Component | State | Operations | Talks to | What is hard, what makes it correct |
|---|---|---|---|---|
| ConsoleManager (`console_manager.py`, `access_control.py`, `access_decision.py`) | `client_port_map`, delivery channels, presence | connect, disconnect, promote, demote, take the write slot, control frames | PortManager, listeners, RemotePortProxy | A takeover suspends between demotion and promotion; permissions change under a suspended handler. At most the port's capacity drives; a failed takeover puts the driver back |
| PortManager (`port_manager.py`) | wrappers with `connected_clients`, `client_queues`, `data_queue`, `_scrollback`, `_federation_viewer_count` | add and remove clients, promote, demote, fan-out, holds, registration | adapters, ConsoleManager, pumps | Bounded queues that evict, one shared queue with several readers, a count of holds. Loss is counted; a hold lasts as long as its pump |
| TCP client listener (`adapters/client_listener.py`) | one session record per socket | CONNECT, control frames, detach, teardown, `stop()` | ConsoleManager | Teardown and a CONNECT in flight race. No seat outlives its session |
| Telnet, SSH sessions (`listener_session.py`, `telnet_listener.py`, `ssh_listener.py`, `listener_common.py`) | escape state, mode, `sessions` | keys, menu commands, mode changes, listener reload | ConsoleManager | Several ways to end at once; two-key sequences cut by the network. Every key counts once; every seat comes back |
| MuxCon: federated write slot (`muxcon.py`, `muxcon_protocol.py`) | `_fedrw_pending`, mirrored `fed:` clients, `RemotePortProxy` | FEDRW REQUEST, RELEASE, TAKE, FEDRWACK, OPEN, CLOSE | ConsoleManager at both ends | Answers after the timeout, relays mistaken for answers, read loops that would wait for themselves. The origin is the only arbiter |
| MuxCon: relays (`muxcon.py` 7400-7530) | `_local_session_map`, `_pump_tasks` | start, seed, relay, cancel, clean up | PortManager | A cancelled pump outlives its registration; several pumps share a queue |
| MuxCon: DATA sequencing (`muxcon.py` 6680-7060) | `_peer_tx_seq`, `_peer_sendbuf`, `_peer_rx_state` | number, send, acknowledge, retransmit, reorder, flush a gap, resync | paths, ports, proxies | Several paths at once, lost acks, restarts of either peer. Output in order and once |
| MuxCon: paths and links (`muxcon.py` 2400-4000, 5889-6660) | `connections`, path groups, heartbeats | dial, authenticate, elect and fail over the primary, retire, reconcile | TCP | Throttles by two clocks, two ends that disagree, generations of a restarted peer. A dead primary is left |
| MuxCon: streams over an outage (`muxcon.py` 7940-8260) | proxies, `_client_sessions`, `_stale_sessions`, `_session_map` | advertise, reuse a proxy, close stale streams, reopen, regrant | FedSlot's arbitration, links | Work done inside the read loop that has to read its answers. Seats at the origin follow the streams |
| MuxCon: catalogue, power (`muxcon.py`, `common/federation_types.py`) | feed states, `remote_viewers` | advertise, outlet states, viewers, switch requests | peers, Power | News over several paths overtake each other. What is shown catches up |
| Device adapters (`serial.py`, `command.py`, `tcp_initiator.py`, `loopback.py`) | a port's connection, its tasks and timers | connect, reconnect, idle stop, respawn, destroy | devices, PortManager | A timer that fires while a client attaches; two starts at once; a cancellation that is swallowed. One port per device, one keeper per child |
| Lifecycle, start, reload (`lifecycle.py`, `factory.py`, `main.py`) | adapters and their ports, `config_gaps`, the web console | start, soft and full reload, shutdown | everything | One step of several fails or hangs; two reloads overlap. The server runs what the file asks for |
| Actions (`actions/`, `web_plugins/port_actions.py`) | `_active_by_port`, runs, operators | launch, stop, take over, restore, close | PortManager, ConsoleManager, the origin | The launcher's slot is borrowed in awaited steps and given back |
| Authentication (`auth_manager.py`, `security_policy.py`) | `_fail_tracker`, challenges | log in, lock, challenge, reload users | listeners | Windows and locks that expire in any order, several connections at once |
| Power and PDU (`pdu.py`, `power_command.py`, `power_drivers/command.py`) | outlet readings, driver lock, backoff | first read, poll, switch, reconcile | PDUs | A poll that overtakes a switch. Readings catch up with the device |
| Configuration (`config_manager.py`, `web_plugins/config_editor.py`) | two files, the copy in memory, the policy | load, form, save, hand edits | reload, disk | A form older than the file, a write that breaks off. A save keeps what it does not show |
| Logging (`data_logger.py`) | event queue, line buffers, files, mirrors | log, write, mirror a run, move, close | adapters, actions | A queue at its limit, files that move under their lines |
| Web console (`web_console.py`, `site_events.py`) | site sockets, console sockets, `_meta_subscribers`, debounce | connect, nudge, broadcast, stop | ConsoleManager, browsers | Debounced broadcasts that overtake each other; sockets that close under them. Pages end up right |
| Console client (`client/console.py`, `client/main.py`, `tcp_adapter.py`) | connection flags, mode, loops | attach, detach, menu, reconnect | server | Two loops over one socket. A lost session comes back |
| `openmuxctl` (`cli/openmuxctl.py`) | none | one request and its answer | server | |

`PROJECT.json` has the same list with the status of each part, and the hazards
of the code at their lines with the properties that cover them. "partly" in that
list means that some operation that changes state is left out; its note and
section 7 say which.

## 2. Modules

    PortSeats     what a port promises about its seats      (abstract)
      ^ implemented by WriteSlot and FedSlot (proved)
    DeviceLink    what device ports promise of their links  (abstract)
      ^ implemented by SerialPorts and TcpInitiator together (MCDevices, proved)

    access      WriteSlot  FedSlot
    output      PortOutput  LogFiles
    federation  PeerSeq  MuxLinks  FedStreams  FedNews
    devices     SerialPorts  TcpInitiator  CommandPort
    server      ServerReload  ConfigFiles  SignIn  ActionRun  Power
    sessions    ListenerKeys  ListenerSessions  WebConsole  ClientSession

    instances   MCWriteSlot MCFedSlot MCPeerSeq MCReload
                MCParts     PortOutput, LogFiles, ListenerKeys, SignIn, FedNews,
                            MuxLinks (its safety), CommandPort
                MCPeers     FedStreams, MuxLinks (its liveness)
                MCDevices   TcpInitiator, SerialPorts, Power, DeviceLink
                MCServices  ActionRun, ClientSession
                MCSessions  ConfigFiles, WebConsole, ListenerSessions
    proofs      WriteSlotProofs FedSlotProofs PeerSeqProofs FedStreamsProofs
                PartsProofs DevicesProofs ServicesProofs SessionsProofs
                (each about the components of the instance it is named for;
                ServicesProofs about those of MCServices and MCReload)

An MC module over several components has a variable `which` that Init chooses and
nothing changes: a behaviour is one component's, the others stay in an initial
state. It joins their checks and composes nothing. The compositions that exist are
inside the modules: FedSlot has the origin's port, two kinds of clients and both
read loops; FedStreams the link, the proxies, the slot and the mirrors; ActionRun a
run, its clients' seats and the origin's slot; Power the section, its PDUs and the
power menu; ServerReload the adapters, the port manager, the gaps and the console;
MCDevices the serial and TCP ports under one DeviceLink.

### PortSeats, WriteSlot

PortSeats has one variable, `seat`: the mode of every client's record in
`connected_clients`, or "absent". A step joins, grants, releases or leaves one seat; a
join or a grant of read-write needs room.

In WriteSlot `seat` is the record's `mode`, `standing` what the access ladder answers
for the client's user, `conn` the socket and the `teardown_started` claim, `tracked`
the session's `connected_port`, `view` the mode the session last told its client, `pc`,
`victim` and `granted` the send a handler waits in, with its locals. The only
suspensions on a local port are sends: `broadcast_presence` after each change of a seat
and the notice to a victim; each action is the code between two of them. `Reload` is
the soft reload, which changes what the ladder will say under any suspended handler,
and no seat already held.

### FedSlot

The origin server arbitrates. A peer's client is a stream of its `RemotePortProxy`,
mirrored on the origin as `fed:<peer>:<stream>`. `up` and `down` are the FIFO path each
way; `pc` and `reply` a peer's handler and its future in `_fedrw_pending`; `loop` the
take the origin's read loop is inside, `notifying` the demotion the peer's read loop is
inside; `ltake` a takeover by one of the origin's own clients. `Timeout` may fire
whenever an answer is pending. Outages of the path are FedStreams'.

### PortOutput

`Produce` is `handle_incoming_port_data` as a whole: scrollback, each client's queue, the
shared `data_queue` with its condition, the drop counter. `Open` and `Close` are the OPEN
frame and `_stop_local_session`; `Start`, `Seed`, `Resume`, `Relay` are
`_pump_local_port_to_remote` between its suspensions, `Vanish` and `Finish` a cancelled
pump that runs once more, without and with `_end_local_pump_cleanup`. Chunks are numbered
by their production. `joined`, `got`, `since`, `sent`, `out` are histories.

### PeerSeq

Each of two nodes has its sender, its receiver with the reorder buffer, and one read loop
per connection. `Receive` is `_handle_inbound_data` with `_maybe_resync_peer_generation`,
up to where `_route_data_frame` may suspend; `DrainNext` and `DrainDone` go on from there,
and only `DrainDone` stores the counter and sends the ack. Nodes in `Slow` write to local
ports and suspend; others finish a delivery first. Which open connection is used is free,
which covers every election of the primary.

### MuxLinks

One server's view of its paths to one peer. `task` is a path's dial or read loop, `conn`
its record in `connections`, `wire` what the network makes of it (up, cut, reset), `gen`
the peer instance that greeted it. `group`, `primary`, `changed` are `_mpath_groups`;
`closing` and `tail` a scheduled close and what it is doing; `leaving` the initiator a
reconcile waits for. `Heartbeat`, `Sweep` and `Tick` are the heartbeat loop, the failover
loop and time, in ticks that keep the order of the code's windows. `opt` chooses the
options (pruning, windows, preemption) and which events a behaviour may contain.

### FedStreams

Both servers of a link that is lost with what is on it and dialled again. The viewer's
server has `proxies`, `routes` (`_session_map`), `sess`, `stale` and `ask`; the origin
`mapped` (`_local_session_map`) and its pseudo-clients `seat`. `loop[n][c]` is where a
read loop stands inside PORTS:FEDERATED: it closes stale streams, opens new ones and
awaits regrants that only itself could read. A restart numbers streams from 1 again.
Two histories: `asked`, the users whose present record a seat was asked for, and `left`,
the numbers no CLOSE will come for any more, until the origin's last path goes and
`_close_connection` stops every session its peer had.

### FedNews

Outlet states and viewer counts of one federated port over any paths: broadcasts that go
path by path (`casts`: what they have yet to write on each), the advertisement a new path
starts with, switch requests and their results by request.

### SerialPorts, TcpInitiator, CommandPort, DeviceLink

SerialPorts: `serial_ports` in its order of insertion, a supervisor per port, the
duplicate flags `_recompute_duplicate_device_flags` sets, and `destroy_port` step by
step. TcpInitiator: one port's connection manager, its idle disconnects, clients, losses,
`start()` and `stop()`; every configuration of on-demand, idle disconnect and
auto-reconnect. DeviceLink: a port is gone, idle or tended; its link comes up only while it
is tended; of one that is gone nothing is left at work.

CommandPort: `child` is every process the port ever made, `proc` its `process`, `spawns` the
calls of `_spawn_process` under way and what each waits for, a process on a terminal or one
on pipes. `PtyFails` is the fallback: the port gives up on terminals for good (`pty`), the
call goes on with pipes, and if the pty was open neither side is closed (`leaks`).
`PtyTooLate` is a call whose child on a terminal is there when another has turned the port
to pipes: it spawns a second one. `monitor` is the one-shot task and the child it waits for.
stop() has two callers: `destroy_port` (`stopper`: it closes the stdin of a child on pipes,
signals, reaps) and the idle timer (`idle`), whose stop is cancelled by itself at its first
await. Two ghosts: `overtaken`, the calls since whose begin another has come back, and
`races`: two such calls both came back, a spawn came back under a monitor of the child
before or under a stop or after one, an idle stop left a living child unsignalled.

### ServerReload

The file and its loaded copy, every port object ever made, each adapter's dictionary, the
port manager's, the gaps, and the consoles with their login sessions. A task is the boot,
a soft or full reload (from a signal or from the web console, which is then replaced
later) or the shutdown, at the step it has reached. `races` records an overlap of two
operations, a time limit that struck, a full reload that failed and a browser that signed in
or out during one. MCReload instances the module, where the ghost is called `overlaps`.

### ConfigFiles

server.yaml and authentication.yaml as sections, readable or torn; security.yaml as a
policy; the copy in memory; each editor's form with masks and removed rows. `Save` is one
request: mask restored, locked sections enforced, the first file, the second, and where
it may break off.

### SignIn, ListenerKeys, ListenerSessions

SignIn: `_fail_tracker` and the challenge of one account under a clock, with connections
that ask, wait and judge in any order. ListenerKeys: the bytes of one session through
`feed_escape_byte` and `_process_input_chunk`, cut anywhere by the network.
ListenerSessions: sessions that end by their client, a failed write and a listener's
reload at once, with the mode they show.

### WebConsole, ClientSession

WebConsole: pages with their site socket, nudges, console sockets with their handlers,
the debounced meta broadcasts and the stop of the console. ClientSession: the terminal
client's read loop, keyboard loop and reconnect over one connection, and the server's end
of it.

### ActionRun, Power, LogFiles

ActionRun: runs on one port, local or federated, the awaits of `_execute` in their order,
takeovers, Stop. Power: PDUs brought up, read, polled, switched and reconciled, with the
driver's lock, the backoff and what users are told. LogFiles: the queue, the writer, line
buffers, files in two directories and the mirrors of runs.

## 3. Runs

| Run | Instance | Shows | States |
|---|---|---|---|
| `write_slot` | 3 sessions, one-writer port, 1 reload, symmetric | `SeatsProtocol`, `TakeKeepsADriver`, `GrantsAreEntitled` over all interleavings of sends | 1.1 M |
| `fed_slot` | 2 origin clients, 1 stream | `NoOrphanMirror`, `OriginSeats`; fair: `RequestsAnswered`, `SlotsFreed` | 0.24 M |
| `parts` | seven components, see below | `LossIsCounted`, `OnePumpPerStream`, `NothingStranded`, `LogsAreFaithful`, `EveryKeyOnce`, `GuessesAreFew`, `NewsCatchesUp`, `OneGeneration`, `ChildHasKeeper` | 3.9 M |
| `peer` | 2 connections and 2 successors, 2 payloads, 1 restart, 1 loss, 1 cancelled send | `InOrderOnce`, `AckedMeansTaken`; fair: `SendBufferDrains` | 0.36 M |
| `devices` | 2 serial ports on 2 devices; 1 TCP port, 3 connections; 2 PDUs with 2 outlets | `OnePortPerDevice`, `WantedIsTended`, `LinksKeepTheirPromise`, `LossIsTold`; fair: `StopEnds`, `ReadingsCatchUp` | 0.55 M |
| `reload` | 2 ports, or 2 overlapping operations; 1 edit | `RunsWhatIsAsked`, `BrowsersStaySigned`; fair: `FullEnds` | 1.5 M |
| `peers` | 1 user, 2 ports, 2 connections, 1 restart; 1 dialled, 1 accepted path, 1 restart of the peer | `RemembersStreams`, `SeatsFollowStreams`; fair: `StreamComesBack`, `FailsOver`, `SilentIsDropped` | 0.27 M |
| `services` | 2 runs, 2 clients and 2 Stops; 1 client with 2 losses | `SlotComesBack`; fair: `PortOpensAgain`, `ComesBack` | 0.46 M |
| `sessions` | 2 editors; 1 page, 2 console sockets; 2 sessions on 2 listeners | `SavesKeepTheRest`, `MetaEndsFresh`; fair: `PagesCatchUp`, `SeatsReturned` | 0.62 M |
| `lost_key`, `lost_users`, `respawn` | section 4 | one property each, violated | |

What the properties say is in the comments above them. What most of them have in
common: they hold only in a state reached by several actors, and their exceptions are
spelt out. A ghost such as `races`, `late`, `missed`, `crossed`, `overtaken` or `left`
records that one of the cases of section 4 has happened; the property is then about
every behaviour without it. No action of a component reads these ghosts; MCReload's
scenarios do, see the bounds.

Bounds, and why they are enough for the cases that matter:

- Three clients are what a takeover needs to be disturbed: taker, victim and a third that
  takes the slot in between. The origin's two clients and one stream are the same three,
  one of them remote. The proofs remove this bound. `MaxReloads` 1: a reload may set any
  client's standing to anything at any point. `MaxFlight` bounds the frames on a path
  when a client *asks*, not the answers and relays, which may pile up.
- PortOutput: a queue of 1 overflows with the second chunk. A ring of 2 seeds with none,
  one or two chunks. Two pump tasks are a replaced pump and its successor. `MaxHolds`
  keeps the leaked hold of section 4 finite. The proofs remove these bounds.
- LogFiles: a queue of 3 overflows with three chunks and their copies for a run.
  ListenerKeys: four keys are a sequence, its command and the key before or behind it.
  SignIn: a threshold of 2 within a window of 3 and locks that double from 1 to the cap 4
  fit a clock of 5 in every order of expiry. FedNews: one event over two paths, one of
  which is lost. The proofs remove these bounds, SignIn's excepted.
- ConfigFiles: one edit by hand, one typed change and one failed save, by two editors, give
  a form that is older than the file and a file that is torn.
- PeerSeq: two frames reorder; with a third, from the other side, a resync has something
  to forget. `MaxConns` leaves a connection to dial after every loss and restart.
  `MaxCopies` 1: a frame is not sent again while a copy of it or its ack is on the wire.
  `Bounded` in MCPeerSeq: when the viewer sends, the origin sends once and nothing fails;
  the other faults are checked with the origin's two frames.
- Devices and children: two serial ports and two device paths are a duplicate, a first port
  and one that inherits the device. Three connections or children are one that is going, one
  that comes and one more. `MaxTries` 1 makes every supervisor give up once. Two `Callers`
  are two spawns that overlap; a third would repeat what the second does. Any number of
  spawns may fail. The proof removes the bounds on children and callers.
- ActionRun: two runs are one that restores and one that waits for the port. `MaxCancels` 2: the
  first Stop may strike before the script, the second while the client is restored.
- Reload: one edit and two operations after the start; with both ports one operation at a
  time, with one port two that overlap. `MaxObjs` and `MaxAdapters` suffice for each step
  to make what it wants. Nothing is asked of a server after a time limit has abandoned an
  operation (MCReload). The proof has none of these bounds: any file, any number of edits,
  sign-ins and operations, also after a time limit, and ports that fail in any combination.
- MuxLinks: a dialled and an accepted path to one peer are the smallest group with a
  failover; ages are cut off at `MaxAge` 3, beyond the widest window.
- FedStreams: `MaxSid` 4 numbers every stream of a session that is reopened once after an
  outage and opened again after a restart. The proofs remove these bounds.
- Power: `Spread` in MCDevices starts with all outlets on one PDU, or split, all on or all
  off; two events are enough for a switch that meets a reload, a failure or an outside change.
- WebConsole is looked at in three ways (`Looks`): a page and a console socket with one
  change; a page that loses its links; the meta frames of two sockets. Together they cover
  its actions; a joint run of all three is too large.

`CHECK_DEADLOCK FALSE` is everywhere: clients may all leave, a device may have nothing
more to say, a server may be shut down.

Each property has a mutant, a definition of the model changed as a plausible bug would
change the code ("A variant for comparison"), under which TLC finds the property
violated. Several replay bugs the project's issues describe: the CLOSE that stopped the
pump and kept the mirrored client (issue #52), the hold that was a flag (#83), the cleanup
that cleared its successor's slot (#54), the resync that forgot the expected number (#55),
the device opened by two ports (#57).

### Fairness

The event loop runs every ready task in turn and its timers fire, so steps that are ready
without anybody's consent are weakly fair. Never fair are: what a user, peer, browser or
device may or may not do, failures, restarts, cancellation, edits.

| Module | Weakly fair |
|---|---|
| FedSlot | handlers whose answer has come, read loops with a frame. No timeout: `RequestsAnswered` says that requests are answered without a timer |
| PeerSeq | read loops, the retransmission loop, redialling, noticing a dead connection |
| SerialPorts | supervisors (an open, a close and a sleep end), the stop |
| ServerReload | steps of operations, time limits among them; a port's stop or start may hang, which is why there are limits |
| MuxLinks | dial and read loops, heartbeat, sweep, the passing of time |
| FedStreams | read loops and handlers; *strongly* fair is only the dial: a request made with the link down disables it for a moment, again and again |
| ActionRun | the run: its script has a time limit, requests to the origin give up |
| Power | bring-up, first reads, polls, commands (a limit kills them) |
| ClientSession | both loops, a reachable server's answers, the client's own time limits; and the server is reachable again |
| WebConsole | scheduled broadcasts, handlers, the stop; pages reconnect and their requests are answered |
| ListenerSessions | handlers, disconnects under way, the reload's steps |

## 4. Findings

Three runs each violate one property, stated from a sentence of the repository that
`PROJECT.json` quotes:

- `lost_key`: over SSH `readexactly(2)` raises when the network delivers one byte; the
  `e` command drops that key, and the next is taken for something else.
- `lost_users`: a failed reload leaves the copy in memory without users, because
  `load_config` assigns before it validates; a form opened then and saved empties the
  intact authentication.yaml.
- `respawn`: "A successful spawn starts a fresh monitor", but flags are looked at before the
  spawn's await and set after it: an arrival and an Enter start two processes, and the second
  is not watched (`EverySpawnIsWatched`). The CommandPort itself, given a process, does so.

The following were seen while modelling. Those with a name in parentheses are stated as
definitions of their module: TLC violates them when they are added to a configuration of
that module, or of the MC module that holds it.

Access and listeners

- `stop()` while a CONNECT waits in its presence broadcast tears down a session with no
  port recorded yet; the CONNECT then seats a session that is gone (`NoOrphanSeat`).
- A driver who asks to take the slot from a named holder who is not there is told it is
  read-only, though it drives (`NoMutedDriver`).
- A slot filled by a third client during a takeover's sends: the victim is demoted without
  the notice a takeover gives. `demote_client_to_read_only` answers NOT_ATTACHED with
  mode read-write.
- A connection in its login phase survives the removal of its listener and attaches
  afterwards. The mode shown may stay read-write when a demotion precedes the grant's
  answer. `Ctrl+E Ctrl+E c` does not open the menu.
- A challenge is kept per user name, so two logins of one user replace each other's; the
  counting window starts anew with a failure after it has passed, so that more than the
  threshold may fall "within `window_seconds`" (CHANGELOG.md:107-111); Telnet's
  password prompt is not checked against the lock again.

Federation

- A request "Returns the resulting mode the origin reports" (muxcon.py:8563), but an ack names
  no request: a late answer, or a demotion, answers the next one (`AnswerIsTheOrigins`).
- A grant that arrives after the 3 s timeout is ignored; the origin holds the slot for a
  client that was told it is read-only (`NoLeakedSlot`). On a federated port with capacity
  "multiple" a take still demotes a holder.
- Two peers watching one port take turns at its one `data_queue` (`EveryRelayGetsAll`); a
  stream closed while its pump still sends the seed leaves its hold behind
  (`HoldsReleased`); the shared queue also fills for local clients, so that a relay sends
  its seed and then up to 100 old chunks.
- `expected` is stored after the write to the port: a second path's read loop delivers the
  same frame meanwhile (`KeystrokesOnce`). What is sent to a restarted neighbour before its
  first DATA frame counts against the numbering the resync then resets (`NoSilentLoss`). A
  cancelled send leaves a gap; a delivery suspended across a resync stores its old counter.
- The regrant after an outage is awaited in the read loop that would read its answer: it
  times out, the writer is demoted, the origin keeps the slot (`RecordsAgree`). Each further
  port waits 3 s more. Both ends of a link number streams from 1 in one space (`OneMeaning`).
  A CLOSE lost with its path is never sent again; a proxy is reused by its name alone.
- Removing an initiator whose session is up hangs the reconcile: the read loop swallows the
  cancellation (`RemovalEnds`). The heartbeat never counts a miss; the failover falls back to
  any stale candidate and flaps; an ack does not refresh `last_rx`.
- Viewer counts of the far side are not sent again after a reconnect (`NoGhostViewer`) and
  two peers overwrite each other's; a late POWER:RESULT answers the next request; an
  advertisement over the slower path overwrites newer states.

Devices

- An idle stop cancels the task it runs in, so a child on pipes is forgotten before it is
  signalled, though "A live child is always terminated and reaped" (command.py:1077;
  `StopReaps`). A respawn that failed on a terminal and on pipes leaves a writer that ignores
  the Enter that is to respawn (`EnterIsHeard`).
- "The first arriving user triggers the outbound connection" (tcp_initiator.py:382), but an
  idle disconnect that is cancelled while it waits for the manager takes that for the
  manager's end, goes on, and leaves the user without link and manager (`NoUserStranded`).
  Like the two above, this was also seen on the port classes themselves.
- command.py: overlapping spawns, a spawn that comes back while the monitor drains or under a
  stop, and an idle stop that cancels itself leave a child without a keeper; these are the
  `races` of CommandPort. An attempt on a terminal that fails after `openpty` leaves both
  descriptors open and turns the port to pipes until the server is started again.
- serial.py: after `_mark_disconnected` the close does nothing, and DTR stays as it was
  (`LineFollowsClients`).

Server and configuration

- A gap stays recorded after its edit is taken back (`GapsAreReal`). Reloads are not
  serialised; a failed full reload leaves the old console alive outside
  `unified_adapters`; a sign-in while the console's replacement is put off is lost.
- A save answered "not saved" may have been written (`NotSavedMeansUnwritten`); files are
  truncated in place although config_manager.py:17 says "atomically", and a retry overwrites
  the good .bak; a bad security.yaml makes the editor's locks empty although the server keeps
  the last good policy.
- A Stop is to be "exactly like any other run outcome" (runner.py:294), but one that strikes
  before the script begins leaves the ended run "running" (`StopIsAnOutcome`).
- A second Stop during the restore keeps the port's slot for actions for good: this is the
  case `PortOpensAgain` excepts, and only after a first Stop that left the run "running" can it
  be pressed. The restore's notice is sent even where the promotion failed; a viewer who
  joins during the `finally` hears of no end.
- A PDU whose poll task ended or never began is not polled (`EveryPduIsPolled`).
- data_logger.py: `close()` discards queued events and partial lines; both directions share a
  line buffer; a run's last unterminated line does not reach its transcript.
- "A dropped nudge delays a refresh but never strands a page" (web_console.py:3277), but a
  sidebar does not fetch when its socket opens for the first time (`NoPageStranded`).
- Sockets opened during the stop hold it for aiohttp's 60 s; a GRANTED answer may
  follow the DEMOTED notice that undid it.

Client

- Reconnect's login reads while the read loop does (`SoleReader`, console.py:295-298); a
  power menu open when the link drops ends the read loop; a late "detached" leaves the client
  in port mode; a failed re-attach leaves `is_connected`; key sessions never reconnect; a
  manual `o` on a live connection writes its login into the port.

## 5. Proofs

All theorems hold for any sets and numbers the ASSUMEs allow, and use nothing else; the
ASSUMEs name what the code guarantees (finite sets of clients, a queue of at least one
chunk). Each safety property that is not inductive is proved from a stronger invariant;
why it is needed:

WriteSlotProofs. `IndInv` is the types plus `SessionsConsistent`: a session on its way in
or out has the seat its next step expects, and a takeover is under way on a one-writer port
only. The first part makes a CONNECT the join of an absent seat, the second is what
`TakeoverKeepsADriver` needs: on a one-writer port a promotion that fails finds another
driver or room to put the victim back. `ImplementsSeats` maps each step to a step of
PortSeats or a stutter; `SlotStaysWithinCapacity` follows from that and from PortSeats' own
`SeatsStayWithinCapacity`. `TakeoverKeepsADriver` and `OnlyEntitledStartToDrive` are action
properties from the same invariant. `OrphansNeedAStop`: without a stop that races a CONNECT,
`NoOrphanSeat` holds.

FedSlotProofs. `FuturesStayConsistent`: a handler waits if and only if its future is
registered. `ImplementsSeats`: whatever peers, timeouts and local clients do, the origin's
seats follow PortSeats. `MirrorsFollowTheirStreams` proves `NoOrphanMirror`, which speaks of
an empty path only; its invariant `MirrorFollows` speaks of the frames under way: the last
OPEN or CLOSE of a stream, or the mirror where there is none, agrees with the viewer's
record. `OwnPaths` (a stream's frames travel on its own peer's path) makes the order of
frames mean something.

PeerSeqProofs. `OutputInOrder` proves `InOrderOnce`: a receiver that has not restarted hands
on its peer's payloads in the order they were made and none twice. `NothingAckedTooEarly`
proves `AckedMeansTaken`: what is acknowledged is delivered, held or given up at the other end.
Neither is inductive: a duplicate is recognised by its number alone, so two frames with one
number have to be the same frame. The invariant `Sequenced` says when each connection was
dialled and in which lives of its ends (`DialledInTurn`); which payload the number of every
frame on a wire or in a send buffer names, a peer that has not restarted being never resynced
(`Numbered`); which life of the sender the receiver counts in, and that what it holds is of
that life (`Receiving`); that what is to come lies ahead of all that was given (`Ordered`); and
that every frame below a counter or an ack was taken (`Accounted`). `NumbersFitTogether` and
`DialsInTurn` state the invariant and its first part.

PartsProofs, the output of a port. `QueuesStayBounded` is the type invariant with all sizes.
`StreamsKeepOnePump` adds that a pump that is not off has a stream: then a cancelled pump is
not the registered one and its cleanup leaves the registry alone. `HoldsAreCounted` compares
the holds with the pumps that took one. `NewestOutputKept` and `OutputLossIsCounted` need
what a push does to a queue: the new chunk is in, only the head can be out, and the order
stays; the latter also that nothing is queued or read before it is made (`Seen`).
`RelaysStrandNothing` rests on `HoldsCoverPumps`: while a pump runs the holds are at least
one, so the shared queue is fed, and when another ends they were at least two, so it is not
cleared.

PartsProofs, the logs. `LogsStayFaithful` needs the queue besides the files: the pieces a
log has waiting rise through the whole queue (`QueueRises`) and lie behind all that the log
holds in any directory (`LogsRise`), so the writer may append without looking; and a run's
copies are queued behind those of the runs before it, because the mirror is always the
latest run's (`MirrorIsLatest`).

PartsProofs, the keys. `EveryKeyIsTakenOnce` follows from `Flow`: what was taken, the
payload under way, the keys the escape state has seen, the chunk and the wire, one behind the
other, are what was typed. `SeenFits` says which keys each escape state stands for (none, the
sequence, or a part of the new one), which a step that gives them up as payload or takes them
for a command has to know.

PartsProofs, the news. `NewsReachesBothEnds`: while the proxy does not show the outlet as it
is, every path that is up brings the newest state, in the advertisement it started with, in
a frame or in a broadcast still to be written (`StateOnItsWay`); of the count of viewers some
path brings it (`CountOnItsWay`). That is inductive only because nothing on a path is newer
than its origin (`NotBeforehand`), so that what is taken and is not the newest was either
overtaken or leaves the newest behind, and because a path's advertisement comes first
(`ListFirst`), so that no state is dropped for want of a proxy.

PartsProofs, a command port. `ChildrenHaveKeepers`: without one of the `races` a spawn that
none has overtaken finds no living child, no open master and none recorded, whatever attempts
failed before it (`Fresh`), so the child that is born is the only one alive and gets the new
monitor; a stop under way finds no monitor, and one that has sent its signal finds nothing
alive (`Stopped`), so what it forgets is dead. That a running port has a monitor or a stop at
work (`Tended`) needs neither and holds in every interleaving.

DevicesProofs. `OnePortTendsADevice`: of the listed ports of one device the first has a
supervisor, is about to be stopped or gave up, and those behind it are idle with a reason
recorded, whatever is destroyed in front of them (`SerialInv`); the reason is what has the
next of them resumed. The list names no port twice (`Order`). `WantedPortsAreTended`:
a user who finds the port connected starts no manager, so the manager of a connected port
must be there already (`Tended`), and nothing that could cancel it exists without idle
disconnect (`NoIdleTask`). `EveryLinkKeepsItsPromise` is the refinement of DeviceLink by both
adapters at once: a step of either moves only the phase and the link of its own ports, in the
ways `Allowed` lists, for which `stop()` of the TCP port has to have no manager left when it
reads and closes (`StopOrder`). `LastFeedIsTold` is an action property; it needs to know that
a step of the section belongs to a start or a reload (`Staged`).

ServicesProofs, the actions. `SlotIsGivenBack` is an action property: of the state before, it
needs that one run is at work and that a run's own client is on the port only while it may
hold the slot (`OneRun`), so that the slot a run gives up is the run's.

ServicesProofs, the server. `ServerRunsTheFile` proves `RunsWhatIsAsked`, `BrowsersAreKept`
proves `BrowsersStaySigned`. Both properties speak of a server at rest, so the invariant,
`ReloadInv`, says what an operation owes at each of its stages. Without an overlap one operation
is in progress (`Alone`), every object that is up is in the one dictionary that is not empty
(`Books`), and each name is as the file asks, or on the list of what the operation has yet to
stop or to make, or the port it is at (`OnWay`). While a name is on the list to be made, what
runs under it is on the list to be stopped: a port is never started over a running one, and a
stop takes out of the dictionary the object it stopped. For the browser: up to the stop of the
consoles its console is the only one up; from then on the operation carries its session, and the
next console has it before it starts and finds the address free (`Signed`). `Limit` keeps that
second part, not the first, which is why only the first excludes it.

PartsProofs, the links. `GenerationsDoNotMix`: no connection was greeted by an instance
later than the peer's present one (`NoneFromTheFuture`), so a newcomer is never older than
what it finds, and `_retire_old_generation` only has to look back.

FedStreamsProofs. `StreamsAreRemembered` proves `RemembersStreams`, `SeatsFollow` proves
`SeatsFollowStreams`; one invariant, `Inv`, carries both. Of all paths only the latest can be
alive, and the server that dials has no other (`PathsFit`): so what one server forgets and what
is on a wire belong to the same outage. A proxy that is up has sessions, one that is down has
stale numbers, never both (`BooksFit`), which is why the reuse of a proxy that closes both kinds
closes everything. Since an OPEN on its way will make a mapping, its number has to be known too
unless a CLOSE is behind it (`OpensKnown`). For the seats the difficulty is that numbers start
over after a restart, so that a new stream may have the number of an old seat with the write
slot. `NumbersFresh`: on a live path nothing is under way for a number not given out yet;
`Renewed`: a seat with the slot stands for a user who asked, or the advertisement, the
registration or the OPEN that will put it back to read-only is still to come.

SessionsProofs. `SavesKeepWhatTheyDoNotShow` is an action property; of the state before a
save it needs that the files are records (`Records`), the rest is the argument of one save.
`LastFrameIsFresh`: a subscriber that has not seen the ports as they are will be shown them
by a timer, by a task that reads them late or by a broadcast that still has it to write to
(`Fresh` with `Coming`), or has been overtaken.

The assumptions beyond those of the modules: ports have other names than the TCP port and
tries are counted in numbers (`DevicesAssumption`); the queue's size and the number of runs
are numbers (`PartsAssumption`); the same for the bound on changes (`SessionsAssumption`) and
on objects and adapters, of which there is one at least (`ReloadAssumption`); and clients are
told from runs and from "none" (`ServicesAssumption`).

Only model-checked: every liveness property, and one invariant, SignIn's `GuessesAreFew`, whose
bound counts the locks of doubling length that fit a window, for which the provers have no
arithmetic. Liveness under fairness and ENABLED are out of the prover's
reach.

## 6. What comes next

1. The catalogue's loop prevention over three servers.
2. ServerReload: what still holds when two operations overlap.

## 7. Not modelled

- `openmuxctl`: one request over a socket and the printing of its answer; no state.
- The loopback port: no state beside the port's.
- CommandPort: `restart(force=True)`, an idle timer armed again before a cancelled one has
  ended, and the moment between the arrival of a client and the first step of the start it
  schedules.
- Bytes already handed to a device when their sender is demoted (`port_manager.py` 1091), and
  a port registered again under clients (1441).
- MuxCon: fault injection and freezing (for tests), TLS, bandwidth counters, loop
  prevention by server chain, web proxying, the wrap of a number at 2^63, an ack between a
  frame's write and its record (it leads to one more retransmission, which is dropped).
  FedNews keeps each path in order, as TCP does.
- Logging: the JSON format with its direction filter, the server's own log. Configuration:
  schemas (sequential checks of data), .bak files. Authentication: hashes and key formats.
- Server: signals, pid files. Reload abstracts a port's creation and destruction to one step
  that may hang or fail.
- Web: pages and requests that only read, plugins' rendering. Client: rendering, the command
  parser, the WebSocket adapter, manual reconnects in the other modes.
- Drivers of PDUs that are not in the repository; line settings and modem lines but DTR.
- Wordings, formats and log messages everywhere.

## 8. Running it

    tlc -config WriteSlot.cfg MCWriteSlot
    tlapm WriteSlotProofs.tla

and so on; `PROJECT.json` pairs modules and configurations. Each run takes a few minutes
at most with two workers, most proof modules a minute or two, PeerSeqProofs, PartsProofs
and FedStreamsProofs several.
