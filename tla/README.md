# A TLA+ model of the Elegoo printer integration for Home Assistant

This directory specifies the concurrent core of `custom_components/elegoo_printer`, the
Home Assistant integration for Elegoo 3D printers.  Paths below are relative to
`src/custom_components/elegoo_printer/`.

## 1. The system

Home Assistant runs the integration in one process, on one asyncio event loop.  A config
entry is one printer.  Each entry has a coordinator, an API object, and one of three
transport clients; two servers are shared by all entries.

| Component | State it keeps | Operations | Talks to |
|---|---|---|---|
| CC2 client, requests (`cc2/client.py`) | `_request_counter`, `_response_events`, `_response_data` | `_send_command`, `_handle_response`, release in `disconnect` | the printer's MQTT broker, every service call |
| CC2 client, connection (`cc2/client.py`) | `mqtt_client`, `_is_connected`, `_is_registered`, `_connection_generation`, listener, heartbeat and delay tasks | `connect_printer`, `disconnect`, `_mqtt_listener`, `_heartbeat_loop`, `_delayed_disconnect` | coordinator (reconnect), entry unload |
| CC2 client, status (`cc2/client.py`) | `_cached_status`, `_status_sequence`, `_non_continuous_count`, the transition queue | `_handle_full_status`, `_handle_delta_status`, `_request_full_status`, consume | printer events, coordinator replay |
| CC2 client, job files (`cc2/client.py`, `cc2/gcode_proxy.py`, `upload.py`) | current job, file details, thumbnails, proxy filament, `upload_lock` | `_update_current_job`, `_request_file_detail`, `upload_gcode`, `print_start` | printer commands, G-code proxy |
| CC2 mapping and discovery (`cc2/models.py`, `cc2/discovery.py`, `cc2/types.py`, `cc2/const.py`) | none | `map_status`, `map_attributes`, discovery datagrams | clients, config flow |
| SDCP clients (`sdcp/transport/base.py`, `websocket/client.py`, `mqtt/client.py`) | request events, response data, `_is_connected`, listener | `_send_printer_cmd`, `disconnect`, `_listen` | WebSocket or MQTT printers, directly or through a shared server |
| MQTT broker (`mqtt/server.py`) | singleton and reference count, sessions, subscriptions, packet ids | `get_instance`, `release_instance`, CONNECT, PUBLISH, SUBSCRIBE | MQTT printers and clients |
| Proxy server (`websocket/server/`) | singleton and reference count, printer registry, per-printer connections | `async_create`, `release_reference`, `remove_printer_from_server`, routing | WebSocket printers and remote viewers |
| API (`api.py`) | client, server, broker, host and port | `async_create`, `reconnect`, `elegoo_disconnect` | coordinator, config flow |
| Coordinator (`coordinator.py`) | `data`, `online`, intervals | `_async_update_data`, replay of transitions | Home Assistant entities |
| Entry life cycle (`__init__.py`) | entry version, runtime data | setup, unload, migrate, services | Home Assistant |
| Cameras (`camera.py`) | viewer counts, stream state, watchdog | open and close of streams | printer video commands, proxy |
| Entities (`sensor.py`, `light.py`, ...) | values shown | read coordinator data, send commands | Home Assistant |
| Config flow (`config_flow.py`) | the form's answers | discover, validate, connect once | clients |

How they interact: a poll of the coordinator (every 2 s, every 30 s when offline) reads
what the client's listener has cached; a failed poll calls `api.reconnect()`, which calls
`connect_printer()`.  The listener, the heartbeat, the coordinator, service calls, camera
handlers and entry unload are separate tasks that share the client's attributes with
almost no locking: what keeps them apart is that Python code between two `await`s is not
interrupted.

### What is hard, and what makes each component correct

Nothing here runs in parallel; everything is interleaved at `await`s, and most state is
written on both sides of one.  Beyond that, printers answer late, twice or never,
connections break in the middle of a handshake, and an entry can be unloaded at any
moment.

- **CC2 requests.**  The listener stores answers, the callers pick them up, `disconnect()`
  clears both tables.  Correct if each call gets its own answer or a failure, wakes up when
  there is something to wake up for, always returns, and leaves nothing in the tables.
- **CC2 connection.**  `connect_printer()`, the cleanup a failing heartbeat starts, and the
  unload of the entry may all be inside `disconnect()` together.  Correct if what
  `is_connected` reports is one attempt's complete connection, a silent printer is noticed,
  an old attempt's tasks never take down a new connection, and nobody hangs.
- **CC2 print status.**  Correct if the merged cache is the printer's status as long as no
  frame was lost, and Home Assistant sees the print statuses in their true order.
- **Camera.**  Correct if the counters count the viewers, a stream nobody watches is
  switched off whatever failed on the way, and a viewer keeps its stream.
- **MQTT broker.**  Correct if subscribers agree on the order of publications and miss
  none after their SUBACK, a publication is forwarded whatever other clients do, and a
  connection that has ended is forgotten.
- **MQTT framing.**  Correct if the broker processes the packets that were sent, however TCP
  splits them over reads, and if what it writes can be read.
- **Shared servers** (proxy and broker instances).  Correct if the server runs while some
  entry uses it, through failed starts, reconnects and unloads, and nobody waits for a lock
  for ever.
- **Proxy routing.**  Correct if requests and messages reach the printer they name, while
  printers come and go, and a script that is rewritten on its way arrives whole.
- **SDCP clients.**  As the CC2 requests; without the generation counter, and with a
  release that reports success.  What is shown of a print job must be that job's.
- **Job files and uploads.**  Correct if what is printed is the file that was uploaded, what
  is cached belongs to the job, and every call ends and cleans up.
- **Entry life cycle and config flow.**  Correct if a printer has one entry, the loaded entry
  runs as it is configured, and a migration that fails half-way loses nothing.

## 2. Plan

| Order | Module | Models | State |
|---|---|---|---|
| 1 | `CommandReply` | abstract: what a caller of a printer command is promised | done |
| 2 | `CC2Requests` | the request table; implements `CommandReply` | done, proved |
| 3 | `CC2Connection` | connection life cycle and its tasks | done, proved |
| 4 | `CC2Status` | status frames, cache, transition queue, replay | done, proved |
| 5 | `CameraStream` | reference-counted video stream | done, proved |
| 6 | `MqttBroker` | sessions, subscriptions, forwarding | done, proved |
| 7 | `SharedResource`, `SharedServers` | abstract counted resource; proxy and broker instances, entry setup, reconnect and unload | done, proved |
| 8 | `ProxyRouting` | HTTP routing and rewriting, WebSocket sessions, discovery | done, proved |
| 9 | `EntryConfig` | config and options flow, migration, `update_ip`, reloads | done, proved |
| 10 | `CC2JobFiles` | uploads and starts, current job, background fetches | done, proved |
| 11 | `SdcpClient` | commands, connection and filament data of the WebSocket and MQTT clients; implements `CommandReply` | done, proved |
| 12 | `MqttFraming` | length codec and packet split of the broker | done, proved |
| 13 | `CC2Session` | composes 2 and 3: requests across the attempts of a connection | open |
| 14 | `Polling` | the coordinator's intervals, canvas and file list refresh | open |

## 3. The modules and the code

In every module an action is the code one task runs between two suspension points; the
comment above a definition says where it departs from the name of the function, and `map` in
`PROJECT.json` gives the lines.  Definitions marked *Mutant* are plausible mistakes; no
specification uses them, and they serve to show that the property they belong to can fail.

**`CommandReply`** (a call is issued; the printer answers any number of times; the call
completes once, with one of its own answers or with a failure) is the contract behind
`_send_command` in `cc2/client.py`.

**`CC2Requests`.**  `registry`, `data` and `signalled` are `_response_events`,
`_response_data` and the events; `session` is what the listener and `disconnect()` do to the
connection.  `Start`, `Published`, `PublishFails`, `Resume` and `Timeout` are the stages of
`_send_command`; `Leave` is its `finally`.  Messages in flight are a set, so they may be
delayed and reordered, and a set of answered codes lets the printer answer again.  What is
left out: PINGs and events, which carry no request id.

**`CC2Connection`.**  Attempts are numbered, and the object references of the client are
attempt numbers.  Three tasks (`connector`, `cleanup`, `owner`) may be inside `disconnect()`
at once; `pc` and `awaiting` say where each is suspended.  Steps that the code takes without
suspending go through `Continues`.  asyncio resumes tasks in the order in which they became
ready; `Runs` and `passed` keep a task from running again while another that was ready
before has not run.  This matters: without it, an answer could for instance be handled any number
of times before a cancelled task sees its cancellation.  `publishing` holds the publishes under
way, each with the client it was given to: a PING is the heartbeat's own (`HeartbeatPings`,
`PingSent`, `GiveUp`), a command is anybody's (`CommandStarts`, `CommandsSent`, `CommandFails`),
and its client may have been replaced when it fails.

**`CC2Status`.**  The printer's true status is kept beside the client's cache; frames travel
over one ordered connection and may be lost.  The status is one nested group of two fields,
which is what a deep merge and a shallow one tell apart.  Every status result carries its
number.  (The protocol document, `src/docs/CC2_PROTOCOL.md` 1155-1192, shows the number in the
envelope's `id` instead; were it only there, line 835 of `cc2/client.py` would read 0 each
time, and the full status would be requested at every fifth delta.)

**`CameraStream`.**  Commands reach the printer in order, `ready` is the event loop's queue of
tasks whose command is over, and `Troubles` says what may go wrong: the printer refuses a
command, a command is lost, it is obeyed after the client's timeout, the link breaks, a
request is cancelled.  `set_printer_video_stream` returns normally whatever the reply says and
also when a disconnect releases it; so does the model.

**`MqttBroker`.**  One handler per connection; `lock` is the holder of `subscriptions_lock`
and those who wait, in order.  After each write the handler waits in `drain()` if that peer
was slow, until what is buffered has gone out or the connection has ended.  A connection that is reset
may lose what the handler has not read; an exception ends the handler at once, as in
`handle_client`.  Two connections may use the same client id, as a printer does that connects
again before its old connection is noticed to be gone.

**`MqttFraming`.**  One client's bytes on their way through `_handle_client_inner`: what
arrives is appended to `data`, and the loop takes packets from it.  The base of the length
code is a constant, so that lengths of several digits stay short; the code's base is 128.
`_encode_length`, `_decode_length` and `_send_msg` are operators over sequences of bytes, and
`Stream` is the reference: the bytes the standard makes of a sequence of packets, with the
shortest `LengthField` of each.  That they can be read in one way only is a theorem.

**`SharedServers`.**  Each entry has a call of its life (setup or unload) and one of its poll
(reconnect); `todo` is the list of awaits left of a call, and an early return drops the rest.
`ElegooPrinterServer` and `ElegooMQTTBroker` are records of a count, a state and the holder of
the lock; `registry` is the proxy's printer registry.  `blame` records steps after which the
proxy may be gone under an entry: a reference released for somebody else (`foreign`), a port
that was taken (`port`), and an exception that skipped a release (`escape`).
`SharedResource` is what the broker promises: it runs while it is used.

**`ProxyRouting`.**  An HTTP exchange is routed (`Target`), its path cleaned (`Cleaned`),
forwarded to one of the printer's two ports, and its body streamed; `Rewrite` is one turn of
the loop that rewrites scripts in halves of two chunks.  A WebSocket session has a task per
printer and one for the client, and ends with the first of them.  A path is a sequence of
segments.  A script is a sequence of symbols: `p q r` is the printer's address and `z` the
proxy's, `u v w` a URL without an id and `u v i` one with it, so that chunks and halves may cut
both.  `split` records that what was written ended inside one of them whose end had not come
yet.  `Clashing` names the printers with whose address the proxy's begins; for those,
what is kept back is replaced once more at each chunk.  `Target` lists
the ids in the order in which the code looks at them and takes the first registered one;
`Continued` is `str.replace` for addresses, symbol by symbol.  `Cleaned`, `ForwardPort` and the
answers to discovery are there so that the handlers are whole; no property depends on their
detail.

**`Subsequences`** holds `Only`, what is left of a sequence when some of its elements are kept;
`MqttBroker` and `ProxyRouting` use it.  It is a recursive function, which the proof system
can reason about, as it cannot about `SelectSeq`.

**`EntryConfig`.**  Data and options of one entry per printer, who writes them (flows, options
flow, `update_ip`, `_update_config_entry_if_needed`), the reloads that read them, and
the migration with its walk over the entity registry.  What Home Assistant does with a
unique id, a listener and a reload is taken from how the code uses it and marked external.

**`CC2JobFiles`.**  A file is the sequence of the writers of its ranges.  Calls of `upload_gcode`
take the lock of the client they were given; a reload makes a new client with a lock of its own.
`info` is what the client caches about the file of the job and shows of it: details, thumbnail,
and the data of the gcode proxy, which stand for the job they were asked for. `flight` is the
background requests to the printer, and an answer is about the content the file had when the
printer read it.  The gcode proxy is asked again at each update as long as there are no data;
`overtaken` is the earlier jobs for which such a request may still be under way.  The `finally` of
an upload is two steps (`CloseChunks`, `RemoveCopy`), as it has two awaits; `Starting` names the
uploads that start their file.  All files have one name, which is the case the caches have to get
right.

**`SdcpClient`.**  One module for the WebSocket and the MQTT client, which share
`sdcp/transport/base.py`; `wire` says which one it is.  `cmd` is each sender's command,
`frames` what is on its way to and from the printer, `waking` the background tasks that the
WebSocket client starts to set an event.  The poll and the unload of the entry send commands
of their own (the MQTT handshake and farewell) and may overlap.  `Shut` is the rest of
`disconnect()`, from the cancellation of the listener on, as one step: the awaits in it
(`base.py` 138-157: the end of the listener, the response lock, the close of the transport)
are not interleaved with other tasks.  `filament` is the data
fetched from the G-code proxy for one job and shown for another.

## 4. What the runs show

| Run | Question | Bounds |
|---|---|---|
| `request_table` | `OwnAnswer`, `NoResidue`, `NoLostWakeup`, the refinement of `CommandReply`, `EveryCallReturns` | 3 calls, ids 1 to 3, one code |
| `connection` | `Supervised`, `HealthyConnectionKept`, `SilenceNoticed`, `EveryTaskReturns` | 2 attempts, the entry has its own access code |
| `status` | `CacheIsSnapshot`, `HistoryFaithful` | 4 events, gap limit 2, queue of 2 |
| `camera` | `CountsViewers`, `NoOrphanStream`, `IdleStreamSwitchedOff` | 2 viewers, any one fault or two lost commands |
| `broker` | `SubscribersSeeTheLog`, `EveryPublicationForwarded` | 3 connections, 2 publications |
| `framing` | `PacketsAreWhole`, `PeersCanRead`, `AllIsTaken` | base 2, contents of up to 7 bytes, reads of up to 6, 2 packets |
| `shared_servers` | `ProxyServes`, the refinement of `SharedResource`, `CallsReturn` | 2 entries, 5 calls |
| `proxy_routing` | `NamedPrinterIsServed`, `ScriptArrives`, `SessionRouting`, `SessionEnds` | 2 printers, one of them clashing, 8 paths, 2 scripts of 9 and 11 symbols in chunks of any size, 2 messages |
| `entry_config` | `OneEntryPerPrinter`, `RunsAsConfigured`, `EntitiesKeepTheirHistory` | 1 printer, 3 addresses, 2 flows, 2 entities, 2 changes, 1 move |
| `entry_config_update_ip` | violated: `UpdateIpConnectsThere` | as `entry_config` |
| `job_files` | `PrintsOwnFile`, `JobShowsItsFile`, `UploadsReturn` | 2 uploads of 2 ranges, one with a start, 1 reload, 2 jobs |
| `sdcp` | `ConnectedIsHeard`, `AnswerIsStored`, `NobodyWaitsUnheard`, the refinement of `CommandReply`, `CommandsReturn`, `StaleFilamentGoes` | 2 callers, 2 jobs; polls and losses unbounded |

The type invariant is a theorem for `CC2Requests` and `SdcpClient`, and elsewhere a conjunct of
one invariant of each run that passes (and proved with it, see section 6).
`Supervised` also says that no two listeners receive (`OneListener`),
`JobShowsItsFile` that nothing is fetched from the printer twice at a time (`OneFetchAtATime`), and
`PacketsAreWhole` where alone the handler fails (`FailsAtZeroDigits`).

Why these bounds are enough to be interesting.  With three calls one can time out, one be
released and a third one take the next id while the answer to the first is on its way.  Two
attempts let a connection be replaced while its predecessor is still being torn down by the
heartbeat, the owner, or both.  Four events over a queue and a gap limit of two overflow the
queue and cross the limit.  Two viewers let one enter while the other one's command is under
way; two lost commands make a switch-off and its retry fail.  Two publications are the least
number with an order, and three connections give them a subscriber that neither of them is.
In base 2 contents of up to 7 bytes, with their two bytes of topic length or id, have length
fields of one to four digits, the most the standard allows; a read of 6 covers more than one
packet.  With two entries one is set up, reconnected or unloaded while the other is in the
middle of a call, and five calls let each of them do so twice.  Two printers that come and go
tell a named printer from the others and from the oldest one; the scripts have addresses and
URLs in every position relative to the ends of chunks and halves, and beginnings of both that
are none.  Two flows are what collides over one
printer; three addresses tell the data's, the options' and the printer's apart.  Two uploads
of two ranges interleave in all ways that a lock has to exclude, and a second job under the
same name makes the caches stale.

Each bound is a constant of its module and appears in a guard.  `StopAfter` keeps the broker
from stopping before anything was published, `Troubled` names the connections that may be
slow, end or be reset, `Troubles` what may go wrong in a behaviour of `CameraStream`.
`CHECK_DEADLOCK FALSE` is set everywhere because behaviours end when the bounded supply of
calls, attempts, events or connections is used up.

### What was found

1. `entry_config_update_ip`: the docstring of the service `update_ip` (`__init__.py` 98-100)
   says that it reconnects the entry at the new address.  It writes the data; once the options
   flow was saved, the options hold an address as well, and every set-up lets them win.

Met while modelling.  The models do what the code does in these cases, and the properties say where
they hold:

2. `mqtt/server.py` 248-258 and 446-461: `_decode_length` takes the digits it has got for the
   whole length field.  When a read ends inside the length field of a packet whose length is a
   multiple of 128, the zero digits read so far look like an empty packet; parsing it
   raises, and the handler ends without closing the connection or unsubscribing it.
   `FailsAtZeroDigits` says that this is the only way the handler fails.
3. `cc2/client.py` 670-690: the docstring of `_delayed_disconnect` says that a reconnect during
   the delay keeps the queued transitions; `connect_printer()` begins with `disconnect()`,
   and what it starts clears them.
4. `cc2/client.py` 483: `disconnect()` closes one aiomqtt client and afterwards sets
   `mqtt_client = None`, though a reconnect may have put another one there.
5. `camera.py` 203: a viewer that arrives during the last viewer's switch-off sees
   `_stream_enabled` still true, does not switch the video on, and loses it.  A refused
   switch-off is taken for a success, and a switch-on that is obeyed after the client gave up
   leaves an orphan: `NoOrphanStream` is about lost commands.  `CountsViewers` fails when a
   request is cancelled inside `open_camera`.
6. `mqtt/server.py` 353 and 372: a handler that ends with an exception skips the code that
   unsubscribes it.
7. `__init__.py` 546: the unload of an entry that holds no proxy reference releases one all
   the same when other printers are registered; `proxy.py` 137: an instance that could not bind
   its ports is joined by the next entry.  `ProxyServes` excludes both through `blame`.
8. `proxy.py` 1186-1199 and 1243: a script that comes in one chunk is not rewritten, and URLs are
   not once the text in hand names the printer's id.  An address or URL that a chunk cuts and
   that begins before the middle of the text in hand is written as it is.  If the proxy's own
   address begins with the printer's (192.168.1.10 and 192.168.1.1), what is kept back is
   replaced again at each chunk, and addresses grow.  `ScriptArrives` says what remains true.
9. `proxy.py` 846: one printer that closes ends a session with several.
10. `cc2/client.py` 1369: a publish that fails clears `_is_connected`, also when it was given to a
    client that a reconnect has replaced meanwhile; the new connection, which is healthy, is
    then given up at the next poll.  `HealthyConnectionKept` allows this one cause.
11. `cc2/client.py` 965-975 and 1063-1072: data of the gcode proxy are stored whatever job is
    current by then.  Those of an earlier job that come late are shown for the next one until
    it ends, since the proxy is asked only while there are none.  `JobShowsItsFile` allows those,
    and no others.
12. `__init__.py` 538-546: the unload that removes the last printer from the proxy neither
    releases its reference nor stops the server: the instance stays, with its ports and a count
    that no release will bring to zero.
13. `cc2/client.py` 1482: `start_print` and the button take no `upload_lock`, and a reload
    makes a new lock, so that `PrintsOwnFile` is about the uploads of the first client.

## 5. Fairness

asyncio runs every task that is ready, so each step of a task has weak fairness.  An await
counts as ending only where the code or a library bounds it: `wait_for` around answers and
registration, the timeouts of aiomqtt around connect, publish and close and those of aiohttp
around a request, `sleep` in the heartbeat, the delay and the watchdog.  Nothing obliges a
printer to answer, a network to break or deliver, a viewer to leave or anybody to connect.
Four assumptions are about the other side, because the code has no timeout of its own there:
in `MqttBroker` a slow peer catches up or its connection ends (TCP's own timeouts), since
`drain()` under the lock is unbounded; in `MqttFraming` what was sent arrives; in `CameraStream` a
command that was delivered is answered or times out; in `SdcpClient` a connected printer goes
on reporting its status, on which `StaleFilamentGoes` depends.  `IdleStreamSwitchedOff` allows
a bounded number of failures: with a printer that refuses for ever it is false, and rightly so.

## 6. Proofs

`CommandReply_proofs` is about the two modules that implement `CommandReply`.  For
`SdcpClient` it proves, for every set of callers, whatever they ask for, and every number of
jobs:

- `TypeCorrect`, `ConnectedIsHeardTheorem`, `AnswerIsStoredTheorem`,
  `NobodyWaitsUnheardTheorem`: the type invariant and the three invariants of the run `sdcp`;
- `Refinement`: `SdcpClient` implements `CommandReply`.

They rest on `ConstantsAssumption`.  `ConnectedIsHeard` follows from `FlagInv`, because the flag
is lowered wherever the listener ends.  `AnswerIsStored` needs to know where a reply is before
it wakes anybody: a caller has one frame on its way, which is what the printer gave it
(`FramesInv`), and once its event is being set what came is stored (`WokenInv`).  `TypeOK`
says that nothing is under way for a command that is over, and needs `IdleInv` for the command
that the unloading sends.  The actions share four ways to change a command (`Finish`,
`Refused`, `Publish`, `Shut`); each has a lemma on what it does to the record and one that it
preserves `IInv`.

For `CC2Requests` it proves, for every set of calls and codes and every bound on the ids:

- `CC2TypeCorrect`, `CC2OwnAnswerTheorem`, `CC2NoResidueTheorem`, `CC2NoLostWakeupTheorem`: the
  type invariant and the three invariants of the run `request_table`;
- `CC2Refinement`: `CC2Requests` implements `CommandReply`, too.

They rest on `NoCallAssumption` (the value for "nobody" is no call) and `MaxIdAssumption` (the
bound is a natural number) only.  `OwnAnswer` is not inductive: what a call returns was put under
its id by `HandleResponse` some steps earlier, and before that it travelled with that id.
`CC2IInv` follows the answer along this way: ids are handed out once (`CC2IdInv`), what is in
flight carries the id of the call it answers (`CC2InflightInv`), what is registered under an id is
the waiting call with that id (`CC2RegistryInv`), so what is stored there answers that call, which
has been woken (`CC2DataInv`), and a call that lost its registration has been woken, too
(`CC2WokenInv`).  Those actions that complete a call share the lemma `CC2FinishIInv`;
`disconnect()` and the reconnect share `CC2ReleaseIInv`.  The refinement uses the same invariant:
a call completes in `CommandReply` when `Leave` runs, with an answer that `OwnAnswer` shows to be
its own, or with a failure.

`CC2Status_proofs` proves both properties of the run `status` for any number of events,
any gap limit and any length of the queue, from `ConstantsAssumption`.  `CacheIsSnapshot`
speaks of what was merged, so `IInv` adds that every frame on its way tells the truth about
the event whose number it carries, and that the client's `sequence` is the number of the last
event it merged: a delta that continues it turns a right cache into a right cache.  For
`HistoryFaithful`, `HInv` adds that what the listener showed last is what the cache says,
that the expected history ends with it, and that no status in that history follows itself.  A poll
folds the queue into what is recorded and leaves out repetitions; as there are none, it
appends the queue as it is.  That is `RecordAll`, by induction over the length of the queue;
the library's induction theorems cannot be instantiated, so `Induct` states the principle for
a set of numbers and is derived from `NatLessThanWellFounded`.

`CC2Connection_proofs` proves `Supervised` and `HealthyConnectionKept` for any number of attempts,
any length of the queue, with and without an access code, from `ConstantsAssumption`.
`Supervised` only speaks of states in which nobody is inside `disconnect()`; the inductive
invariant has to follow the tasks through it.  `NoStray`: a listener or heartbeat that is
not done is the one its attribute refers to.  `CleanStart`: an attempt begins with the
attributes cleared, and `Budget` that there is a password for it.  `Targets`: what somebody
joins has been cancelled.  `Watched`: outside `disconnect()` the attributes refer to the
client's own tasks.  These parts (`Core`) are not inductive: a task that waits in
`disconnect()` for the listener of an earlier attempt clears `_listener_task` when it resumes,
and if `connect_printer()` had started a new listener by then, nobody would find that one any
more.  `Turn` says why it cannot: what the waiting task joined is done, and the event loop
resumes it before `connect_printer()`, which was made ready after it.  So the proof depends on
the order in which the loop runs tasks that are ready (`passed`): if they could run in any order,
`Supervised` would be false, as TLC shows with three attempts.  `HealthyConnectionKept` is an
action property and follows from the same invariant: outside `disconnect()` a listener or
heartbeat that ends or gives up is either the connection's own, which it does only over a
link that is not open, or finds that it belongs to an earlier attempt.  For the publishes,
`OwnPings` adds that a PING under way was given to the client of its own heartbeat, so only a
command can fail on a client that has been replaced.

`SharedServers_proofs` proves `ProxyServes` and that the broker implements `SharedResource`, for
any finite set of entries and any number of calls, from `ConstantsAssumption`.  `Ways` lists
what may be left of a call for each kind of entry, so that a step is only taken on the way it
belongs to; `BrokerHeld` says from where to where on this way an entry holds the broker.
`BrokerLocked` and `ProxyLocked` say what the holder of a lock is doing, which makes a
singleton that is starting or stopping somebody's.  `BrokerCounted` and `ProxyCounted` bound the
count from below by the number of users: so the count reaches zero only with the last of them.
For the proxy that is true only as long as nobody has released a reference that was not theirs or
joined an instance that failed (`blame`), which the code allows.

`EntryConfig_proofs` proves the three invariants of the run `entry_config` for any number of
printers, flows and entities and any number of changes and moves, from `ConstantsAssumption`
and `NoPrinterAssumption`.  `IInv` adds to them that an entry which is set up has been
migrated (`Versions`), that a set-up has read the options it will run with, unless they
were changed meanwhile (`OptionsRead`), and that only the version, raised last, says that the
entities have been renamed (`Names`), so a migration that failed half-way is repeated.

`CC2JobFiles_proofs` proves the two safety properties of the run `job_files` for any number
of uploads, ranges, jobs and reloads, from `ConstantsAssumption`.  For the uploads, `UInv` says
that who sends or starts has the lock of its client (`Locked`), so that as long as there is one
client the file is, between the last range and the start, the caller's (`StartsOwnFile`).  For
the caches, `JInv` says that there is one request of a kind (`OnePerKind`), that the client does
not know of jobs to come (`Behind`), that neither the file nor a request of the job that
is printing has been overtaken unless `tainted` says so (`FileOfJob`, `CachesOfJob`), and that
data of the gcode proxy which the job did not ask for are those of a request in `overtaken`
(`ProxyOfJob`): the first status of a job clears what came before, but shows it once more.

`CameraStream_proofs` proves the two invariants of the run `camera` for any finite set of viewers
and any faults, from `ConstantsAssumption`.  For `CountsViewers`, `Counted` adds that the
counters never exceed the viewers, not even after the removal or a cancelled request, so that
no decrement meets zero while its viewer is counted, and that a viewer who is still opening the
stream is one of those the MJPEG counter counts.  `NoOrphanStream` relates the video, which the
printer switches, to `_stream_enabled`, which a task sets once it has been resumed; in between there
may be several replies.  While commands are only lost, each reply has one task that waits
for it (`Waiting`, `OneWait`), and of the tasks that are ready the last one whose command was
answered waits for a switch-on if the video is on (`WillBeEnabled`).  When all of them have run,
`_stream_enabled` says so.

`Servers_proofs` is about what the two servers pass on.  For `MqttBroker`, `SubscribersServed`
states `SubscribersSeeTheLog` for any connections, publishers, client ids and number of
publications, from `ConstantsAssumption`.  The property says what subscribers have got; why
they have got it is `BrokerInv`.  Those in the queue of the lock are those who wait
for it or hold it, and who forwards is its head (`LockInv`), so one publication is under
way at a time, to targets that are still registered (`TargetsInv`).  A connection subscribes
once and nothing is written to it before (`FreshInv`), and while it lives its SUBACK and its
registration go together (`AckInv`); so it misses nothing between the two.  Of each publisher the
log, the packet that waits for the lock and those not read yet tell rising publications
(`OrderInv`).  `LogInv` adds it up: what a live subscriber has got, and the one
publication it may be a target of, is all that was forwarded since its SUBACK.

For `ProxyRouting` it proves the three invariants of the run `proxy_routing` for any
printers, paths, ids, scripts and number of messages, from `RoutingAssumption`.

- `NamedPrinterTheorem`: the list of ids that `Target` goes through ends with the registry, so
  a registered one is found, and the first of them is among those the request names, if it names
  any.
- `ScriptTheorem`: replacing what has been replaced changes nothing that `Meaning` sees, so that
  the text written, the text kept back and the rest of the script have the same meaning at
  each chunk, wherever it ends (`BodyInv`).  From the second chunk on, what was written and what
  is kept back is free of addresses, also where the two meet, and has a URL with the id if
  it has one without (`Clean`, `Rewritten`).  An address could only come about across the end
  of what was written.  But up to the first address that is replaced a text is as it was
  (`LocalizedAsBefore`), so such an address was there before, unless its end has only come
  with this chunk (`Crosses`); and that is what `split` records.  Printers in `Clashing` are
  excepted throughout.
- `SessionRoutingTheorem`: the inbox is the end of the client's log (`QueueInv`); a
  message that names a connected printer goes to that one alone (`SendingInv`), and what a printer
  has got of its own messages is what has been taken from the inbox, with the one being sent
  added after the send (`RoutedAt`).  A printer that leaves in between makes the task of the
  client end or leaves the others' share as it is.

For `MqttFraming` it proves both invariants of the run `framing`, for any base from 2 on, any
contents, reads of any size and any number of packets, from `FramingAssumption`.

- Length fields: those of at most four digits denote the numbers below the fourth power of the
  base, each number has exactly one that is shortest, and that is the one that `EncodeLength`
  writes (`LengthFieldIs`); so what `_send_msg` writes is an encoding of the standard
  (`MsgIsEncoding`).
- `StreamIsUnambiguous`: two sequences of packets with the same bytes are the same sequence; it
  makes `Stream` a reference that `PeersCanRead` can be stated with.
- `PacketsAreWholeTheorem` and `PeersCanReadTheorem` rest on `FramingInv`: unless the handler has
  failed, the stream of the packets taken, followed by the buffer and the bytes not read yet, is
  the stream of the packets sent, so what is in the buffer begins the encoding of the next one
  (`NextComes`).  If its length field is whole, what is cut out is that packet; if the
  buffer ends inside the field, the handler takes a packet for complete only if all digits there
  are 0, and that one has no body and makes it fail (`CutIs`).

`Only`, `Continued`, `Number`, `Stream` and `left` in `EncodeLength` are recursive functions
over positions or numbers.  That such a function exists and obeys its equation is `Recursion`,
by induction over the naturals (`Induct`); what they do with `Append` and `\o` follows from it.

Only model-checked: liveness everywhere, as the proof system does not handle fairness.

## 7. Not modelled

Discovery broadcasts, the data models, the entities and the developer scripts have no state that
outlives a call.  Of the API and the coordinator, the forwarding of reads and commands, the
intervals of polling and the refresh of canvas and file list are left out.  Of the proxy, headers and
the rewriting of `VideoUrl` are abstracted, and `proxy.py` from line 1311 on is not called.  Of
the config flow, the texts of forms, the clean-up of input and the probes of canvas and
G-code proxy are abstracted to their outcomes.  Of the cameras, `ElegooMjpegCamera` (`camera.py`
487-653) is left out: it has the same life cycle as the camera that is modelled, and switches the
video on through `get_printer_video`.

Within what is modelled, time is abstract (a timer may fire whenever it is set), memory and
logging are left out, and printers and clients may do what the protocol allows them, not
arbitrary bytes.  In particular:

- `MqttBroker` has one topic, and `MqttFraming` contents that are UTF-8: other contents make
  the decoding in `_parse_publish` (`mqtt/server.py` 481 and 487) raise, which ends the handler;
- a chunk of a script that ends inside a character of several bytes cannot be decoded
  (`proxy.py` 1187); it is one of the ways in which `StreamBreaks`;
- in `SharedServers` a poll that is inside an await when its entry is unloaded goes on; its
  cancellation there is not modelled;
- in `CC2JobFiles` an upload may be cancelled while it waits or sends, but not a second time
  inside its `finally`; what the gcode proxy knows of a file is not modelled, only for which job
  it was asked;
- in `SdcpClient` the last part of `disconnect()` is one step (section 3).
