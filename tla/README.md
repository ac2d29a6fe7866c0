# Verification of the Meshtastic concentrator bridge

TLA+ models of the Python program in `src/`, TLC configurations that check
them, and proofs checked by TLAPS. The program joins a LoRa concentrator card to
a Meshtastic mesh: ChirpStack Concentratord drives the card, `bridge.py` talks
to it over two ZeroMQ sockets and serves a JSON API on a Unix socket, and a
skill for an agent sends and reads messages through that API. Paths below are
relative to `src/`; `bridge.py` is `src/bridge/bridge.py`.

How to run: `tlc -config MCBridgeRx.cfg MCBridgeRx` (and so on, one
configuration per run listed below), `tlapm BridgeTxProofs.tla` (and each other module named `...Proofs`) for the
proofs.

## 1. The system

### Components

| Component | State | Operations | Talks to |
|---|---|---|---|
| Command path: `ConcentratordZMQ.send_downlink_raw` (bridge.py 229-249) | one REQ socket, `_running` | send a downlink from an executor thread, wait for the reply (RCVTIMEO 5 s) | concentratord; called by every `send_text` |
| Text sending: `MeshtasticBridge.send_text` (629-747) | `_tx_lock`, `_pending_acks`, local attempt and packet id | jitter, listen before talk, build, send, wait for ACK, retry | command path; `_last_rx_time` and `_pending_acks`, shared with reception |
| Reception: `receive_event`, `_rx_loop`, `_process_rx` (171-213, 487-627) | `_seen_packets`, `_nodes`, `_message_log`, `_last_rx_time` | parse, drop duplicates, decode, record | concentratord's event socket; text sending |
| Lifecycle and node file: `start`, `stop`, `_load_nodedb`, `_save_nodedb`, `main` | `_running`, `_node_db`, `nodedb.json` | load, connect, stop on a signal, save | systemd (`Restart=on-failure`), every other part |
| JSON API (749-845) | one coroutine per client | send, nodes, status, messages, my_info | text sending, reception's tables |
| `MeshRouter` (src/protocol/routing.py) | `_seen`, `_last_cleanup`, `_neighbors` | should_accept, should_rebroadcast, prepare_rebroadcast, has_seen, cleanup | library, used by tests; a network of routers floods packets |
| `NodeDB` (src/protocol/nodedb.py) | table of `NodeInfo` | update from a packet, expire, export, import | library |
| `ConcentratorTransport` (src/bridge/transports/concentrator.py) | stream to lora-mesh-daemon, receive queue, `_connected` | connect, send_raw, receive, receive loop | lora-mesh-daemon (not in the repository) |
| `USBTransport` (src/bridge/transports/usb.py) | interface, receive queue, `_connected` | connect, send, disconnect; callbacks from the library's thread | meshtastic library |
| Agent skill (skill/scripts/meshtastic_api.py, meshtastic_cli.sh) | connection, `_received` list | connect with retries, send, receive for a while | bridge API or USB |
| Watchdogs (deploy/*-watchdog.sh) | a counter in a file, timers | look at the receive count, restart services | systemd |
| Codecs (packets.py, meshtastic_proto.py, concentratord_pb.py), channels.py | none | encode, decode, frequency of a channel | everything above |
| crypto.py, `aes_ctr_crypt` | none | AES-CTR | codecs |
| install.sh, build-concentratord.sh | none | one-shot installation | - |

### What is hard about it

- *One socket, many callers.* The command socket is a REQ socket: it alternates
  send and receive. Every API client's `send_text` uses it from its own executor
  thread, and the lock in `send_text` covers the jitter sleep only. A lost reply
  leaves the socket waiting for ever: from then on every send is refused.
- *State read across awaits.* `_pending_acks` is filled after the await of the
  send, polled between sleeps and emptied by the receive loop.
- *Retries of what may have been done.* A reply that misses its timeout may
  belong to a frame that was transmitted.
- *Two windows on one cache* (60 s to be a duplicate, 300 s to be purged), and
  the same pattern with other numbers in `MeshRouter`.
- *Crashes and restarts* around a node file written in place, `stop()` running
  twice, and two watchdogs that only look at reception.
- *Flooding* with hop limits, where the first copy to arrive decides.
- *Threads of foreign libraries* calling into `USBTransport` and the skill.

`PROJECT.json` lists each such hazard at its line, with the property that
covers it, or why none does yet.

### What makes each component correct

- Command path: a reply reaches the call whose request it answers; True only
  for a request that was answered; at most one processing per request.
- Text sending: bounded air time per message, broadcasts once, every call
  returns, no success without reason, no forgotten pending id.
- Reception: no frame twice within the window, a bounded log and a bounded
  duplicate cache (`_nodes` is not bounded: nothing prunes it), tables that agree
  with the log.
- Node file: what was known survives every stop and crash that leaves the file
  whole.
- Router: a node forwards a packet once per cache lifetime, floods end, nothing
  but the hop limit changes on the way, a packet reaches every node within its
  hop limit unless a router was overtaken (section 3).
- NodeDB: staleness and expiry agree, merging keeps the newer record, no record
  is fresher than what was heard.
- Transports: packets are handed over in order and at most once, no success is
  reported that the radio did not give, every send returns unless a daemon that
  does not read holds it in `drain`, a connected transport has a receive loop or a
  listener (which on a stream that was reset hears nothing), the serial port is not
  lost.
- Codecs: what a decoder gives back of what was encoded, and exactly what is lost.
- Channels: no slot lies outside the band.
- Watchdogs: what is broken is eventually restarted.

## 2. The modules

| Module | Models | Built from |
|---|---|---|
| `DownlinkService` | what a caller of `send_downlink_raw` may rely on (abstract) | - |
| `CommandSocket` | the REQ socket, the `_do_tx` threads, the concentratord behind them | implements `DownlinkService` |
| `BridgeTx` | `send_text` of any number of calls, on top of the socket | extends `CommandSocket` |
| `BridgeRx` | `_process_rx`, the process's life, the node file | - |
| `Flood` | what flooding is, without caches, clocks or messages (abstract) | - |
| `MeshRouter` | one `MeshRouter` per node: cache, neighbours, decisions, the header's flags byte | - |
| `FloodNetwork` | routers, a radio that delays, reorders and loses copies | extends `MeshRouter`, implements `Flood` |
| `Packets` | varints, protobuf fields, Data, Position, User and MeshPacket of packets.py | - |
| `NodeDB` | several node databases and the files they exchange | extends `Packets` |
| `BridgeFrames` | `build_packet` and `decode_packet` of meshtastic_proto.py | extends `Packets` |
| `Uplink` | what `receive_event` makes of a concentratord event | extends `Packets` |
| `Channels` | presets, slots and frequencies of channels.py | - |
| `Codecs` | each conversion applied to every value of an instance, and back | extends `BridgeFrames`, `Uplink`, `Channels` |
| `TransportService` | what a transport promises (abstract) | - |
| `MeshTransport` | the state all transports have, and the tasks of an application | - |
| `ConcentratorTransport`, `UsbTransport`, `SkillTransport` | one transport each | extend `MeshTransport` |
| `Transports` | an application over one of them | extends the three, implements `TransportService` |
| `MC...` | instances for TLC | one per run's module |
| `...Proofs` | theorems and proofs | extend the module they are about |

Definitions whose name starts with `Mut` are never part of a specification: each
is a plausible bug (a dropped guard, a missing reset) in the definition that
follows it, and `PROJECT.json` says which property notices it.

### CommandSocket

State: `running` (`_running`), `sock` (may send, or must receive), `owner` and `wire` (whose request is
outstanding and how far it came), `tx[c]` (where call c stands between
`run_in_executor` and its result) and `accepted[c]` (how often the concentratord
transmitted c's frame). `Submit` and `Return` are the coroutine's side (229-249;
without a connection the answer is False at once, 231-233),
`ThreadSend`, `ThreadSendRefused`, `ThreadRecv`, `ThreadRecvTimeout` the
thread's (`_do_tx`, 239-241, with the `except` of 247-249). The concentratord is
external: it transmits, rejects, or loses a request or a reply; a request that
was queued while it was down may be transmitted much later. A refused frame is
answered too, and `send_downlink_raw` takes any answer for success (244-245).
`Disconnect` closes the socket, whoever is in it. Two threads in one ZeroMQ socket,
a send or a close while another receives, are undefined behaviour: `NewProcess`
lets the process die there, `ThreadSendRefused` and the receiver that goes on are
the benign outcomes. `NewProcess` is the restart, after an abort or a stop.

`DownlinkService` is the promise: a call ends with "ok" only after its request
was processed, each request is processed at most once, a call may be refused
before it has a request (`Refuse`), and a request that a caller gave up on may still be processed later, at most one per caller.
`CommandSocket` implements it under the mapping `StateOf`, `RequestOf`,
`LeftBehind`.

### BridgeTx

One action per stretch between two awaits of `send_text`: `Begin` (the API
request), `Acquire` (the lock), `JitterEnds`, `BackoffEnds` (listen before talk,
then `FirstSend`: packet id and first attempt), `SendSucceeded`, `SendFailed`,
`AckSeen`, `AckDeadline`, `Retry`. The receive loop appears as `ReceiveAck` and
`ReceiveOther`: a reception makes the channel busy, and an acknowledgement that
`_process_rx` recognises removes its non-zero packet id. `pc` and `attempt` are
the position and loop variable of each call, `pid` its packet id, taken from
`clock` modulo `IdSpace`; `SameMillisecond` says whether two calls may share an
id. No durations: a sleep ends, a deadline passes, at any time, which covers
every timing.

### BridgeRx

`Receive(f)` is the whole of `_process_rx`, which has no await: duplicate test on
the 16-byte header (529-534), `MarkSeen` with the purge (535-541), decoding under
the configured channel and then LongFast (543-552; a wrong key gives noise more
often than an error), `NodesWith` (578-588), `Cleared` (603-619), `LogWith`
(621-624). `Await` and `GiveUp` are what `send_text` does to `_pending_acks`.
`Start`, `Signal`, `Finish` and `Crash` are the process: a signal runs `stop()` as
a task and `start()` runs it again in its `finally`, so the node file is saved
twice, and each save may succeed, fail to open the file, or leave it truncated
(`torn`). `nodes` is `_nodes`, what reception learns; `nodeDb` is `_node_db`, what
the file and the API know. They are two tables in the code, too.

### MeshRouter and FloodNetwork

`MeshRouter` keeps `_seen` (`seen`), `_last_cleanup` (`cleaned`) and the keys of
`_neighbors`. `ShouldAccept` is the whole of `should_accept` (167-205): the
neighbour entry, the cleanup if one is due (96-106), the mark.
`ShouldRebroadcast` and `PrepareRebroadcast` are 207-260; `OverTheAir` is a header
after `PacketHeader`'s flags byte, which cuts the hop limit to three bits.
`FloodNetwork` runs one router per node the way the class documentation shows
(59-67): `Originate`, `DropDuplicate`, `AcceptLast`, `Relay`, with `Lose` for the
radio, `Ask` for the queries that run a cleanup, `Forget` and `ForgetNeighbors`
for the clears, and `Tick`. `first`, `relayed`, `reach` and `lossy` are history:
no guard reads them. `Flood` has one variable, the largest hop limit with which
a node transmitted a packet; `Relay` is its `Spread`, `Originate` its `Start`,
and every other step leaves it alone.

### NodeDB

One action per method of the class that changes something: `Update`
(`update_from_packet` with `_update_from_data`), `GetOrCreate`, `ExpireStale`,
`Clear`, `Export`, `Import`, for several databases, any of which imports any
file. `ExportCutShort` is an export that dies after it opened the file in place.
A file holds dictionaries (`ToDict`, `FromDict`), in which a field equal to its
default is left out; a received payload is a message of `Packets`, so names and
positions go through the decoders.

### Transports

A task of the application is in at most one call; `at` says at which await.
`ConcentratorTransport` has one stream (`lines`, `cmds`, `link`) on which the
receive loop and every `send_raw` call `readline`: a coroutine that finds a line
takes it, the second that finds none gets a RuntimeError. `Send` writes a command
and goes on at once while no more than `BUFFER` of them are unread; else it is in
`drain()` ("draining", 162), which has no timeout and ends when the daemon reads
or the stream is lost. The daemon is external: it answers late, with an error or
never, does not read, closes (`DaemonCloses`: readers see the end of the stream,
and the loop clears `_connected`) or resets (`DaemonResets`, also by a write to a
closed end: every read raises, and the loop sleeps a second and tries again for
ever, with `_connected` TRUE, 201-203). `link` is "shut" between `close()` and the
end of `wait_closed()`.
`UsbTransport` has the executor threads (`opening`, `closing`, `sending`), the
library's two callbacks and pubsub; a device may be unplugged at any time, which
nobody is told. Opening an interface leaves a message "established" on its way
(`announced`), and `Established` delivers it whenever the library's thread gets to
it, after a disconnect too, since `_on_connection` is never unsubscribed.
`SkillTransport` is `ConnectionManager` with its attempts and one transport; the
window of `receive_messages` clears, waits, copies and clears (`SListen`,
`SCopy`, `SReturn`), with packets arriving in between.
Each kind implements `TransportService` as it is: the packets an application got
are some of those heard, in order and once, and there are never more successes
than frames taken by the radio or its daemon.

### Codecs

A value is written by one conversion (a `Write` action), may be cut short, and is
read back; the properties compare what was meant with what was read. Numbers keep
their width through the constants `DIGIT`, `WORD` and `WORD32`. A latitude is
written by `struct.pack("<i", ...)`, which raises beyond 32 bits where the unsigned
fields are masked (`Packs`, `SFixed32`): such a position has no encoding, and
`WritePosition` has none to write. Strings and
payloads are opaque, and so is the cipher: a key other than the one used gives
noise.

## 3. The runs

| Run | Instance | Shows |
|---|---|---|
| `bridge_tx_full` | 1 broadcast and 1 unicast, the code's `MAX_RETRIES` = 3 and `LBT_MAX_TRIES` = 3 | `TypeOK`, `IInv`, `TransmissionsBounded`, `BroadcastOnce`, `ImplementsDownlinkService`, and under fairness `EveryCallReturns` |
| `bridge_tx_acks` | 1 broadcast and 2 unicasts, 1 retry, distinct ids | `ReplyBelongsToWaiter`, `WedgedStaysWedged`, `PendingHasOwner`, `NoFalseAck` |
| `bridge_rx` | 4 frames of 2 nodes and address 0, window 2, purge 3, log of 3, clock to 4 (`MaxTime`) | `TypeOK`, `IInv`, `NoRepeatWithinWindow`, `NodesCoverLog`, `LogAndCacheBounded`, `NodeFileKept` |
| `flood` | 4 routers, one an observer, two ways to one of them, a packet with hop limit 0, 1 or 2 or a unicast; ttl 1, cleanup interval 2, clock to 3 | `TypeOK`, `RelayedUnaltered`, `FloodCovers`, `RelayGap`, `ImplementsFlood`, and under fairness `FloodEnds` |
| `node_db` | 2 databases, 2 files, one node and address 0, 5 packets, clock to 3 | `TypeOK`, `HeardIsGenuine`, `ImportsConverge`, `ExpiryAgreesWithStale`, `HeardNeverFalls`, `OnlyNewerImportForgets` |
| `codecs` | digits of 4 values, words of 32 and 8, numbers -6 to 17, slots at each band's edges | `VarintRoundTrip`, `MessagesRoundTrip`, `PacketRoundTrip`, `FrameRoundTrip`, `UplinkRoundTrip`, `TunedInBand` |
| `transports` | each kind, 2 tasks, 2 packets, 2 sends, 2 attempts, `drain` waits when 2 commands are unread (`BUFFER` = 1), 2 late callbacks (`MAX_ANNOUNCED`) | `OwnAnswer`, `ConnectedIsServed`, `PortNotLeaked`, `ImplementsService`, and under fairness `SendReturns` |
| `claim_tx_serialized` | 2 unicasts | violates `TxSerialized` (bridge.py:637) |
| `claim_retry_only_if_needed` | 2 unicasts | violates `RetryOnlyIfNeeded` (bridge.py:718) |
| `claim_ack_clears_pending` | replies with the id in either place | violates `AckClearsPending` (bridge.py:603) |
| `claim_heard_nodes_listed` | as `bridge_rx` | violates `HeardNodesListed` (bridge.py:578) |
| `claim_neighbors_direct` | as `flood` | violates `NeighborsAreDirect` (routing.py:35, 93, 179) |

Deadlock is checked in every run but `codecs`, where a behaviour ends with the
value read back.

### Bounds, and why they are enough

- The command path is checked under `BridgeTx`, whose retry limits end every call,
  so it needs no bound of its own. Three callers are one to hold the socket, one to
  be refused and one to race with both; a retry lets a request that was left behind
  be followed by a fresh one of the same caller.
- `IdSpace` 4 with `StartTime` 3 makes packet ids wrap after the first call, so
  the id 0, which is never acknowledged (615), and a small id after a large one
  both occur.
- `bridge_tx_full` keeps the code's own limits and pays with two calls;
  `bridge_tx_acks` takes three calls and pays with the number of retries. Both take
  distinct ids (`SameMillisecond` FALSE): with one unicast a shared id changes
  nothing, since a broadcast's id is never pending, and with two `NoFalseAck` does
  not hold. The other theorems hold either way.
  `Symmetry` exchanges the two unicasts, in the safety run only.
- In `bridge_rx` the window is 2 and the purge age 3 ticks: a header can be
  inside the window, past it but not purged, and purged, within `MaxTime` = 4;
  three log entries are what it takes to log a header, purge through another
  frame and log it again, and one more reaches the cap. The ratio 60:300 itself
  does not matter: the proof needs only `DUP_WINDOW <= PURGE_AGE`.

- `flood`: four routers are the fewest with a detour (o, y, x against o, x) and a
  node behind it. With hop limit 2 the copy by the detour is the one that loses,
  with 1 and 0 the flood ends before it; the unicast is overheard. The unit is
  half a minute: a time to live of 1 and a cleanup interval of 2 keep the order of
  the defaults' effects that matters, an entry that outlives its time to live
  until a cleanup, and `MaxTime` = 3 leaves room for expiry, a cleanup and a late
  copy. One packet per behaviour: packets share a cleanup and a neighbour table, nothing
  else; the theorems hold for any number. Only x and z are cleared and x queried,
  the routers where it decides anything.
- `node_db`: two databases are what it takes for a file to travel there and back.
  The expiry is one tick, the clock three, so a record may be fresh, at the edge
  and past it while an older copy of it sits in a file.
- `codecs`: with digits of 4 a varint of a word takes up to three bytes, so every
  length, a cut in every place and one byte too many occur; negative numbers wrap
  in both widths. What decides is which bit is cut off, not how many there are.
- `transports`: two tasks make every overlap of two calls; two packets make an
  order. More calls or packets only repeat them on the same stream. With `BUFFER` 1
  the first command always finds room and a second may have to wait for the daemon;
  two messages "established" are one of an interface gone and one of the next. The
  safety properties are proved for any number.

### Fairness

`EveryCallReturns`, `FloodEnds` and `SendReturns` need some.

`FloodNetwork`: the radio delivers or loses a copy in finite time (weak fairness
of all the arrivals together). Nothing is assumed of clocks or cleanups.

`Transports`: asyncio resumes a coroutine that can read and a `drain` that can go
on, `wait_for` fires after five seconds (concentrator.py:170), a closed stream ends
its readers, and an executor thread finishes its call into the library. Nothing is
assumed of the daemon, the device or the receive loop. A daemon that never reads
therefore holds a send in `drain` for ever: `SendReturns` names that state (`Held`)
as the one place where a send may stay.

`BridgeTx`: `Fairness` is weak fairness, for each call, of
its coroutine's next step and of its thread's next step: asyncio runs every ready
coroutine and fires every timer, `asyncio.Lock` is handed on when released, the
executor has more threads than the calls of the instance, and RCVTIMEO ends a
receive. Nothing is assumed of the radio, the concentratord or the clients: the
property holds with a concentratord that never answers. The lock is free after
every jitter sleep, so weak fairness of `Acquire` suffices in the instances,
where each call is made once.

### What the violated runs show

- `TxSerialized`: the lock is released at the end of the jitter sleep (640-644);
  two calls are then in the command path at once. The second send meets a socket
  that waits for a reply, fails and costs that call an attempt.
- `RetryOnlyIfNeeded`: an ACK that arrives before its id is recorded (719), or
  during the last polling sleep (721-725), is not seen, and an acknowledged
  message is transmitted again.
- `AckClearsPending`: the request id is looked for inside the Routing message
  (612-614), although the decoder's comment (meshtastic_proto.py:361-362) lists
  it as a field of Data.
- `HeardNodesListed`: reception updates `_nodes`; the API, the status and the
  file read `_node_db`.
- `NeighborsAreDirect`: `_neighbors` is documented as direct neighbours (35, 93) and
  the immediate sender (179), but holds the source of every packet accepted (180),
  which a relay leaves as it is: whoever hears the last relay of a flood lists its
  source as a neighbour.

Seen while modelling, without a claim in the repository to check against: a frame
the concentratord refuses is reported as sent (244-245); a unicast never
acknowledged returns True after its last attempt (732-737); two unicasts of one
millisecond share an id and one ACK answers both, so `NoFalseAck` is checked for
distinct ids only; a copy of a packet with another hop limit is not a duplicate
to `_process_rx`; `send_text` never sets `want_ack`; a `messages` request with
limit 0 returns the whole log.

Of the other parts:

- A first copy that came by a detour has fewer hops left than the copy that comes
  directly and is dropped as a duplicate (routing.py:183-187): `FloodCovers` says
  that this, and a loss, are all that keeps a flood from a router within the hop
  limit. It is stated about a router overtaken anywhere, since the router that
  misses the packet is behind the one that was overtaken.
- `max_hop_limit` is stored and never enforced.
- A hop limit of 0 is not written by `MeshPacket.to_protobuf`, and read back as 3;
  an RSSI comes back unsigned; an altitude of 0 is lost, one below 0 comes back
  near 2^64. The round-trip properties name exactly these.
- `build_packet` packs a header that it throws away (meshtastic_proto.py:207);
  only that makes a hop limit above 7 an error.
- A negative SNR makes the struct.pack of bridge.py:357 fail: the frame is dropped.
- The table of default frequencies (channels.py 152-163) has 906.875 MHz for every
  preset.
- `send_raw` and `connect` await `drain()` without a timeout (162), and a stream that
  is reset leaves `_connected` TRUE and the receive loop failing once a second.
- `send_raw` returns False with a RuntimeError caught while another call or the
  receive loop waits for a line; the command was sent and may be carried out. An
  answer taken by the loop is dropped, a packet taken by a call is lost.
- USB: `_connected` may turn false while the interface is open (a second connect
  fails), overlapping connects and disconnects lose the port (`overlap`), and an
  unplugged radio is noticed by nobody. Skill: nor by `get_transport`, and the
  listener of `_subscribe` may be gone as soon as it is made.

## 4. The proofs

All theorems hold for any number of calls or frames and any value of the other
constants that satisfies the named assumptions (`NoCallAssumption`,
`BridgeTxAssumption`, `BridgeRxAssumption`, `RouterAssumption`,
`NetworkAssumption`, `PacketsAssumption`, `WidthAssumption`, `CodecsAssumption`,
`DataAssumption`, `NodeDBAssumption`, `PositionAssumption`,
`TransportAssumption`, `BufferAssumption`, `UsbAssumption`, `SkillAssumption`,
`KindAssumption`). They give the
constants their types, plus: `DUP_WINDOW <= PURGE_AGE`; packets have different
keys; `Dist` is 0 at home and grows by at most one along a link; no address is
also none; a word of 64 bits is a whole number of words of 32, and a varint of
`MAX_BYTES` bytes holds it (ten times seven bits in the code). Three theorems have
a hypothesis of their own, named below.

**CommandSocketProofs.** `SockInv` is inductive: types; a waiting thread owns the
outstanding request; socket, request and owner agree. The last conjunct is needed
to see that a second send cannot succeed. From it: `SocketCorrect`,
`WedgedForEver` (a socket without a waiting thread stays so, since only a waiting
thread can free it), and `SocketImplementsService`: the initial state maps to the
service's, and each step to a step of the service or a stutter, one lemma per
group of actions.

**BridgeTxProofs.** `TransmissionsBounded` alone is not inductive: the
concentratord may transmit long after the call moved on. `IInv` adds where each
call can be (`PhaseInv`: a thread runs exactly for a call in its send phase, the
lock is held exactly during the jitter, attempts stay within the limit; the whole is
`SendingCorrect`) and
`BudgetInv`: transmissions done, plus a request on the wire, plus a request about
to be sent, never exceed the attempts begun. `BroadcastInv` says why a broadcast is not
repeated: once transmitted, either its reply is still owed, and the socket refuses
the retries, or the call has its answer and ends. One lemma per action preserves
`IInv`; `TypeCorrect`, `TransmissionsAreBounded` and `BroadcastsAreSentOnce`
follow. `PendingIdsHaveOwners` is a further invariant on top of it. `NoFalseAck` needs
`AckInv`: a call that waits has its id pending or was acknowledged. Another call's
ACK, or its last deadline, preserves that only if it has another id.
`DistinctIdsAreAcked` therefore assumes `[]IdsDistinct`; `NoAckIsFalse` shows
that this holds (`ClockInv`) when no two calls share a millisecond and there are
no more calls than ids, since the clock then moves at most once per call and does not come
round.
`SendTextKeepsServicePromise` transfers the refinement to the composed
system.

**BridgeRxProofs.** `NoRepeatWithinWindow` speaks of the log, the code's test of
the cache; `SeenCoversLog` ties them: as long as the window of a logged frame is
open, the cache holds its header with a time no earlier. The purge preserves it
because `DUP_WINDOW <= PURGE_AGE`. `LogWithShape`, `MarkSeenFacts` and
`NodesWithFacts` state what the three helpers return. `NoFrameLoggedTwice`,
`NodeTableCoversLog`, `LogAndCacheAreBounded` and `NodeFileSurvives` follow from
the inductive `IInv`.

**FloodNetworkProofs**, for any mesh, any packets and any times. The inductive
`IInv` joins types with four facts: `RelayedUnaltered`; `AirReach` (a copy on its
way comes from a node in range that transmitted it with that many hops or more);
`ReachRadius` (a node that transmitted is as far from the source as the hops it
spent); `CacheCovers` (what a router rebroadcast is in its cache, with a time no
earlier, until the time to live has passed). `AirReach` and `ReachRadius` need
each other: a relay is one link beyond the node it heard. `HeaderOnAir` computes
the flags byte, `FreshCovers` and `MarkedCovers` say what a cleanup and a mark
leave of the cache, `TransmitStep` what any transmission preserves; each action
has its lemma. Then `NetworkTyped`, `RelaysPassOnWhatWasSent`,
`RelaysAreSpaced` (a router that could relay again would find the packet in its
cache) and `NetworkFloods`, the refinement of `Flood`, in which `AirReach` gives
the neighbour `Spread` asks for. `FloodsCover` needs what has become of every
copy: as long as nothing was lost, what the source sent, and what every router
that accepted it with hops left passed on, is on its way to each node in range or
was accepted there (`Delivery`). When the flood is over, induction along a
shortest path gives the rest: a router d + 1 links away is behind one d links
away, whose first copy had hops left unless it was overtaken. The hypothesis
`ShortestPaths` says that `Dist` is the length of such paths; TLC evaluates it on
the instance's mesh (`MeshAssumption`).

**NodeDBProofs**, for any databases, packets and codec widths. Types and
`HeardIsGenuine` are inductive together, over tables and files at once: what is
written is read back with the same `last_heard` (`ToDict`, `FromDict`), and a
merge takes each record from one side or the other. `DatabasesTyped`,
`NothingHeardIsMadeUp`, `ExpiryIsStaleness`, `RecordsNeverGrowOlder` and
`NamesLostOnlyToNewer` follow, the last two as properties of steps.
`ImportsMakeEqual` is a fact about two merges of whole records (`WInv`: every
record has all its fields, so that what is written and read back is the record):
each side ends with the fresher of the two, and nothing is left that is strictly
newer.

**TransportsProofs**, for any tasks, packets, calls and interfaces. `StreamInv`:
while calls on a stream neither overlap nor end unanswered, there is at most one
answer outstanding, an unread command or an unread line, and it is for the call
that waits (`OneAnswer`, `AnswerFor`); a connect is alone with the answer to its
status command (`GreetingAlone`), which is why that answer is never left on the
stream for a call; a call on a transport no longer connected has nothing to read
(`Orphaned`). `PortInv` says who refers to the interface at each point of the one
connect or disconnect. `TrueIsOwnAnswer`, `ConnectedTransportsAreServed` and
`SerialPortIsKept` follow.

**TransportServiceProofs** proves the refinement `ImplementsService`, for the
three transports together. The service delivers packets in the order they were
heard, so the invariant `SInv` keeps an order (`OrderInv`): what is in the
application's inbox, then what is in the queue, then what is still on the stream,
posted by a callback or copied by the listener, rises. And it keeps a count
(`CountInv`): on a stream, a tally that goes up with every "ok" not read yet runs
from the successes reported to the frames accepted (`Tallied`); elsewhere, each
task whose frame was taken may report it once (`SentCounted`). One lemma per
action shows a step of the service or a stutter.

**CodecsProofs**, for any values and any width of bytes and words. `CInv`
says that the wire holds what the value is written as, or for a varint a beginning
of it, and that what was read is what that is read as; the rest are facts about the
conversions. Messages: `Lacks` and `Carries` say what a message has of the field of
a number; every field conversion is described by them once, `Join` carries them over
concatenation, and `ReadsNothing` and `ReadsValue` say what a reader finds. Numbers:
`SignedRoundTrip`, `Int32RoundTrip` and `FloatRead` are the two's complement and
sign-bit arithmetic. Varints need induction over the digits, and the
definitions `Digits`, `ValueOf` and `Weight` must first be shown to define
functions: `Least` (every set of naturals has a least member, from the library's
`WFMin`) gives `Induction` and `Recursion` for sets and functions, where the
library's own theorems, which are about operators, cannot be instantiated by the
provers at hand. `DigitsSpell` is the induction; `VarintRead` is the reader.
`VarintsSurvive`, `MessagesSurvive`, `PacketsSurvive`, `FramesAreRead`,
`UplinksAreRead` and `ChannelsInBand` follow.

**Only model-checked.** `EveryCallReturns`, `FloodEnds`, `SendReturns`: liveness
under fairness, out of the prover's reach. The violated claims are
counterexamples. Every other property of the runs is a theorem.

## 5. Plan

Modelled, checked and, but for the list above, proved: the command path and
`send_text`, reception and the node file, routers and their network, node
databases, the three transports, the conversions. Left, most useful first:

1. `BridgeRx` shown to be the receive loop `BridgeTx` assumes, and `FloodNetwork`
   with a bridge as one of its nodes: `_process_rx` does not relay.
2. Watchdogs composed with `CommandSocket`: which restart repairs a wedged socket.
   `WedgedStaysWedged` already shows that nothing short of one does.
3. The telemetry port, `build_command` and the channel hash among the conversions.

## 6. Not modelled

- AES-CTR (crypto.py): a library primitive; in `BridgeFrames` a wrong key gives
  noise. Key derivation and channel hashes (channels.py) are left out with it.
- The watchdogs: shell scripts on timers that read the log; what they restart
  appears as the crashes and restarts of `BridgeTx` and `BridgeRx`.
- `concentratord_pb.build_command`, which has no decoder here to compare with;
  the telemetry port, floats and zigzag numbers of the codecs.
- Signal quality, packet counts and the age filter of `get_neighbors`, which no
  decision reads; `ConcentratorTransport`'s own node table; reading the meshtastic
  library's tables; the skill's argument parsing, JSON and read-only commands.
- install.sh and build-concentratord.sh: one-shot scripts without state the
  running system depends on.
- lora-mesh-daemon and the concentratord: not in the repository; they are the
  external ends of `ConcentratorTransport` and of `CommandSocket` and `Uplink`.
- Contents of frames and protobuf messages, beyond what `BridgeRx` tells apart;
  log messages; the statistics `_rx_count` and `_tx_count`, which no decision
  reads; lengths of time in `BridgeTx`; a clock that is set back (`BridgeRx`,
  `MeshRouter`, `NodeDB`).
- `wait_closed` of the API server, whose behaviour depends on the Python version.
