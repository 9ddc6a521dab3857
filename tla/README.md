# A TLA+ model of DroneBridge

DroneBridge connects a UAV and a ground station over Wi-Fi adapters in monitor
mode. Every module of the program is a process of its own. Modules on the same
side share memory segments and sockets; modules on different sides talk over the
raw protocol, whose frames are broadcast by every adapter of the sender, are never
acknowledged, and may be lost or damaged at each adapter of the receiver ("diversity").
So the receiver sees copies of a frame, and an adapter may deliver a frame after
another one has delivered a newer one.

Contents: 1 inventory, 2 plan, 3 modules and code, 4 runs, 5 abstractions and
bounds, 6 fairness, 7 proofs, 8 what the code does against its own comments,
9 what is not modelled.

## 1. Inventory

| component | state | operations | interacts with |
|---|---|---|---|
| video air (`video_main_air.c`) | packet buffers of the block being filled, `seq_nr`, UNIX clients | read stdin, cut packets, FEC encode and send a block; accept and serve clients | camera (stdin), radio, local apps |
| video ground (`video_main_gnd.c`) | one block buffer, `max_block_num`, counters in shared memory | receive a frame, window test, restart detection, store, choose FEC packets, decode, publish | radio, status module, players, USB bridge |
| FEC (`fec.c`) | tables | `fec_encode`, `fec_decode` | both video modules |
| raw protocol (`db_raw_receive.c`, `db_raw_send_receive.c`) | one byte sequence number per stream, last number seen, loss statistics | send on an adapter, parse a frame, count losses | every module |
| control ground (`control_main_ground.c`, `rc_ground.c`, joystick drivers) | stick positions, `rc_seq_number`, shared memory of the overwrite | read sticks, apply the overwrite, pack and send a command | joystick, status module, radio |
| control air (`control_main_air.c`, `rc_air.c`, `msp_serial.c`) | last RC number, serial buffers, MSP parser, UNIX clients | receive RC and write it to the flight controller; collect telemetry and send it; serve clients; send status | flight controller, radio, local apps, shared memory |
| proxy (`proxy_main.c`, `tcp_server.c`) | client table, last number, log file | telemetry to log, clients and OSD; accept and drop clients; what clients send to the UAV | control air, ground control stations |
| status (`status_main.c`) | client table, shared memory segments | collect statistics, send status, take RC overwrites of the app | control ground, video ground, app |
| USB bridge (`usbbridge_main.c`, `linux_aoa.c`) | parser of the USB protocol, buffers, transfers in flight | split and join messages, connect and reconnect, forward | app over USB, every TCP module |
| communication (`communication/*.py`, `DroneBridge.py`) | list of TCP connections, last number on either side | route a request by its destination, answer it, forward it to the UAV and its answer to all clients | app, radio |
| syslog server, recorder, OSD, plugins, start-up scripts | client table, files | copy data | local |

Hard behaviours, and what correctness means there:

* *Video*: a block is complete, repairable, or lost; packets come late, twice,
  damaged; the transmitter restarts with number 0; the buffers are reused without
  being wiped. Blocks must leave in order and once, hold only their own packets,
  and be intact whenever the code reports them as undamaged. The stream must come
  back after a restart.
* *Remote control*: commands are sent on every adapter, received on every adapter
  and must reach the flight controller once, never stay at an old value, and go
  back to the pilot when the app stops to overwrite them. Twelve channels share
  fifteen bytes.
* *Telemetry*: a byte stream is cut into chunks, each sent several times; the
  ground control station must see the stream in order. Clients come, go, break
  and fail to be accepted while the others keep being served.
* *USB bridge*: a message comes in one packet or several and may break off; the
  parser must join what belongs together, never write behind its buffer, and find
  back. After a reconnect the app must be heard again.
* *Communication*: a request goes over a lossy radio with copies and back to every
  client. It must be executed once and answered, whoever else comes or leaves.
* *Everywhere*: fixed tables of clients, `read()` and `accept()` that fail, signed
  and unsigned bytes, one process dying while the other goes on.

`PROJECT.json` lists the hazards line by line, each with the properties that would
show it going wrong.

## 2. Plan

Done, in the order of importance for flying:

1. `VideoBlock`, `VideoAir`, `VideoGnd`, `VideoLink`: the video link, with proofs.
2. `RcMessage`, `RcLink`: the remote control, with proofs of the message formats and of
   the duplicate filter.
3. `ControlAir`, `Proxy`, `Telemetry`: transparent telemetry, with proofs.
4. `MspSerial`: parsed telemetry, the parser of `msp_serial.c` with the checksums of the
   code, with proofs.
5. `UnixServer`: plugins of the UAV, composed with `ControlAir`, with proofs.
6. `UsbBridge`: the parser, splitting, and reconnects, with proofs.
7. `Communication`: requests and answers between app, ground station and UAV, with proofs.
8. `LossyStream`: the abstract specification of the video link, which `VideoLink`
   implements (proved and checked).

Left for later, in this order: `NoRequestLost` of `Communication` as a theorem; the
restart properties of the video link for several adapters that lag behind each other; the sockets of the USB bridge to the other modules
(`reconnect_sock`); the clients of the status module.

## 3. Modules and code

| module | models | state | actions |
|---|---|---|---|
| `VideoBlock` | one FEC block: layout, selection loop, `fec_decode`, what is published | none (operators) | |
| `VideoAir` | `video_main_air.c` main loop, `transmit_block` | `input` (`seq_nr`, `curr_pb`, `pb_list`), place in `transmit_block` | `ReadStdin`, `ReadEof`, `transmit_packet`, `AirRestart` |
| `VideoGnd` | `process_video_payload` | block buffer, `max_block_num`, counters, the word behind the list | `process_video_payload` (one call) |
| `VideoLink` | both, with the radio | queues of the adapters | `Fill`, `Eof`, `Transmit`, `Restart`, `process_packet`, `RadioClears` |
| `LossyStream` | abstract: what the video link promises | number of items sent, items delivered | `Send`, `Deliver`, `StartOver` |
| `MCVideoBlock` | every reception of one block | slots of the buffer | `ArriveIntact`, `ArriveDamaged` |
| `RcMessage` | `generate_db_rc_message`, `deserialize_db_rc_protocol`, `generate_mspv2`, `generate_sumd` | none (operators) | |
| `MCRcMessage` | stick positions to try | sticks | `Move` |
| `RcLink` | `send_rc_packet`, the RC part of `control_main_air.c`, the overwrite in `status_main.c` | sticks, shared memory, numbers, queues, the command at the flight controller | `OverwriteArrives`, `OverwriteCopy`, `OverwriteStamp`, `OverwriteAges`, `MoveStick`, `send_rc_packet`, `GndRestart`, `ReceiveRc`, `RadioClears` |
| `ControlAir` | serial protocol 5 of `control_main_air.c` | `transparent_buffer`, its fill level, copies still to send, `proxy_seq_number` | `ReadSerial`, `SendCopy` |
| `Proxy` | `proxy_main.c`, `send_to_all_tcp_clients` | `tcp_clients`, `last_recv_seq_num`, whether the process lives, the connections | `Connect`, `ClientSends`, `ClientLeaves`, `AcceptClient`, `AcceptFails`, `ServeClient`, `ProxyReceive` |
| `Telemetry` | both, with the radio | queues of the adapters | `Collect`, `Transmit`, `Receive`, `ProxyStep` |
| `MspSerial` | `mspSerialProcessReceivedData`, `crc8_dvb_s2`, the loop of serial protocols 1 and 2 | `db_msp_port`, `continue_reading`, the bytes in `raw_buffer`, the serial line | `FcSends`, `Distort`, `ReadByte` |
| `UnixServer` | UNIX server of `control_main_air.c` on top of `ControlAir` | `unix_server_clients`, listen queue, what each plugin did, whether the process lives | `PluginConnects`, `PluginSends`, `PluginLeaves`, `AcceptPlugin`, `ServeCommands`, `ServeGone`, `ReadSerialPort`, `SendCopyAndServe` |
| `MCParts` | `MCVideoBlock`, `VideoAir`, `MCRcMessage`, `MspSerial`, `UnixServer`, each by itself | which part runs | those of the part |
| `UsbBridge` | `process_db_usb_proto`, `db_usb_write_async_zc`, the poll loop, `init_db_accessory`, `exit_close_aoa_device` | the parser, `device_connected`, what `poll_fds` holds of the device, the notifiers, packets under way | `AppSends`, `Unplug`, `Plug`, `ReceivePacket`, `DeviceGone`, `WriteFails`, `Reconnect`, `InitFails`, `LeftOverRemoved` |
| `Communication` | `db_communication_gnd.py`, `db_communication_air.py`, `send_monitor` and `receive_data` | `tcp_connections`, `prev_seq_num`, the numbers of both sides, the radio, the clients' connections | `Connect`, `Request`, `Leave`, `Accept`, `ReadClient`, `RemoveClient`, `ErrorSocket`, `ReadRadio`, `UavReceives`, `RadioClears` |
| `VideoGndProofs`, `VideoLinkProofs` | theorems about the video link: one block and one call of the receiver; the transmitter and the link | | |
| `RcLinkProofs`, `ControlAirProofs`, `TelemetryProofs`, `UsbBridgeProofs`, `CommunicationProofs` | theorems about the module of that name | | |
| `PartsProofs` | theorems about `RcMessage`, `MspSerial` and `UnixServer` | | |

`PROJECT.json` maps every definition to the lines it stands for. An action is what
the code does between two points where another process, a client or the radio can
act: one call of `process_video_payload`, one packet of `transmit_block`, one round
over the RC sockets, one `read()` of a client. The operators keep the names of the
functions they model. Definitions whose comment starts with "Mutant" are plausible
bugs of the definition that follows them; no specification uses them.

## 4. Runs

| run | bounds | what it shows |
|---|---|---|
| `parts` | five parts, one per behaviour | *Block* (4 DATA, 2 FEC, every reception): enough intact FEC packets repair the block (if no FEC packet is damaged); bytes of the block before are never published; a failed repair spares what arrived intact. *Air* (packets of 3 to 5 bytes, 2 blocks, a restart): blocks hold exactly the bytes read since the one before; `read()` is never asked for 0 bytes. *Sticks* (12 positions at the edges of bytes, bit fields and range on any 2 of 14 channels): what the flight controller reads are the capped positions. *MSP* (3 messages of all versions, 1 byte of noise): without noise the messages are passed on one by one; with it only whole ones are, and the parser finds back. *Plugins* (3 for 2 slots, 2 chunks, 2 adapters): a plugin keeps its place and gets the stream since its accept. |
| `fec_choice` (violation) | same | A damaged FEC packet is used for the repair although intact ones suffice. |
| `link_diversity` | 1 interface on the UAV, 2 ground adapters, queues of 3, 3 blocks of 2 DATA and 1 FEC | Order, ownership and intactness of what is published when two adapters lose different packets and lag behind each other by up to a block; copies are counted once; a late frame changes nothing; the link implements `LossyStream`. |
| `link_faults` | 2 interfaces on the UAV, 1 ground adapter, damaged copies that claim a place of the second block, 1 restart, 3 blocks | The same across damage and restart; a noticed restart drops the old run; restarts are not invented. |
| `link_live` | 1 DATA, 1 FEC, 4 blocks, 1 restart | After a restart the stream is published again, also if nobody noticed the restart. |
| `rc_link` | 2 adapters on the UAV, 4 sequence numbers, lost and damaged frames, overwrites, 1 restart | The filter drops the second copy of a command in the lower half of the numbers; the flight controller ends with the pilot's sticks when the app is silent and the radio clear. |
| `rc_intact_copy` (violation) | 1 + 2 adapters | A damaged copy makes the intact one be dropped. |
| `telemetry` | 2 clients, 2 slots, 1 failing accept, 2 ground adapters with queues of 2, 3 bytes in chunks of 2 or 3, each sent twice, 2 sequence numbers | Chunks cover the serial stream; until a frame is late, frames are logged in order and once across the overflow; late or not, the filter drops copies only; a client in a served slot gets the log since it joined; a stored client keeps being read. |
| `telemetry_twice` (violation) | 1 adapter | Every chunk reaches the ground control station twice. |
| `usb_bridge` | messages of 1 to 3 packets, just too big, for a port nobody serves; 2 faults | Messages are routed whole, once and in order until the first fault; the buffer is never overrun; after faults the parser loses less than one message length before it finds back. |
| `usb_reconnect` (violation) | 1 unplug | After a reconnect nothing the app sends is read. |
| `communication` | 2 clients, 2 requests, 2 adapters on the UAV, 1 on the ground (2 copies of an answer), 2 sequence numbers, 1 client leaving | Until a frame is late, a request is executed once; an answer of the UAV is repeated only after a client failed; on a clear radio a request to the UAV is never lost on its way there and back. |

Each property of a passing run is paired with a mutant that breaks it under the
same configuration, so no property holds for lack of interesting states.

Why the bounds are enough. The window test compares a block number with the newest
one and with the restart window, so three or four blocks with a window of one or
two blocks (128 in the code) reach every outcome of both tests. A block of two DATA
and one FEC packets has each kind of loss (none, repairable, not repairable); the
larger blocks are the subject of `parts`. Two adapters, of the receiver or of the
sender, are the least that make copies; queues of three frames let one lag by a whole
block (`link_diversity`), queues of two let a frame of `telemetry` come after a newer one
and be followed by that one's copy. One damaged number is enough for `link_faults`: it
lies behind the packets of the first block, in the second, and before the third. The one
byte numbers are scaled from 256 to 4 (RC) and 2 (telemetry, communication), so that
they overflow; 4 has two numbers in each half of the signed byte. Two clients and two slots with a failing
accept fill the table; three plugins for two slots need a slot that was freed and
overfill the table. The parser buffers are scaled (MSP from 192 to 8 bytes, USB from
1530 bytes) to sizes that messages and their headers can reach, exceed and add up
to; the check sums keep their eight bits. In `communication` each side has sent one
message before (`Before`), so that the second message has the number that is remembered
if the first one is lost: the case of 255 frames lost in a row. Two requests are the
least for a frame that comes late. Two adapters on both sides were out of reach; with one
adapter on the ground no answer comes late there, which leaves the copies and the failing
clients to the run and the lag to the theorem.

## 5. Abstractions

* *Content* of a video packet is the run, the block and the place it was made for;
  damaged content is `Junk`. `fec_encode` and `fec_decode` are modelled by their
  contract: the DATA packets marked as erased are solved from the FEC packets given,
  and come out right exactly if all inputs are packets of one block. Bytes of the
  video stream and of the serial stream are numbered.
* *One block buffer*: `param_block_buffers` is 1 and nothing assigns it, so the list
  has one element, and the word behind it (read when a block is not found) is a
  constant chosen from `PastEndWords`. The runs use 0; the proofs exclude only the
  block size.
* *Damaged frames* (video) have a wrong frame check sequence and may show any number
  of `DamagedSeqs`. RC frames may in addition be damaged in the header only, which
  the RC checksum does not see.
* *Checksums* of the serial messages to the flight controller are a marker at their
  place; those of `MspSerial` are computed as in the code.
* *USB*: a byte is its message and its place, and no payload looks like a header. The
  app is not in the repository; it splits messages as `db_usb_write_async_zc` does.
  libusb drops its notifiers with the context (`libusb_exit`), and a lost device
  reports an error on its descriptor.
* *Communication*: frames arrive intact or not at all; each adapter receives any number
  of the copies that the sending adapters made. The types of request are those that are
  answered ("ping") and those whose handler raises ("param"). One `recv()` returns any
  number of requests and a part of the next one (`torn`); all but a single whole request is
  a corrupt message. If only the closing brace is missing, `comm_message_extract_info`
  adds it, finds no checksum behind it, and the IndexError ends the process
  (`db_comm_messages.py:370-385`). Urgent data of a client is the exceptional condition of
  `select`; its handler adds a tuple to a string and ends the process as well
  (`db_communication_gnd.py:178`).
* *Plugins*: a write to a plugin that has closed its socket ends the process, since
  `control_main_air.c` does not catch SIGPIPE. The states of the uninitialised MSP
  port in which the parser counts on from an arbitrary offset are left out.
* *Queues*: a frame waits at its adapter until the select loop takes it. In the video
  link and the remote control `MaxQueue` bounds the queue and thereby how far adapters
  drift apart; the sender waits instead of the kernel dropping frames, which loses nothing
  since every frame may be lost anyway. In `rc_link` it is 1, so that the adapters stay in
  step. In `telemetry` nobody waits: a full queue loses the frame. `Communication` has no
  bound but the number of requests.
* *Late frames*: the filters of the proxy and of both communication processes remember
  one number. Histories say which frames these numbers are of and record when a frame was
  read after a newer one (`late`, `late_up`, `late_down`) or SeqRange or more frames off the
  one it is compared with (`apart`). The properties that hold only before name them.
* *Connections*: `conn` is what a client did with its connection; `FD_ISSET(-1)`
  for a stored -1 is false, as in a build without `_FORTIFY_SOURCE`. `ServedSlots` is
  what `sizeof(&list_client_sockets) / sizeof(int)` gives: 2 in a 64 bit build, 1 in
  a 32 bit build.
* *Time*: an overwrite is fresh or older than 100 ms. A restart of the ground control
  module takes longer than that, since it waits for the joystick.
* *Left out*: pass-through mode, the outputs behind `publish_data`, packet lengths at
  the receiver, radiotap statistics, `rc_packets_cnt`, the RC protocols other than 5
  (DB-RC), MAVLink telemetry (protocols 3 and 4), the OSD fifo. The way
  from the proxy up to the UAV ends in sockets that `control_main_air.c` never puts
  into the set given to `select`, so `Telemetry` counts what is sent and stops there.

Named bounds: `MaxBlocks`, `MaxEpoch` (restarts of the transmitter), `MaxQueue`,
`MaxRestarts`, `MaxMoved`, `MaxBytes`, `MaxMessages`, `MaxFailures`, `MaxMsgs`,
`MaxNoise`, `Plugins`, `MaxCommands`, `MaxSent`, `MaxFaults`, `MaxWaiting`,
`MaxRequests`, `MaxLeaving`. Deadlock checking is off where a bound ends the behaviour
(`parts`, `telemetry`, `usb_bridge`, `communication`) or the process does (SIGPIPE, a
failed reconnect).

## 6. Fairness

* `VideoLink`: weak fairness of `Fill` (the camera keeps writing), `Transmit` (the loop
  of `transmit_block` does not wait for anybody) and `process_packet` for every adapter
  (the select loop serves each readable socket in every round). Restarts, the end of
  file and the radio becoming clear are not fair; `StreamResumes` starts from a clear
  radio. `RadioClears` is a step of `LiveSpec` only: a clear radio does nothing that any
  radio may not do, so the runs and the theorems about safety do without it.
* `RcLink`: weak fairness of `send_rc_packet` (the drivers send in a loop), of a round
  that includes each adapter with a waiting frame, of the steps of a copy that the
  status module has begun, and of a time stamp growing old. The app, the sticks, the
  restarts and the radio are free; `FcFollowsPilot` is about behaviours in which the
  app is silent, the sticks rest and the radio is clear from some point on.
* `Telemetry`: weak fairness of serving each client and each adapter: the loop of the
  proxy visits all of them. It assumes clients that take what they are sent, since
  `send()` on a blocking socket stops the loop.
* `UsbBridge` (`usb_reconnect` only): weak fairness of receiving, of noticing a lost
  device and of reconnecting; the loop polls and some module always has something for
  the app. Even so the app is not heard.
* `Communication` is checked without fairness: `NoRequestLost` is an invariant. It says
  that a request waits somewhere until the client has its answer; what waits is taken by the
  next rounds of the two loops, which nothing but the end of a process stops.

## 7. Proofs

All theorems hold for every value of the constants that satisfies the named
assumptions; the assumptions ask for positive sizes, `LenField < MinPacketLength <=
PackSize`, an even number of unsigned values larger than a block, `ReadBuf <= Spare`, for
the USB bridge that a packet fits the transfer buffer and a transfer the parser's, and
for the MSP parser that the messages of the model fit `inBuf`. Further conditions stand in
the theorem that needs them (`ASSUME ... PROVE`) and are named below. The bounds of the
runs (`MaxBlocks`, `MaxBytes`, `MaxNoise`, ...) are constants too, so the theorems hold
however large they are.

The library's theorems of induction have an operator as parameter, which the provers
cannot instantiate. Where a recursive function has to be unfolded (the selection loop, the
checksums) the modules prove, from the library's theorem that every set of natural numbers
has a least element, a form of induction that speaks of sets, and with it that the
function exists and satisfies its equation.

### Video

* *One block* (`VideoGndProofs`): `FecRepairsBlockHolds`, `NothingStalePublishedHolds`,
  `GoodDataAlwaysPublishedHolds`, for every layout and every way the packets arrive. The
  invariant of the selection loop (`LoopInv`) says that its pairs replace DATA packets that
  are lost or damaged by different FEC packets and that its counters count what is left;
  that enough are left is an argument on cardinalities.
* *One call* of `process_video_payload` (`VideoGndProofs`). `OrderInv` ties the last
  published block to the buffered one and to `max_block_num`, `OwnInv` says that the slots
  counted as correct hold packets of the buffered block, that an unused buffer is empty
  and that every published block was one of its own. The conversions between `int` and
  `uint32_t`, -1 included, are lemmas.
* *Transmitter* (`VideoLinkProofs`): `AirTypeCorrect`, `AirReadHasRoom`,
  `AirBlockCoversStream`. The property speaks of full blocks only; the inductive invariant
  `AirInv` adds how far each packet is filled depending on where the loop stands
  (`FillLevel`) and that the packets in use continue each other up to the last byte read
  (`Chained`).
* *Link* (`VideoLinkProofs`), any number of adapters:
  * `LinkTypeCorrect`, without a condition;
  * `LinkOutputInOrder`, if a block has at least two packets and the word behind the list
    is not the block size; `LinkForeignFrameIgnored`, an action property, with the latter;
  * `LinkSlotsHoldOwnBlock` and `LinkPublishesOwnBlock`, if a block has at least two
    packets and the sequence number does not overflow. They need that every frame under
    way says the truth about its block (`FrameInPlace`) and that the transmitter's number
    is the number of its block times the block size (`OwnLinkInv`);
  * `LinkLenCountsStored` without damaged frames, where the buffer and its counter change
    together (`CountedBuffers`);
  * `LinkUndamagedIsIntact` without damaged frames and restarts. `CalmInv` adds that the
    waiting frames and the slots of the buffer are of blocks of the one run, so that a block
    is complete or the selection loop has found enough packets for `fec_decode`;
  * `LinkIsLossyStream`: under these conditions every step of the link is one of
    `LossyStream` or a stutter. `StreamInv` adds to `CalmInv` and `OrderInv` that what was
    published since the last report is older than the buffered block.
* *Restarts* (`VideoLinkProofs`): `LinkRestartsCounted`, `LinkRestartDropsOldRun`, for one
  adapter, any number of restarts, losses and damages; the restart window must not be
  empty and, added to a block number, must not overflow. `RunsInv` follows a place in
  the life of the transmitter, a run and a block of it, that the receiver has reached: what
  waits comes in turn from there on (`InTurn`), the reports so far are explained by the
  restarts up to there (`ExplainedBy`, which counts the false report of the first packet),
  and what the receiver holds or published since its k-th report is of a run since the
  k-th restart (`RecentState`). With two adapters that lag behind each other frames do not
  come in turn, so the condition is needed; `link_faults` has one adapter as well.

### Remote control

* `PartsProofs`: for all stick positions the channels that are unpacked
  (`RcRoundTripHolds`), and those a flight controller reads from an MSPv2 or SUMD message,
  are the capped positions. The argument is arithmetic on one group of four channels, then
  on a channel's place.
* `RcLinkProofs`: `LowerHalfIsFiltered`, with at most two adapters on the UAV, for every
  range of the number, every damage and whatever the filter remembers: the loop over the
  adapters is unfolded, and in the lower half the signed number compares as it should.

### Telemetry

* `ControlAirProofs` holds what one step of the collection keeps, for both listeners below.
* `TelemetryProofs`: `TelemetryTypeCorrect`, `ChunksCoverSerial`, `ServedClientsFollowLog`.
  The invariant `TelemetryInv` adds to the properties that a client is in the table at
  most once and only after it was accepted, that a client not yet accepted has got
  nothing, and that no client joined behind the end of the log. Without the first, a
  client could get a frame twice; without the others, a new client's record could not
  start empty.
  `LogIsInOrder` and `NewFramesLogged` hold for any number of adapters and copies and any
  lag; each names the history it depends on (`late`, `apart`) and nothing else. Their
  invariant `FilterInv` looks at the frames that matter: the newest one sent, the one read
  last and those that wait. Of two of them less than SeqRange apart the numbers differ as
  the places do (`Distances`), so equal numbers mean the same frame. Until a frame is late,
  nothing logged is newer than the frame read last (`LogBehind`) and the log increases
  strictly (`LogStrict`): a frame that is not late and has another number is newer than
  all of it.
* *Plugins* (`PartsProofs`): `PluginsKeepPlace` for any number of plugins and slots, from
  `PlaceInv` (nobody is in two places; who was accepted is in a slot unless the table was
  too full). `PluginsGetStream` for any number of adapters, copies and ways `read()` cuts
  the stream: `ServedInv` adds where the loop over copies and adapters stands, so that a
  plugin joins between two chunks only.
* *MSP* (`PartsProofs`), for every size of `inBuf` the messages fit into and any number of
  messages:
  * `MspBufferHolds`, any noise. `BufInv` says how much of the buffer is in use in every
    state of the parser: in a header its bytes, in a payload less than the announced size,
    which was compared with the size of the buffer;
  * `MspSendsWholeMessages`, any noise. `Attempted(b, p)` relates the state of the parser
    to the bytes since the `$` of the message it is in: the sums are the sums of these
    bytes, the counters their number. With the last byte they are a message by the
    grammar. `SentInv` adds that the bytes kept by the loop end in such an attempt;
  * `MspCutsCleanStream`, without noise. `CutInv` says that the bytes kept and the bytes on
    the line make up the message being sent, and that all before it were sent on. A
    message the parser has room for is never given up (`CleanStep`), since every check
    along it finds the byte the flight controller computed;
  * `MspFindsBack`, one noisy byte (or a start within a message) and payloads without a `$`.
    The bytes of the swallowed messages are counted as a set (`FcBytes`). `Goes` says what
    the parser can make of the rest of the damaged message: any header it is in or may
    still begin ends within that rest, but for one of V2 that lacks at most two bytes of
    its size. It needs that the messages are `Sturdy`: a lost or changed byte does not make
    a header announce a V2 message inside a short V1 one. Then, over whole messages
    (`Back`), the parser gives a begun header up at the `$` or the letter behind it
    (`OutOfHeader`); or waits for a payload or a checksum, and all bytes since are in its
    offset, which never exceeds `inBuf` (`Eats`); or has given up within a message; or is in
    step again (`BackInStep`). `BackReads` leads from each of them to another with
    every byte. The theorem assumes `InBufSize < 256 * Dollar` (192 in the code): a larger
    `inBuf` would have room for a size whose high byte is the `$` of the next message, and
    the bytes of that message the header took would not be in the offset.

### USB bridge and communication

* `UsbBridgeProofs`: `UsbTypeCorrect`, `UsbNoOverrun`. `UsbInv` adds that no packet
  under way is longer than the transfer buffer (`PacketsFit`) and that a payload is
  awaited only after its size was found good (`AwaitedFits`): a header packet then
  writes at most a transfer's worth to the start of the buffer, and later packets are
  copied only up to the announced size. What an abandoned message left counted in
  `buff_size` needs no bound.
  `UsbRoutedInOrder` needs that the length of a packet fits the parser's `unsigned short`.
  `InOrderInv` says that the packets under way are those of the last messages in order, and
  that the parser holds exactly what came before the first of them.
  `UsbFindsBack`: after any faults the messages lost, but for the last of them, hold fewer
  bytes than the largest payload. It counts the bytes of the lost messages as a set
  (`BytesOf`), whose size the library's theorems bound. `PhaseInv` says what the parser may
  be doing when the i-th packet of a message is next: it still waits for a payload from
  before the fault, and all that was lost since is in its fill level (`Swallows`); it is in
  step with the app (`InStep`); a pulled cable left `usb_parser_buff_size` above zero, which
  `db_usb_reconnect` does not reset (`Stale`), and a long message adds to that (`Overfull`),
  but then nothing has been lost yet; or it gave up within the message (`Skips`). Each phase
  leads to another with every packet (`PhaseNext`). `QueueSince` says that behind the last
  fault the packets wait in order, `FillBound` that every fault leaves at most one more
  payload counted. The theorem assumes `MaxPayload * (MaxFaults + 1) < UshortRange`: with the
  1530 bytes of the code up to 41 faults without a message in between that resets the
  counter. Beyond that the `unsigned short` may wrap while a payload is awaited.
* `CommunicationProofs`: `RequestsExecutedOnce`, `AnswersSentOnce`, for any number of
  clients, adapters, copies and requests, any lag and every overflow. `CommInv` says for the
  way up that a request waits at one place and leaves its connection before it is sent
  (`TodoOnce`, `TakenFirst`), that frames under way with the same place or request are
  copies and those of the frame read last have the remembered number (`UpCopies`), and that
  until a frame is late what is left of executed requests is not newer than the frame read
  last (`DoneRead`): `receive_data`, which returns a frame only if it differs from the one
  read before it, then returns one that is newer (`PickFacts`). For the way down it says
  the same of the answers (`DownCopies`) and that an answer that went to all clients is not
  newer than the remembered one (`FullRemembered`).

### Only model-checked

The liveness properties (`StreamResumes`, `FcFollowsPilot`, `StoredClientRelayed`) are out
of the prover's reach: fairness and `ENABLED`. `NoRequestLost` is only model-checked too. Every
other invariant and action property of the passing runs is stated by a theorem, some
under the conditions named above. The four runs that expect a violation have nothing to
prove.

## 8. Where the code and its comments disagree

With a run (see `findings`): the choice of damaged FEC packets
(`video_main_gnd.c:305`), the filter that remembers the number of a damaged command
(`control_main_air.c:503`), the copies of a telemetry chunk under different numbers
(`control_main_air.c:603`), the descriptors of a reconnected USB device
(`usbbridge_main.c:538`).

Met while modelling, without a run of their own:

* The first packet after the start of the receiver is counted as a restart of the
  transmitter (`video_main_gnd.c:200`: -1 compares as the largest unsigned number);
  `RestartsCounted` allows for it.
* `packet_buffer_len` counts a damaged packet again when a copy replaces it
  (`video_main_gnd.c:399`), so a block may be decoded before it is complete;
  `LenCountsStored` is checked without damaged frames.
* A frame of a block that is not buffered makes the handler read one element behind
  the block list (`video_main_gnd.c:403`). If the word equals the block size, the
  buffered block is published early; `PastEndWords` excludes this.
* 2^32 is no multiple of the default block size 12, so after an overflow of the
  sequence number every packet is filed at a wrong place.
* From number 128 on the RC filter compares a negative `int8_t` with a `uint8_t` and
  passes every copy (`control_main_air.c:502`); `LowerHalfFiltered` says so.
* `generate_msp` (MSPv1) puts the channels at byte 8 behind a header of five bytes and
  the checksum over the last but one channel (`rc_air.c:93`).
* `shm_rc_overwrite->ch > 0` (`rc_ground.c:283`) tests the address of the array: while an
  overwrite is valid every channel is taken from the app, and one it did not set is sent
  as 1000, although the function "Looks for channels to be overwritten by an external
  app" (`rc_ground.c:271`).
* A plugin gets every chunk once per adapter (`control_main_air.c:605` stands inside the
  loop over the adapters), and one that leaves may end the process by SIGPIPE.
* A parameter or section request ends the communication process of the side that
  handles it (`db_comm_messages.py:85` passes the id where the message is expected).
* The filters remember one number, so an adapter that lags by a frame defeats them. If the
  UAV reads request 2 from one adapter and then the copy of request 1 from the other, it
  executes request 1 again, although `DroneBridge.py:201` says "Only return data that was
  not returned before (diversity)"; the same happens to answers behind
  "Prevent processing of the same message received over different network adapters"
  (`db_communication_gnd.py:171`) and to telemetry (`proxy_main.c:268`), whose chunks are sent
  twice in a row and are logged as n + 1, n, n + 1. `ExecutedOnce`, `AnswerSentOnce` and
  `LogInOrder` hold until the first late frame, and the models reach such frames.
* After 255 frames lost in a row the next one has the number that is remembered and is
  dropped as a copy (`DroneBridge.py:201`, `proxy_main.c:268`): `NoRequestLost` and
  `NewFrameLogged` exclude it by `apart`.
* A request that `recv()` cuts in two is answered by an error for either part, and ends
  the process of the ground station if the cut is before the closing brace; so does
  urgent data (see section 5).
* A client that was reset keeps later clients from getting an answer, and earlier ones
  get it once per adapter (`db_communication_gnd.py:121`).
* The parser does not compare the size of an MSPv1 message with that of the V2 message
  inside it (`msp_serial.c:125`): a message whose two sizes contradict each other is
  accepted if its checksums are good. A failed proof showed it; `WellFormed` allows for it,
  as the bound on noise in `parts` is too small to make such a message.
* A failed MSP message that is directly followed by the next one is sent to the ground
  in front of it (`control_main_air.c:547`).
* A client of the proxy behind the first slots never gets telemetry
  (`tcp_server.c:73`), and a reset connection ends the proxy (`proxy_main.c:303`).

## 9. Not modelled

MAVLink parsing and messages are a generated library; the legacy video programs and the
vendored MAVLink headers, most of the repository's lines, are used by none of the modules
above. The UNIX server of `video_main_air.c` is left out: it accepts a client at the top of
the loop (303-318), writes what was read from stdin to all of them (338), and after each
finished packet reads a byte of every client and frees those that left (363-373). Its table
and its accept loop are those of `UnixServer`; its sockets do not block. Of the status module only the RC overwrite is modelled:
the rest copies counters from shared memory to its clients. Of the USB bridge the
sockets to the other modules and the transfers to the app are left out, of the
communication module what a request does to the settings files. The syslog server
repeats the client table of the proxy. `count_lost_packets` has no caller. Recorder, OSD,
example plugins, splash screen, players and injection test copy or draw data and keep no
protocol state. The start-up scripts configure and start processes. Galois field
arithmetic (`fec.c`, `gf256.cpp`) is replaced by the contract of the code.
