# ThingSet Zephyr SDK: a verification project

TLA+ models of the parts of the SDK in which concurrency, failures or ordering decide whether
the code is right, TLC configurations that check them on small instances, and TLAPS proofs of
most of the safety properties for every value of the constants. Every definition that stands for code is tied to its lines in
`PROJECT.json` ("map"); definitions keep the names of the source where there is one.

Contents: [1 The system](#1-the-system) · [2 Modules](#2-modules-and-how-they-correspond-to-the-code) ·
[3 Runs](#3-runs) · [4 Bounds](#4-bounds) · [5 Fairness](#5-fairness) · [6 Proofs](#6-proofs) ·
[7 Known deviations](#7-known-deviations) · [8 Not modelled](#8-not-modelled) · [9 Plan](#9-plan)

Run a configuration with `tlc -config IsoTpSend_safety.cfg MCIsoTpSend`, the proofs of a
component with `tlapm IsoTpSendProofs.tla` (likewise the other `*Proofs` modules).

## 1 The system

The SDK connects a ThingSet node (an external library that turns request bytes into response
bytes and exports reports) to transports and to storage. All components share one transmit
buffer (`thingset_sdk_shared_buffer`, a buffer with a semaphore) and two work queues: Zephyr's
system work queue and the SDK's own.

| Component | State | Operations | Meets the others through |
|---|---|---|---|
| ISO-TP sender (`isotp_fast.c`) | per target: context with state, `rem_len`, `sn`, `bs`, `wft`, `stmin`, timer, semaphore, work item; slab of contexts | `isotp_fast_send`, `send_state_machine` on the system work queue, `send_process_fc` (rx interrupt), `send_can_tx_callback` (tx interrupt), timer | CAN driver; `sent_callback` |
| ISO-TP receiver (`isotp_fast.c`) | per peer: context with state, `sn_expected`, `bs`, `rem_len`, `wft`, buffer chain; slab and pool | `receive_can_rx` (interrupt), `receive_state_machine` (system work queue), timer | FC frames; `recv_callback`, `recv_error_callback` |
| CAN address claiming (`can.c`) | address, event object, init timer, delayable work, filters | the loop of `thingset_can_init_inst`, discovery and claim callbacks, claim work | the other nodes, by frames |
| CAN reports (`can.c`) | publisher: semaphore, message number, sequence; subscriber: a pool of reassembly buffers | `thingset_can_send_report_inst`, `thingset_can_report_rx_cb`, `..._tx_cb` | frames; the shared buffer |
| CAN requests and responses (`can.c`) | one slot: callback, peer id, timer, semaphore | `thingset_can_send_inst`, `..._reqresp_recv_callback`, `..._sent_callback`, `..._timeout_handler` | ISO-TP callbacks on the system work queue; the shared buffer |
| EEPROM storage (`storage_common.c`, `storage_eeprom.c`) | one or two sections (header with version, length, CRC; data); `save_allowed`, queued work | load at boot with retries, queued, forced and periodic save | the shared buffer; power supply |
| Flash storage (`storage_flash.c`) | one NVS record | load, save | the shared buffer |
| Serial (`serial.c`) | `rx_buf`, `rx_buf_pos`, `discard_buffer`, `rx_buf_lock` | rx interrupt, processing work, reporting | SDK work queue; the shared buffer |
| Bluetooth and packetizer (`bluetooth.c`, `packetizer.c`) | connection, subscription flag, `rx_buf`, escape state, `rx_buf_lock` | GATT write and connection callbacks, processing, reporting and advertising work, `packetize`, `reassemble` | SDK work queue; the shared buffer |
| WebSocket (`websocket.c`) | `sock`, `websock`, open descriptors | connection thread, reporting work | `websock`; the shared buffer |
| LoRaWAN (`lorawan.c`) | device nonce, in RAM and stored | join thread, save work, reporting | storage; the shared buffer |
| DFU (`dfu.c`) | `dfu_initialized`, image block in RAM, image slot | `xInit`, `xWrite`, `xBoot`, reboot work | ThingSet functions; restarts everybody |
| SDK core (`sdk.c`) | shared buffer, node id, work queue, live/summary reporting | initialisation, report work | everyone |
| Shell, logging backend, auth, WiFi | - | adapters | - |

What is hard in it, and therefore what the properties are about (the full list, with lines, is
"hazards" in `PROJECT.json`):

* **Interrupts inside work handlers.** ISO-TP's state is written by the rx interrupt, the tx
  interrupt, timers and the work queue with no lock. `send_state_machine` calls `can_send`
  *before* it writes the next state, so the callback of that very frame may come in between.
* **Contexts that outlive their transfer.** Contexts come from slabs; callbacks, queued work
  and timers keep pointers to them.
* **Flow control counted on both sides**, in 8 bits, by different actors.
* **A bus that loses frames and nodes that give up**, against reassembly by sequence number
  modulo 16 (ISO-TP and reports).
* **Timeouts racing late events**: the report semaphore, the claim timer, the request timer.
* **One lock taken in one thread and given in another** (shared buffer), partly on the work
  queue whose progress the holder needs.
* **Power failure between the writes of a save**, before the nonce of a join is stored, or in the
  middle of a firmware update.
* **Buffers handed from an interrupt to a work queue by a semaphore** (serial, Bluetooth) while
  more characters or packets arrive.
* **Every call of a connection set-up may fail**, each with its own way back (WebSocket).

What makes each part correct: a message is delivered whole, once and in order, or not at all;
every accepted message is reported; what a transfer takes from slab and pool it gives back; the
sender keeps to the peer's block size; nodes end up with different addresses; a node that starts
finds the last save or one begun since; the request callback is called exactly once; the shared
buffer has one user; a request is processed whole or not at all, on every interface, and every
request of a host that waits is processed; an upgrade is requested for a whole image only; a node
that lost its connection connects again, and one that restarted joins its network again.

## 2 Modules and how they correspond to the code

| Module | What it models |
|---|---|
| `IsoTpFrames` | Frame capacities (`CAN_MAX_DLEN` and the PCI bytes), the segmentation of a message as a reference definition, 8-bit arithmetic |
| `IsoTpSend` | The sender: `sctx` (contexts by target), `wq`/`cur` (queue and thread of the system work queue), `mbox` (controller) |
| `IsoTpRecv` | The receiver: contexts in slab *blocks* with the slab's real free list (`head`, `link`), the pool, `wq`/`cur`, peers as environment |
| `MsgTransfer` | The abstract specification: messages are accepted, handed over, delivered in order and reported |
| `IsoTpLink` | Extends `IsoTpRecv` and puts a real sender (`IsoTpSend`, instantiated as `Sender`) in the place of its peer, over one bus; the refinement mapping to `MsgTransfer` (`Transfer`) |
| `CanAddrClaim` | The claiming loop on several nodes; `k_event` as a set of events |
| `CanReport` | Publisher threads, controller and the subscriber's reassembly |
| `CanReqResp` | The request slot and the shared buffer on one node; ISO-TP by what it promises |
| `Storage` | EEPROM sections unit by unit and the NVS record, load, save, power failures, write errors, disturbed reads |
| `SdkCore` | What the interfaces of a node share: the buffer with its lock, `thingset_workq` with its thread and delayable work; the live and control reporting handlers of `can.c` |
| `Serial` | Receive interrupt, processing and reporting work, host |
| `Packetizer` | `packetize` and `reassemble`, byte by byte |
| `Bluetooth` | Connection and GATT callbacks, processing, reporting, advertising; phone |
| `Websocket` | Connection thread, reporting work; server |
| `Lorawan` | Join thread and the saving of the nonce; network |
| `Dfu` | The three functions and the reboot; clients, flash |
| `SdkNode` | The seven modules above on one node, restarts |
| `MC*` | Instances: sets of environments and model values |
| `IsoTpSendProofs`, `IsoTpRecvProofs`, `IsoTpLinkProofs`, `StorageProofs`, `SdkNodeProofs`, `CanReqRespProofs`, `CanAddrClaimProofs`, `CanReportProofs` | Theorems about the module named; `SdkNodeProofs` also about the parts of `SdkNode`: buffer, serial, packetizer, Bluetooth, DFU (section 6) |

Conventions:

* A handler is one action unless something can get in between. It is split exactly at
  `can_send` (interrupt of that frame may run), at blocking semaphores and where the slot of a
  request is reset store by store. `cur`, `pc` or `fin` says where a thread is. Interrupts run
  between any two such steps if the fault `preempt` is allowed, otherwise (`IsrAllowed`) only
  when no handler is half way: a work handler is short compared with a frame on the bus.
* Faults are parameters (`Faults`, `Envs`; in `IsoTpRecv` an environment is a record with the
  peers, their messages, the faults and the block size; in `SdkNode` a set of features). A property that holds only without some fault names
  it in its statement, and [section 7](#7-known-deviations) says what happens with it.
* A message is a number, its data `[msg, off, n]` pieces: which bytes of which message. Report
  data is `<<report, offset>>` chunks. EEPROM data is two units of values `v0`..`v2` or garbage.
* `Faults` of `IsoTpSend`: `preempt` (tx interrupt inside the handler), `sendfail` (`can_send`
  refuses), `txerr` (transmission reported as failed), `slowtx`, `latefc`, `strayfc` (FC frames
  out of place), `busy` (a second message to a target in progress). Of `IsoTpRecv`: `loss`,
  `abort` (peer gives up and starts anew), `b2b` (next message before the last one was handled),
  `fcfail`, `fctxerr`, `preempt`, `slow` (the timer expires early). Features of `SdkNode`: the
  interfaces (`serial`, `bt`, `ws`, `lora`, `can`, `dfu`), options (`crc`, `enforce`, `gateway`,
  `reports`) and what happens around it (`noise`, `stream`, `prompt`, `long`, `drop`, `hard`,
  `stall`, `tight`, `power`, `flash`, `rivals`, `resend`, `flushfail`), explained where each is used.

Uninitialised memory is a choice: a context fresh from the slab has `wft \in NoInit`.

*Sender.* `SendSf`, `SendRefused` and `SendMulti` are `isotp_fast_send`; `WorkSendFf`/`FinishFf`,
`WorkSendCf`/`FinishCf`/`TakeSem`, `WorkWaitSt`, `WorkFinish`, `WorkNothing` the cases of
`send_state_machine`; `TxDone` the tx callback; `FcRx` the rx interrupt; `Timeout` the timer.
History: `out` (frames handed over), `acked`, `report`, `window` (what the peer still
allows), `waits`.

*Receiver.* `FrameRx` is `receive_can_rx` up to queueing the work; `WorkSf`, `WorkFf`,
`WorkFfTooLong`, `WorkTryAlloc`, `WorkSendWait`, `FinishFc`, `WorkErr`, `WorkRecycle` the cases of
`receive_state_machine`, each with the fall-throughs of the `switch`; `PeerStart` and `PeerCf`
are senders that follow ISO 15765-2. `free_recv_ctx` links a block at the head of the free list,
also one that is there already: what the double free does is computed, not assumed. When a block
in use is handed out again `rx.aliased` is set and the model stops.

*Link.* A frame leaves one controller and enters the other node's interrupt in one step. The
timers of the protocol expire only when the link is quiet (they are 1 s, a frame well below 1 ms).

*Storage.* `Init`/`LoadSection` are `thingset_storage_load` with its attempts, `Queue`,
`SaveQueued` and `Autosave` the work items, `SaveStart`, `WriteUnit` and `WriteError` the save,
one EEPROM write at a time, `PowerFailure` a write cut short and a restart. Reads may be
disturbed (`noise`). In a flash build the one record is replaced as a whole (`FlashLoadOk`,
`FlashWritten`).

*SDK core and node.* `lock` and `buf` are `sbuf`, `wq` the queue of `thingset_workq`, `timers` the
delayable items whose delay runs (`Expire`), `cur` the handler its thread is in: which work item,
at which statement, for which job. A handler is split where it takes the lock, where it has filled
the buffer and where it sends. `ReportBegin`, `Fill`, `ReportSend` are the three parts that the
reporting handlers of serial, Bluetooth, WebSocket and CAN have in common; `ControlBegin` and
`ControlCopy` are the control handler, item by item. Live reporting and control can be switched
off by a request, therefore each run of a handler chooses. `SdkNode` says that a step of one
interface leaves the others alone, and `Reboot` resets all that is not stored.

*Serial.* `SerialRx` is one character through `serial_rx_buf_put`, possibly turned into another
one or a line end (`noise`); `SerialProcess`, `SerialFill`, `SerialSend`, `SerialOut` are the
processing work. A request is a line of characters `<<line, position>>`; the checksum is a
character that names the line it was computed for. Every second line begins with a typing error and a
backspace.

*Bluetooth.* `BtConnect`, `BtDisconnect`, `thingset_bluetooth_ccc_change`, `BtRx` are the
callbacks, `BtProcess` to `BtOut` the processing work with one action per packet sent, `Advertise`
the advertising work, which may fail. The phone uses the same `packetize` and `reassemble`.

*WebSocket.* `Resolve`, `OpenSocket`, `Connect`, `Upgrade`, `Recv`, `WsFill`, `WsSend`, `Sleep` are
the calls of the thread, each of which may fail while `faults` allows; `WsReport` is the reporting
work. There are two descriptors, as many as one connection needs.

*LoRaWAN.* `LoraStart`, `JoinFails`, `JoinOk` are the join thread, `SaveBegin`, `SaveFill`,
`SaveWrite` the save of the nonce on the work queue. The network refuses a nonce that is not
greater than the last it has seen.

*DFU.* `thingset_dfu_init`, `thingset_dfu_write`, `thingset_dfu_boot` are the functions behind
`xInit`, `xWrite`, `xBoot`, with `flash_img`'s block in RAM (`buf`) and the slot. They run inside
ThingSet's processing of a request, so they need the shared buffer to be free.

*Reports.* `SendFrame`, `SendEagain`, `SendError`, `SemTaken`, `SemTimeout` are the loop of
`thingset_can_send_report_inst`; `FrameOnBus` runs the tx callback and the subscriber's rx
callback.

*Claiming.* `SendDiscovery` to `AddFilter` are the loop of `thingset_can_init_inst`,
`DiscoveryOnBus`/`ClaimOnBus` the frames with the callbacks of all nodes that hear them,
`ClaimWork` the delayable work, `Collision` two equal identifiers on the bus, which raises the
transmit error counters.

*Requests.* `TakeSlot`, `SendShort`/`SentShort`, `SendLong` are `thingset_can_send_inst` with and
without the callback running inside it, `TransferEnds` the end of a long transfer on the work
queue, `ReceiveResponse`, `ReceiveRequest`, `TakeBuffer`, `RespondShort`, `RespondLong`,
`NoResponse`, `GiveBuffer` the receive callback, `ReportTakes`/`ReportGives` a publishing thread.

## 3 Runs

| Run | States | Shows |
|---|---|---|
| `send_safety` | 55,024 | With tx interrupts inside the handler and `can_send` failing, and every legal FC answer: frames are the segmentation (`FramesInSequence`), the block size is kept (`FlowControlRespected`), the sender waits for FC only when one is owed (`WaitsOnlyForOwedFc`), freed contexts are at rest (`FreedIsIdle`), `sent_callback` comes at most once (`ReportedOnce`) and `OK` means every frame was transmitted (`OkMeansTransmitted`) |
| `recv` | 139,912 | One peer in five environments from no fault to all, three peers for two contexts, two peers that come back: no mixed, truncated or repeated message (`DeliveredWhole`), slab and pool are conserved (`ResourcesConserved`), a reception that has begun ends (`EveryReceptionEnds`), without faults everything is delivered (`EveryMessageDelivered`) |
| `link` | 61,280 | On a bus without and with loss the composed code implements `MsgTransfer` (`ImplementsTransfer`: in order, once, whole, and without loss `OK` only for what was handed over) and completes it (`TransferCompletes`). Each side is the environment the other module assumes (`EachSideAsAssumed`: the composition implements the specifications of `IsoTpSend` and of `IsoTpRecv`), which justifies the environments of the two modules |
| `storage` | 729,010 | Five builds, EEPROM and flash: one cut-short write leaves a valid section (`SurvivesPowerFailure`); a node starts from one save or its defaults as a whole (`LoadIsAllOrNothing`); `INHIBIT_OVERWRITE` is obeyed (`OverwriteInhibited`); data reaches the memory unless failures never cease (`UpdatesReachStorage`) |
| `sdk_node` | 161,517 | Twenty-four nodes. The shared buffer holds what its user put there until it is sent (`BufferOwn`). Serial: a request is a whole line (`SerialLinesWhole`), a spoilt line costs no other (`SerialRecovers`), every request of a host that waits is processed although reports and other interfaces compete for buffer and work queue (`EveryRequestServed`). Bluetooth: requests and answers are reassembled as sent (`BleRequestsWhole`, `BleAnswersWhole`). WebSocket: connected again whatever failed (`WsReconnects`). LoRaWAN: one mishap with the nonce is made up for (`LoraJoins`). DFU: only a whole image is requested (`UpgradeWhole`) |
| `report_faults` | 207,532 | Lost, refused, late and failing frames: `DeliveredWhole`; order on the wire (`OneFrameInFlight`); a disturbance costs at most one further report (`RecoversAfterOneReport`); without faults all arrive (`EveryReportDelivered`) |
| `claim_buses` | 33,977 | Four buses: nodes switched on one by one get different addresses (`UniqueAddresses`); a node in operation never loses its address to a newcomer, however many come at once (`OwnersKeepTheirAddress`); a node works only under an address it announced (`DoneMeansClaimed`); every node gets one (`EveryNodeGetsAnAddress`); the timeout ends initialisation (`InitIsBounded`) |
| `reqresp` | 253,478 | Seven uses of a node: the shared buffer's lock is sound for servers (`BufferLockSound`), long requests without timeout are called back once (`CalledOnce`), a lone request with a timeout is called back (`EveryRequestCalledBack`), servers with one-frame responses handle every message (`EveryMessageHandled`) |
| `recv_error_delivers` | violation | Finding: the error path delivers a released buffer |
| `response_lost` | violation | Finding: the response does not reach the callback of its request |
| `no_valid_section` | violation | Finding: two interrupted saves leave no valid section |
| `packet_overrun` | violation | Finding: `packetize` writes one byte beyond the packet |

Deadlock checking is off: workloads are bounded, and a system that has done its work may stop.
That something stops *too early* is what the liveness properties are for.

## 4 Bounds

The real frame holds 8 or 64 bytes, the sequence number has 4 bits, block sizes 8. The instances
shrink all of them in proportion, so that wrap-around and block ends happen within a few frames.

* **Sender:** frames of 4 bytes, `SN_MOD` 4, `BYTE` 8; one target; lengths 3, 7, 12, 13 (one,
  three and five frames - the sequence number wraps - and one above `MAX_LEN`, refused); two
  messages, one stray FC; own `bs` 2, peer's BS 2 or 3, STmin 0 or 1; `WFTMAX` 1; one context.
  The proofs cover all values.
* **Receiver:** two contexts, a pool of six buffers (three for each). One peer with three messages of one or five frames,
  bs 2, or 0, where a message of five frames is refused as too long; with faults the pool runs out; three peers with one
  message each, or two with two, of one or three frames, bs 1. Messages are short enough not to
  wrap the sequence number and be given up at the same time; a peer is assumed `Settled` (its
  last frame was handled) when it gives up and starts again, as the 1 s timeouts ensure.
* **Link:** three messages of 3, 9 or 12 bytes, bs 2; one bus without, one with loss.
* **Storage:** three values, two data units and a header per section, two load attempts, two
  updates, two failures between complete saves, one disturbed read.
* **Reports:** one publisher, frames of 2 bytes, a buffer of 6, reports of 0, 1, 5 and 9 bytes
  (9 does not fit), three reports, one fault. `SEQ_MOD` 5 is larger than the frames of a report:
  in the code 16 frames are at most 128 bytes, see the deviations for longer reports.
* **Claiming:** three nodes, addresses 1..4, everybody starts with 1; one restart.
* **Requests:** two requests, two incoming, two peers, one report.
* **Node:** one work thread as in the code; two control items. Serial: lines of two, one and two
  characters with checksum and typing errors in an `rx_buf` of 5, or a first one of four, which
  with its checksum does not fit; one disturbed character. Bluetooth: packets of 4 bytes, requests `abc` (its end
  marker goes into a packet of its own), `x END y` (an escape) and `pqrst` (data in two packets); one lost connection.
  WebSocket: two failing calls, two requests, heap for three address lists if `tight`. LoRaWAN:
  two mishaps between completed saves. DFU: an image of three chunks with blocks of two (full
  and partial blocks), two faults, two clients. Two power failures. The
  environments combine at most three interfaces: what they share is buffer and queue, which two
  competitors already contend for.

## 5 Fairness

* Work queue threads, initialisation threads, CAN controllers and kernel timers: weak fairness.
  Zephyr runs a ready thread, a controller not in bus-off sends what it has, an armed timer expires.
* `IsoTpRecv`: a peer that may send goes on (a peer that stops is the fault `abort` or `loss`).
  `IsoTpSend` assumes nothing of peer or application.
* `CanAddrClaim`: strong fairness of `FreshAddr` (the random generator does not name occupied
  addresses for ever) and of `SendDiscovery` (`can_send` does not fail for ever). `BusOffSpec`
  drops the latter; `InitIsBounded` then fails (section 7).
* `CanReqResp`: strong fairness of `TakeBuffer`: `k_sem_give` hands the semaphore to a waiter.
* `Storage`: the autosave period elapses again and again.

* `SdkNode`: the thread of `thingset_workq`, the host that has more characters to send, the
  WebSocket thread and the LoRaWAN thread run. Fairness is stated of their steps that meet no
  fault: no failure, lost connection, power failure, expiry of a reporting period or action of a
  phone or DFU client ever has to happen. What a call returns is not chosen by the node, but failures are bounded
  (`MaxNetFaults`, `MaxMishaps`): the properties say what happens once they cease.

`send_safety` uses `Spec` without fairness: it checks safety only.

## 6 Proofs

Each `*Proofs` module extends the module it is about. Its theorems hold for every value of the
constants that satisfies the named assumptions of the modules (`SendAssumptions`,
`FrameAssumptions`, `StorageAssumptions`, `DfuAssumptions`, ...: types and ranges; `SerAssumptions`
also says that the requests of `SerLines` fit into `rx_buf`, and that `ENFORCE_CRC` depends on
`USE_CRC`, `Kconfig.serial:25`; `BtAssumption` that a packet has more than two bytes - ATT leaves at least
20 - and that messages are `Carried`, see section 7; `LinkAssumptions` that node b is the one of `Links`): any
number of peers, nodes, messages or restarts, any message length, frame size, block size and
counter width, any combination of interfaces and every subset of the faults. Where a theorem
needs a condition, the condition is a definition of its own, named in the second column. Faults
that a property names in its own statement are not repeated.

| Theorem | Condition | States | Inductive invariant |
|---|---|---|---|
| **`IsoTpSendProofs`** | | | |
| `TypeCorrect` | | `TypeOK` | itself: no 8-bit field overflows its width |
| `FreedContextsIdle` | | `FreedIsIdle` | with `TypeOK`: `free_send_ctx` leaves RESET with the timer stopped, only `get_send_ctx` leaves RESET |
| `FlowControl`, `NoSelfInflictedTimeout` | `BlockSizesUsed` | `FlowControlRespected`, `WaitsOnlyForOwedFc` | `FlowInv` |
| `EachIsReportedOnce` | `NoStrays` | `ReportedOnce` | `ReportInv` |
| `FramesAreInSequence` | `OrderedUse` | `FramesInSequence` | `OrderInv` |
| `OkIsTransmitted` | `CleanUse` | `OkMeansTransmitted` | `OrderInv`, `ErrInv`, `PaceInv`, `OkInv` |
| **`IsoTpRecvProofs`** | | | |
| `TypeCorrect` | | `TypeOK` | `TypeInv` |
| `ResourcesAreConserved` | | `ResourcesConserved` | `ConserveInv` |
| `WholeWhileInOrder` | `[]Orderly` | `DeliveredWhole` | `DeliverInv` |
| `WholeOneByOne` | `OneByOne` | `DeliveredWhole` | `DeliverInv`, `SameMsgs` |
| **`IsoTpLinkProofs`** | | | |
| `LinkInvariant` | | `LinkInv` | itself: `SendType`, `TypeInv`, `SenderInv`, `ReceiverInv` |
| `SenderAsAssumed` | | `Sender!Spec`: the receiver is a peer as `IsoTpSend` assumes it | `LinkInv` |
| `SidesAsAssumed` | `Lossy` or `MessagesFit` | `EachSideAsAssumed` | `LinkInv`, without loss `InStep` |
| `InStepAlways` | `~Lossy`, `MessagesFit` | sender and receiver are at the same frame of the same message | `InStep` |
| `LinkImplementsTransfer` | `Lossy` or `MessagesFit` | `ImplementsTransfer` | `LossyInv`, `ToldOnce`; without loss `InStep`, `Got`, `Told` |
| **`StorageProofs`** | | | |
| `TypeCorrect` | | `TypeOK` | itself |
| `OverwritesOnlyWhatItLoaded` | | `OverwriteInhibited` | `OverwriteInv` |
| `PowerFailureIsSurvived` | | `SurvivesPowerFailure` | `SaveInv`, `CopiesInv` |
| `LoadsAllOrNothing` | | `LoadIsAllOrNothing` | `RecentInv`, `DefaultsInv`, `HalfImportInv` |
| **`SdkNodeProofs`** | | | |
| `BufferIsOwned` | | `BufferOwn` | `BufferInv` |
| `UpgradesWhole` | | `UpgradeWhole` | `DfuInv` |
| `SerialWhole` | | `SerialLinesWhole` | `SerialInv` |
| `SerialSpoilsNoOther` | | `SerialRecovers` | the same |
| `PacketsCarry` | `Carried` | `reassemble` of the packets of `packetize`, one by one, gives the message with the last packet and not before | induction over bytes |
| `BleRequestsAreWhole` | | `BleRequestsWhole` | `PhoneInv` (`RequestInv`) |
| `BleAnswersAreWhole` | | `BleAnswersWhole` | `PhoneInv` (`AnswerInv`) |
| **`CanReqRespProofs`** | | | |
| `TypeCorrect` | | `TypeOK` | `TypeInv` |
| `BufferLockIsSound` | | `BufferLockSound` | `ServerInv`, `ExclusiveInv` |
| `EachIsCalledOnce` | | `CalledOnce` | `OnceInv` |
| **`CanAddrClaimProofs`** | | | |
| `TypeCorrect` | | `TypeOK` | `TypeInv` |
| `ClaimedWhenDone` | | `DoneMeansClaimed` | `OwnClaimInv` |
| `OwnersAreSafe` | | `OwnersKeepTheirAddress` | `AnswerInv` |
| `AddressesAreUnique` | | `UniqueAddresses` | `AnswerInv`, `SoloInv` |
| **`CanReportProofs`** | | | |
| `TypeCorrect` | | `TypeOK` | `TypeInv`, `RangeInv` |
| `OneAtATime` | | `OneFrameInFlight` | `FlightInv` |
| `WholeWhileRecent` | `SequenceSuffices`, `[]Recent` | `DeliveredWhole` | `WholeInv` |
| `ReportsAreWhole` | `SequenceSuffices`, `MaxReports <= MSG_MOD` | `DeliveredWhole` | the same |
| `OneReportIsEnough` | `EnoughBuffers` | `RecoversAfterOneReport` | `RecoverInv` |

Why the properties are not inductive themselves, and what the invariants add:

* *Flow control.* `FlowControlRespected` speaks of the peer's `window`, and nothing in it says
  why the sender, which counts its own `bs`, agrees. `FlowInv` says that `bs` equals the window
  wherever the state machine may send, except between `can_send` and `bs--` (program point `cf`),
  where it is one ahead; that in `SEND_FF` and `WAIT_FC` the window is closed; and what each
  program point implies for the state, so that an error, timeout or FC arriving in the middle of
  a handler is covered.
* *Reports of the sender.* `ReportInv` ties the number of reports to the state: a message has
  been reported exactly when its context has gone back or belongs to a later message.
* *Order.* `OrderInv` relates `rem_len` and `sn` of a context to the frames handed over, also
  inside the handler, where the frame has gone but the fields are not updated. The lemmas `SegNext`,
  `SegLast`, `CfIsNext` and `FfIsFirst` state what the segmentation is as a function of what is
  left; this is where the sequence number modulo `SN_MOD` and the length of the last frame enter.
* *Meaning of OK.* `OkInv`: the frames handed over split into those acknowledged and those still in
  the mailbox; `backlog` counts the latter modulo `BYTE`; a mailbox never holds frames of two
  messages whose acknowledgements could be confused (`Apart`). That the count does not wrap
  unnoticed follows from `PaceInv`: while a context sends, there are never more than two of its frames
  in the controller, because of the semaphore in the loop or, with a separation time, because only the
  callback of the last frame queues the state machine.
* *Types of the receiver.* Timers, queued work and flow-control frames keep naming a block after it was
  given back. `TypeInv` adds that every block they name has had a peer, so that what they write
  goes to a context with an address.
* *Slab and pool.* `SlabConserved` says that some sequence of the blocks that are not listed is the chain of
  links. `SlabPath` turns giving a block back into pushing on that path and taking one into popping its
  head. That a block is not given back a second time needs `Ahead`: a reception still expects at least what its
  peer has still to send, therefore no frame comes for a complete one. (If one came when the pool is empty, the interrupt would give
  back a context whose queued work gives it back again.) `CompleteListed` and, for the thread between
  `can_send` and the statements after it, `FcUndisturbed` say the same of contexts that are gone.
* *Delivery.* `DeliverInv`: the data of a listed context is the first frames of one message of its peer
  (`PartOf`), later than everything delivered before, with `rem_len` and `sn_expected` what is left; no two
  contexts have the same peer; a context that is not listed has no buffer, so that what a stale work item
  delivers for it is recognised as released. `SnApart` says that two frames with equal sequence numbers are the same
  if they are less than `SN_MOD` apart: with `InTime` the frame that `process_cf` accepts is the next one. The end of a
  message then falls on the frame at which `rem_len` is 0. The argument covers early and late timers, refused and failed
  flow control, contexts lost for want of a buffer, and errors reported twice.
* *Link.* `SenderInv` says where the sender is (`InRest`, `InFf`, `InWait`, ... `InEnd`): which frame is in the
  controller, how many bytes are left and how many frames it may still send (`Coming`). `ReceiverInv` says that at most one
  flow-control frame is due (in `rx.fc`, or owed by a context in `PROCESS_FF` or `TRY_ALLOC`), and only while the
  sender waits with an empty controller. For that, the `bs` of a context in `WAIT_CF` must be at least `Coming`, and
  equal to it only if no frame of the block was lost: a block ends on both sides with the same frame, or the
  reception times out. With this every step of the link is one of `IsoTpSend` or a stutter, and the frames of
  the sender are those the peer of `IsoTpRecv` has still to send.
* *Transfer without loss.* `InStep`: both nodes rest, the first frame is on its way, the sender waits for the flow control the
  receiver owes, or the only context holds exactly the frames sent. No timer expires, no frame is
  refused. `Got` and `Told` tie what was delivered and reported to the number of the message.
* *Transfer with loss.* `LossyInv`: a context that collects expects no less than is still to come, and
  exactly that only if it has every frame so far. It gets whole only when the frame that is expected last is
  the last one sent, hence nothing was lost. Every step leaves what is whole in node b (`Held`) as it is, adds the
  message under way, loses one or gives one to `recv_callback`. What was delivered without the released buffers (`NotFreed`) is
  a function by recursion; `NfAppend` says what one more element does, by the same means as in *Packetizer*.
  `AcceptShort` of `MsgTransfer` was too strong before this proof: a short message that finds no buffer makes the
  interrupt give up the context of the peer, and with it a whole message that waits for the work queue.
* *Packetizer.* `packetize` and `reassemble` are functions by recursion, and the provers cannot use the
  induction theorems of the library (they take an operator). The proofs take the least number for which a claim
  fails instead (`WFMin` and the well-foundedness of `Nat`). `Iterates` shows that such functions exist; `PacketIs`,
  `CallsEnd` and `IsParts` say, packet by packet, which characters a call writes, when the calls end and what
  the receiver has after so many packets: a prefix of the message, which grows, and the end marker nowhere but at the end.
* *Phone.* `RxInv`: what `rx_buf` and the escape state are is `Received` from the packets of the request
  that is being sent, unless it is held for processing, being discarded or torn by a lost connection; held and
  not discarded means that the last packet has come. `GotInv`: the requests processed are those sent, in order.
  `AnswerInv`: what the phone has is what the packets of the answer carry so far; while the advertising work is queued nobody is connected,
  hence the rest of an answer does not go to the next connection. That the answer in the
  buffer is the one that is sent is `BufferInv`.
* *Storage.* `SaveInv` says what has been written at each point of a save, `CopiesInv` which section
  may be damaged: the one that is written, and after one failure one of the two. `RecentInv` says
  that every valid header names data that was current when its save began.
* *Shared buffer.* `BufferInv` says that a thread holds the lock exactly at the program points that
  use the buffer. Every interface refines three steps (take and fill, use, give), so that the proof
  has one lemma per interface and one for the steps.
* *Firmware update.* `DfuInv` says that slot and block in RAM are the first pieces of the client's
  image, in order, up to the position it has sent.
* *Serial.* `QueueInv`: while `rx_buf_lock` is taken, the processing work is queued or running, but never
  twice. `LineInv`: while the buffer is free and nothing is discarded, it is exactly what the host has
  sent of this line (`Typed(line, at - 1)`: the CR and the erased character of every second line are
  accounted for); while it is taken, it is the text of a whole line. `OpenInv`: a line that began at a free
  buffer, after the end of the line before did, is not being discarded; this is what makes
  the line after a spoilt one arrive. `JobInv`: what is processed is what `rx_buf` holds, and it is passed on
  before the buffer is released. With faults on the wire these say nothing, and `SerialLinesWhole` rests
  on the checksum alone.
* *Requests.* `ExclusiveInv` reads off the state who is in the buffer; `OnceInv` follows the reset of
  the slot store by store.
* *Claiming.* `OwnClaimInv` excludes that the event of an old claim is taken for the new one: this
  needs that claims of a node are on the bus one at a time. `AnswerInv`: while a node waits, an owner of its address has
  not got the discovery, or is about to answer, or has answered, or the wait is over.
* *Reassembly of reports.* `WholeInv`: every frame on the way and every half-filled buffer is a piece
  of a published report at the right place. The step that needs an argument is the comparison of
  the message number, which is modulo `MSG_MOD`: two reports with the same number are the same
  one only if they are less than `MSG_MOD` apart.
* *Recovery of reports.* `RecoversAfterOneReport` speaks of what was heard, and says nothing about the buffer.
  `FreeInv`: when the last frame heard ended a report, complete or not, its publisher has no receive buffer.
  `RunInv`: the frames heard after such a frame are therefore collected from the first one on. `DoneInv`: when
  the last of them was heard, the report has been delivered. The argument needs neither `SequenceSuffices`
  nor `Recent`: it starts from no buffer, so that an old one cannot be mistaken for a new one. That the
  smallest frame size for a number of bytes exists (`LeastExists`) is proved from the well-foundedness of `Nat`.

The conditions are not conveniences. Each of them is refuted when it is dropped, by a deviation of
section 7 or by a counterexample of TLC:

* `BlockSizesUsed` (own `bs` and the peers' BS are not 0): a BS of 0 is counted down from 0.
* `NoStrays` (no late or stray FC frames): a late FC makes a context and reports an error.
* `OrderedUse` (no second message to a busy target; no stray FC frame if `can_send` may fail): the
  result of sending the first frame is ignored, so that a stray FC lets the sender go on without it.
* `CleanUse` (no `busy`, `txerr`, `strayfc`): a transmission error is reported as OK, and a stray FC or
  a second message makes the context forget which frames are in the controller.
* `Orderly` (no `preempt`; a context that waits and its sending peer are at the same message, at most
  `SN_MOD` frames apart): `process_cf` knows a frame by its sequence number only. TLC refutes `DeliveredWhole` without it
  for `SN_MOD = 2` (section 7), and finds no counterexample with it. It is a condition on the behaviour; `OneByOne` is
  one on the environment that implies it (`OneByOneOrderly`): a peer starts a message when its last
  one has been dealt with (no `b2b`, no `abort`), and its messages have at most `SN_MOD + 1` frames (with 16
  sequence numbers and frames of 64 bytes, about one kilobyte). Frames may then be lost in both directions, timers expire early,
  and flow control be refused or fail.
* `MessagesFit` (a message needs at most `CONFIG_ISOTP_FAST_RX_MAX_PACKET_COUNT` frames, what one reception is
  meant to have): where the pool runs out, a bus that loses nothing does not help. TLC refutes `ImplementsTransfer` for messages
  of five frames and three or four buffers: the last frame finds none, and its sender is told `OK`. On
  a bus that loses frames the condition is not needed.
* `SequenceSuffices` (a report needs at most `SEQ_MOD` frames) and `Recent` (nothing older than
  `MSG_MOD` reports lies in a mailbox or a buffer): the two moduli of the report protocol.
  `Recent` is a condition on the behaviour; for the first `MSG_MOD` reports it always holds.
* `EnoughBuffers` (at most `NUM_BUFFERS` publishers, which is how `Kconfig.can` describes that number; and
  `BUFFER_SIZE` a multiple of `CAN_MAX_DLEN`): without a free buffer a report is not collected at all, and with
  another size a report that fits is dropped when its last frame is padded to a CAN FD length
  (50 bytes, sent in one frame of 64, do not fit a buffer of 60; the default of 64 is such a multiple).

Only model-checked:

* all liveness properties: they rest on fairness, and the provers cannot reason about `ENABLED`;
* `DeliveredWhole` of `IsoTpRecv` where `Orderly` does not hold, with few enough frames.

Only proved: `TypeOK` of all modules but `IsoTpSend`, whose run `send_safety` checks it.

## 7 Known deviations

Four of them are runs (section 3). The others are found with the configuration named, or by
putting the property named into the component's passing configuration with the values given.

| Where | What happens | Reproduce |
|---|---|---|
| `isotp_fast.c:424` | reception error: released buffer delivered, context freed twice | run `recv_error_delivers`; with `InTurn` and the fault `loss` in `Envs` `ReceptionsSeparate` |
| `can.c:558` | request callback used up by the end of sending | run `response_lost` |
| `storage_eeprom.c:315` | two interrupted saves, no valid section | run `no_valid_section` |
| `packetizer.c:18` | an escaped byte at the end of a packet is written beyond it | run `packet_overrun` |
| `isotp_fast.c:809` | tx interrupt of the last frame before `WAIT_BACKLOG` is set: `sent_callback` never called | `IsoTpSend_v_preempt.cfg` (`EverySendReported`) |
| `isotp_fast.c:815` | `can_send` of a CF fails: nobody queues the work, no report | `IsoTpSend_v_sendfail.cfg` |
| `isotp_fast.c`, tx callback | a transmission error is ignored: reported `OK` | `Faults = {txerr}`, `OkMeansTransmitted` |
| `isotp_fast.c:692` | late FC creates a context and reports an error for no message | `Faults = {latefc}`, `ReportedOnce` |
| `isotp_fast.c:1116` | second message to a busy target overwrites the first | `Faults = {busy}`, `FramesInSequence` |
| `isotp_fast.c:819` | a peer's BS = 0 counted down from 0: waits for an FC after 256 frames | `FcBS = {0}`, `BYTE = 4`, `NoInit = {0}`, `Lengths = {20}`, `MAX_LEN = 20`, `WaitsOnlyForOwedFc` |
| `isotp_fast.c`, `get_send_ctx` | `wft` is not initialised: given up at the first WAIT | `Faults = {}`, `WaitLimitIsPerMessage` |
| `isotp_fast.c:393` | CF before the state is `WAIT_CF` (`preempt`), next message before `RECYCLE` ran (`b2b`): dropped | `EveryMessageDelivered` without its condition on `Faults`, environment `OnePeer({"preempt"}, 2)` or `OnePeer({"b2b"}, 2)` |
| `isotp_fast.c:511` | a first frame is dropped in `TRY_ALLOC`, and consecutive frames are told apart by sequence number alone: the beginning of a message given up and the end of the next, when its frame numbers fit | run `recv` with `SN_MOD = 2`, `DeliveredWhole` |
| `isotp_fast.c:141` | pool exhausted: reception dropped without a report | `EveryMessageAccounted`, environment `[OnePeer({}, 0) EXCEPT !.lens = {3, 11}]`, 11 in `Lengths`, `RX_BUF_COUNT = 1` |
| `storage_eeprom.c:96` | progressive import changes data before its CRC is known | drop the condition on `BIG` in `LoadIsAllOrNothing` |
| `can.c:235` | a broken report of a multiple of 16 frames and the next one are joined | `CanReport_v_splice.cfg` (`SEQ_MOD` 2) |
| `can.c:256` | after a lost LAST the next report, though complete, is dropped | `CompleteIsDelivered` |
| `can.c:283` | after a timed-out wait two frames are in flight | `OneFrameInFlight` without its condition |
| `can.c`, report rx | CAN FD padding counts into the length | `DeliveredLength`, frames of 4, `DLC_SIZES = {0,1,2,4}`, `Lens = {3,8}` |
| `can.c`, report tx | a transmit error is reported as success | `SuccessMeansSent` |
| `can.c:710` | two nodes switched on together keep the same address | `CanAddrClaim_v_overlap.cfg` (`DifferentAddresses`) |
| `can.c:683` | `can_send` failing for ever: initialisation ignores its timeout | `BusOffSpec`, `InitIsBounded` |
| `can.c:117` | claim transmitted late counts for another address | `lateFrames`, `ClaimSeen` |
| `can.c:518` | a late response goes to the next request to the same peer | `OwnResponse` |
| `can.c:558` | short request: callback called by thread and by response; timer after reset calls NULL; the second request's slot is wiped | `HeardOnce`, `NoNullCall`, `EveryCallback` |
| `can.c:566` | requests give a lock they never took: report overwritten | `CanReqResp_v_buffer.cfg` (`BufferShared`) |
| `can.c:528` | receive callback waits on the work queue for a buffer whose release needs that work queue | `CanReqResp_v_deadlock.cfg` (`EveryMessage`) |
| `storage_common.c`, flash | with `INHIBIT_OVERWRITE` an empty flash record counts as a failed load, so it is never written; "Only empty EEPROM data will be overwritten." (`Kconfig.storage`) holds for the EEPROM only | `EmptyIsWritten` in `Storage_builds.cfg` |
| `serial.c:148` | the response is sent before `rx_buf` is free: a host that answers it at once loses its request | drop `"prompt"` from `EveryRequestServed` |
| `websocket.c:183` | a send that never returns keeps the shared buffer: every interface stops | drop `"stall"` from `EveryRequestServed`, environment `{"serial", "ws", "stall"}` |
| `websocket.c:69` | the address lists are never freed | drop `~On("tight")` from `WsReconnects` |
| `websocket.c:214` | `websock` keeps the number of a closed socket and the reporting work sends to it | `ReportSocketOpen` |
| `lorawan.c` | two mishaps before a nonce is stored: only one nonce is skipped, every join request is refused until the next restart | drop `lw.mishaps > 1` from `LoraJoins` |
| `bluetooth.c:168` | a connection lost within a request: the next one is appended to what had come | drop `s.torn` from `Took` |
| `packetizer.c:46` | a packet of escaped bytes only ends the message early | add such a message to `BtMsgs` (`BtAssumption` names it) |
| `dfu.c:97` | the result of the last write is ignored (`flushfail`); `xBoot` after a restart, without `xInit`, requests what is in the slot (`cut`); a repeated `xWrite` is appended (`resend`); two clients mix (`rivals`) | drop the feature from `UpgradeWhole` |

## 8 Not modelled

* `isotp_fast_bind`/`unbind`: straight-line set-up. `isotp_fast_recv`
  (`CONFIG_ISOTP_FAST_BLOCKING_RECEIVE`): nothing in the SDK uses it, and its time-outs are
  undefined behaviour from the first step (`actx->rctx` is read uninitialised when no message
  came; after a time-out of the first fragment the context that waits is freed twice). Per-frame
  dispatch and frames with an invalid DLC or length.
* The ThingSet library (parsing, exporting): external. Its calls appear as "fills the buffer".
* Generation of the node ID, the setters and wrappers of `can.c`, reception of single items over
  CAN: they keep no state between calls.
* LoRaWAN activation by personalisation (no join) and the periodic sends (no state).
* `reassemble` does not look at the size of its destination: messages of the model fit.
* Shell, logging backend, authentication, WiFi: adapters without protocol state.
* The byte counts inside a progressive export (`remaining_bytes` is not decremented,
  `storage_eeprom.c:193`): data is abstracted to whole writes.

## 9 Plan

Done, in this order: `IsoTpFrames`, `IsoTpSend`, its proofs; `IsoTpRecv`; `MsgTransfer` and
`IsoTpLink`; `CanReport`; `CanAddrClaim`; `CanReqResp`; `Storage`, EEPROM and then flash; `SdkCore`
with `Serial`, `Packetizer`, `Bluetooth`, `Websocket`, `Lorawan`, `Dfu` and their composition
`SdkNode`. No part with a protocol of its own is left to model except `isotp_fast_recv`.

Every safety property the runs check has a theorem (section 6), the refinements included. What the
proofs leave open is liveness, the two conditions on behaviours (`Orderly`, `Recent`) and, where
a message does not fit into the receiver's buffers, what is still promised on a bus without loss.
