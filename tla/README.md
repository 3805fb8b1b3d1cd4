# A TLA+ development of the bcmdhd driver

This directory holds TLA+ models of parts of the Broadcom `bcmdhd` 101.10.591
full-MAC WLAN driver kept in this repository (`src/src`), the TLC
configurations that check them and proofs that TLAPS checks. It is meant to be
read beside the C code: `PROJECT.json` maps every definition that models code
to its lines, and definitions keep the names of the functions and fields.

## 1. Inventory

The driver sits between the Linux network stack (and cfg80211) and a dongle
that runs its own firmware. Packets and ioctls go down through a protocol layer
and one of three buses; completions, statuses and events come up on the bus's
own thread or callback.

| Component (files) | State it keeps | Operations | What makes it hard |
|---|---|---|---|
| Wireless flow control: `dhd_wlfc.c/.h` | per destination: suppressed queue, delayed queue, at-firmware queue, transit and on-bus counts, generation; the hanger (a table of packets at the dongle); FIFO credits | commit, transfer loop, txcomplete, txstatus, suppression, rollback, MAC/interface updates, cleanup, deinit | bus completions and firmware statuses of one packet arrive from different threads in any order; suppression takes packets back from the bus queue; tear-down with packets in flight |
| SDIO bus: `dhd_sdio.c` | `bus->txq`, sequence window, `dpc_sched`, the control frame left to the DPC, clock state | `dhd_bus_txdata`, `dhd_bus_txctl`, `dhdsdio_dpc`, `dhdsdio_isr`, watchdog | a queue filled by senders and drained by two threads that run the DPC; flags and lengths read outside the lock; a window that the dongle moves |
| USB bus: `dbus*.c` | URB pools, device state | submit, completion callbacks | completions race with everything |
| PCIe bus, flow rings, msgbuf: `dhd_pcie*.c`, `dhd_flowring.c`, `dhd_msgbuf.c` | rings with shared indices and phase bits, packet id maps, flow ring states, bus state, busy bits, wake lock | post, complete, create/delete/flush a flow ring, suspend, resume | indices shared with the dongle, ids reused, ring deletion with traffic, a suspend that races everything and may back out |
| Debug ring: `dhd_dbg_ring.c/.h` | circular byte buffer, read/write pointers, padding, counters, state | push, pull, config, pending length | variable lengths that never wrap, eviction, counters that overflow |
| Debug ring poll worker: `dhd_debug_linux.c`, `dhd_debug.c` | delayed work item, poll interval, `sched_pull` flag | worker, start/reset logging, trigger, pull request, detach | writers, worker and user run concurrently; decisions from stale copies |
| Deferred work: `dhd_linux_wq.c` | two bounded FIFOs, one work item | schedule, handler, skip mask, deinit | several producers, bounded, cancelled at detach |
| WiFi/BT regon coordinator: `wb_regon_coordinator.c` | one message slot, acknowledgement flags | wl→bt reset, BT device read/write, wlan on | waits with timeouts, late answers |
| Platform power: `dhd_gpio.c`, `dhd_linux_platdev.c` | adapter power state | set power, reset, card detect with retries | partial failure of a power sequence |
| Event and timer threads: `wl_event.c`, `wl_timer.c` | event list, timer list | post, handler thread | list changed while it is walked |
| Packet queues and pools: `hnd_pktq.c`, `hnd_pktpool.c` | precedence queues, pools | enqueue, dequeue, flush | limits per precedence and in total |
| TCP ack suppression: `dhd_ip.c` | last acknowledgement of each stream, a timer for each on PCIe | replace, hold, timer, unlist, clean, switch off | pointers to packets owned by a queue; timers deleted outside the lock |
| Driver core: `dhd_linux*.c`, `dhd_common.c`, `dhd_cdc.c` | interfaces, bus state, ioctl lock, threads | open, stop, xmit, dpc, suspend, detach | order of bring-up and tear-down |
| cfg80211 and vendor layers: `wl_cfg*.c`, `wl_android*.c`, `wl_iw.c`, … | scan, connection, P2P, NAN state | nl80211 requests, firmware events | size; depends on firmware behaviour that is not in the repository |
| RTT, PNO | request and result lists | iovars, events | as above |
| Chip and SDIO host support, OS layer, utilities, configuration, logs | – | register I/O, parsing, tables | little state of their own |

How they interact. `dhd_start_xmit` → `dhd_wlfc_commit_packets` queues a packet
and runs the transfer loop, which hands packets to `dhd_bus_txdata`. On SDIO
that fills `bus->txq`; the DPC thread drains it, completes each transfer
(`dhd_wlfc_txcomplete`) and parses the firmware's signals from received frames
(`dhd_wlfc_parse_header_info`: txstatus, credits, MAC open/close/add/delete). On
USB completions are callbacks of their own and may come after the txstatus.
Firmware event logs are pushed into the debug rings from the same receive path,
and a delayed work item sends them to user space. On PCIe `dhd_bus_txdata` queues
the packet on its flow ring, created on demand, and `dhd_prot_txdata` writes a
descriptor to the ring; statuses, receive completions and the answers to
control messages come to the DPC. Firmware events that add and delete
interfaces go through the deferred work queue.

What each component has to guarantee:

* wlfc: every accepted packet is freed exactly once; a packet is in one queue;
  a hanger slot is reused only after both answers; counters that gate the
  transfer loop equal what they count; a suppressed destination is resumed;
  credits are conserved; packets of a flow stay in order.
* debug ring: an unread entry is never overwritten except by discarding the
  oldest whole entry; entries are read in order; the claim loop ends.
* poll worker: it ends, stopping the polling stops it, polling continues until
  it is stopped, nothing of it survives detach.
* SDIO transmit: whenever `dpc_sched` is set somebody will run the DPC; the window
  is kept; a control frame never outlives its caller; queued packets are sent.
* deferred work: accepted events are handled once, in order within a priority.
* flow rings: an id is in one place; an open ring is backed by a msgbuf ring;
  what is queued is sent.
* msgbuf: a packet id is in one place; a descriptor the dongle reads is one of
  its lap; the dongle does not run out of receive buffers.
* suspend: nobody uses a suspended bus, and the calls that wait for one another
  return.
* ack suppression: the newest acknowledgement of a stream is sent.

The hazards, each at its line, are listed under `hazards` in `PROJECT.json`.

## 2. Modules

| Module | Models |
|---|---|
| `WlfcTx` | the life of a transmit packet in `dhd_wlfc.c` between commit and `PKTFREE`, with the bus and the dongle |
| `MCWlfcTx` | small instances of `WlfcTx` (packet symmetry) |
| `WlfcTxProofs` | theorems about `WlfcTx` |
| `DbgFifo` | what a debug ring promises: a queue that drops the oldest |
| `DbgRing` | `dhd_dbg_ring.c`: the ring itself |
| `DbgRingProofs` | theorems about `DbgRing` |
| `DbgPoll` | writers, poll worker and user operations around a ring |
| `DbgPollProofs` | theorems about `DbgPoll` |
| `DeferredWq` | `dhd_linux_wq.c` with the interface events that go through it |
| `SdioTx` | transmission over SDIO: senders, the control call, the two threads that run `dhdsdio_dpc`, the watchdog |
| `DeferredWqProofs`, `SdioTxProofs` | theorems about them |
| `MCQueues` | one run for `DbgRing`, `DeferredWq` and `SdioTx` |
| `FlowRing` | creation, use and deletion of PCIe flow rings |
| `PciePm` | suspend and resume of the PCIe bus against everything that may be using it |
| `PciePmProofs` | theorems about `PciePm` |
| `MsgbufRing` | operators: room in a ring, an allocation and its rollback |
| `MsgbufTx`, `MsgbufRx` | transmit descriptors and receive buffers of the PCIe protocol |
| `TcpAck` | the suppression of TCP acknowledgements |
| `MsgbufProofs` | theorems about `MsgbufTx`, `MsgbufRx` and `TcpAck` |
| `MCMsgbuf` | one run for `MsgbufTx`, `MsgbufRx` and `TcpAck` |

`DbgRing` has the contents of a debug ring and `DbgPoll` its polling. `MsgbufTx` and `MsgbufRx` share
`MsgbufRing`. `SdioTx` and `WlfcTx` see `bus->txq` from its two sides (the DPC and
flow control), `FlowRing` and `MsgbufTx` the flow ring from theirs (its life and
its contents), `PciePm` treats a whole transmit as one access to the bus.

`MCQueues` and `MCMsgbuf` put components that share no state under one run. A
variable `part` says in the initial state which of them the behaviour belongs to;
the others keep their initial values. So the states of a run are the sum and not
the product of those of its parts, each part is checked as if it ran alone, and
each action is listed on its own so that TLC's coverage shows that it fires.

Definitions whose comment calls them a slip or a faulty variant (`FreedOnStatus`,
`WriteSpaceToEnd`, `UnlistLast`, ...) are plausible bugs of the definition they
precede; nothing uses them, and `mutants` in `PROJECT.json` says which property
each one breaks.

### 2.1 WlfcTx

Every public function of `dhd_wlfc.c` holds `dhd_os_wlfc_block` for its whole
body, so each is one action. What runs beside the lock are the bus (`SendFromQ`,
`BusArrive`) and the dongle (the choice of which status comes when).

State: `live` (handed in and not freed), the packet tags (`dst`, `hslot`, `gen`),
the queues `delayq`, `suppq` (the two sub-queues of each destination's `psq`),
`afq`, the bus side `txq` → `bus` → `sent`, the dongle's side `dongle`, the
hanger `item`/`slot_pos`, and the record `mac[e]` of each destination with the
fields `transit_count`, `suppr_transit_count`, `onbus_pkts_count`, `suppressed`,
`generation` and `occupied`.

| Action | Code |
|---|---|
| `CommitPackets` | `dhd_wlfc_commit_packets` up to the transfer loop, `_dhd_wlfc_enque_delayq`, `_dhd_wlfc_prec_enq_with_drop` |
| `TransferPacket`, `TransferRollback` | one round of the loop: `_dhd_wlfc_deque_delayedq`, `_dhd_wlfc_handle_packet_commit`, `_dhd_wlfc_pretx_pktprocess`; the bus refuses: `_dhd_wlfc_rollback_packet_toq` |
| `SendFromQ`, `BusArrive` | `dhdsdio_sendfromq`, `dhdsdio_txpkt` |
| `TxCompleteOk`, `TxCompleteFail` | `dhd_wlfc_txcomplete` with its two outcomes |
| `TxStatusStale`, `TxStatusDone`, `TxStatusSuppress`, `TxStatusSuppressAcked` | `_dhd_wlfc_compressed_txstatus_update` for one packet, with `_dhd_wlfc_suppress_txq` and `dhd_wlfc_suppressed_acked_update` |
| `CleanupTxq`, `Cleanup`, `MacDel`, `MacAdd`, `Deinit` | the tear-downs |

Abstractions. Queues are sets (no property here depends on their order), one
priority per destination, credits are nondeterministic (a transfer round may
happen whenever the destination is open), a packet name stands for the pair
(slot, free running counter) that the dongle echoes. `ONBUS_MAX` is a bound of
the model; `TRANSIT_MAX` and `PSQ_LEN` are the code's limits made small.

### 2.2 DbgRing and DbgFifo

A cell of `mem` is a byte that knows its entry and its place in it, so an
overwritten entry can be told from an intact one. A push is one step per
iteration of the claim loop (`WrapWriter`, `DiscardOldest`, `GiveUp`, `Store`), all
under the lock (`claim # 0`), so that "the loop ends" is a property and not an
assumption. A push lets through any length up to that of the ring, the ring's own
included; `GiveUp` is the `ASSERT(0)` with the return behind it that such an entry comes
to, and the history variable `overlong` remembers it. `PullSingle` is `dhd_dbg_ring_pull_single` with a large enough
buffer; `Config` suspends and resumes. The byte counters are modulo `COUNTER`.
`DbgFifo` is the abstract queue; `IsFifo` is the refinement, for entries of one
length. The mapping (`Stored`) reads the buffer from the reader on, in steps of one
entry, around at `Top`, where the tail starts that is too short for one more.

### 2.3 DbgPoll

Each action is one stretch of code under `ring->lock`, or between two such
stretches: `RingPush`, `GetPendingLen`, `SchedPull`, `PullReq` for a writer;
`WorkerStart` … `WorkerExit` for the work item; `StartLogging`, `ResetLogging`,
`Trigger`, `Detach` with their `cancel_delayed_work_sync` (`CancelSync`) for the
user. The ring is a number of stored entries (its contents are `DbgRing`'s
business). User operations run one at a time: they are vendor commands, which
nl80211 serialises.

### 2.4 DeferredWq

`Post*` is the look for room before `work_lock` is taken, `Copy` the `kfifo_in` under
it, which copies as many bytes as fit, `Schedule` the `schedule_work`. The FIFOs
hold the pieces of records (`REC` of them make one), so that a torn record would
be seen. `WorkStarts`, `Get`, `GetNothing` and `Call` are
`dhd_deferred_work_handler`; `Call` does what the handlers of interface addition and
deletion, MAC address and feature update do to the interface list (`if_present`,
`set_mac`), whether they do their work (`Done`) or not (`Failed`). The firmware's own
view of its interface is `fw_if`. Of the callers one thread handles firmware events, the
others stand for the network stack. What never reaches the queue has actions of its
own: `IfEventNotPosted` is an event that cfg80211 takes or that finds no memory,
`SetMacDirect` an address set in the caller's context, `ListChanged` a change of the list
by another thread. `last_if` and `last_mac` are history: the events whose handlers will
settle the list and the address, if any will.

### 2.5 SdioTx

| Actor | Actions | Code |
|---|---|---|
| sender | `TxEnq` `TxLength` `TxStop` `TxLook` `TxUp` | `dhd_bus_txdata`, `dhd_sched_dpc` |
| control call | `CtlNoRoom` `CtlSend` `CtlLeave` `CtlReturn` | `dhd_bus_txctl` |
| who runs the DPC | `Isr` `IsrAgain` `DpcThreadWakes` `DpcLock` | `dhdsdio_isr`, `dhd_dpc_thread` |
| the DPC | `RxSendCtl` `RxSendData` `RxFrame` `RxNoFrame` `EnableIntr` `DpcSendCtl` `DpcSendData` `DpcSendNothing` `SendChain` `SendLength` `SendRestart` `DpcMore` `DpcMark` | `dhdsdio_dpc`, `dhdsdio_readframes`, `dhdsdio_sendfromq`, `dhdsdio_sendpendctl` |
| watchdog | `WatchdogTick` | `dhd_bus_watchdog` |
| dongle (external) | `DongleGrant` | a frame whose header moves the window |

The DPC and the control call hold `sdlock`; the senders do not, which is where the
hazards are. Sequence numbers are modulo `SEQ_WRAP` and the comparisons are the
code's (`TXCTLOK`, `DATAOK`, `DATABUFCNT`, and the test for an unlikely window).

### 2.6 FlowRing

Each flow ring is a record `node[i]` with `status`, `active` and the peer; `inited`
says that it has a msgbuf ring from the pool. Senders: `FindFlow`, `AllocId`,
`InsertId`, `InitNode`, `CreateRequest`, `CreateNoSpace`, `CreateFailed`,
`LookupStatus`, `TxData`, `LookStatus`, `PushQueue`, `QueueAgain` (`dhd_flowid_lookup`
and `dhd_bus_txdata`, one action per hold of a lock). Those who delete: `PeerGone`,
`IfaceDelete`, `ScanRing`, `DeletePending`, `SendDelete`, `SendDeleteNoSpace`. The DPC:
`CreateResponse`, `PushOpened`, `DeleteRefused`, `CleanClose`, `CleanFree`, `UpdateRing`.
The interface is an access point's or a station's (`role`): a station has one peer, its
access point, whose leaving deletes all rings, and `InsertId` enters an id in the bucket
itself, over what another sender has entered there (`overwritten`), where an access point
appends to a list. `CleanFree` is `dhd_flowid_free`: it takes the id out of the first bucket that has it and
puts it on the stack, or does neither when no bucket has it (which happens to overwritten
ids only, as the proofs show). `IdOwnership` collects the places of an id in the stack, the
buckets and the hands of senders (`Places`) and asks for exactly one, and for none when the
id was overwritten.
The dongle answers control messages in order and may refuse a creation.

### 2.7 PciePm

The wake lock (`WakeLock`, `WakeUnlock`, `Waive`, `Restore`) is that of `dhd_linux.c` with
its count, the kernel's lock and what was noted before a waiver. Transmits are
`SendBegin` to `SendUnlock` (`dhd_start_xmit` and `dhd_sendpkt`), the ioctl
`IoctlBegin` to `IoctlUnlock` (`dhd_wl_ioctl`), the DPC `DpcBegin` to `DpcEnd`. A DPC that
finds the bus out of low power (`DpcFrames`) handles transmit statuses, one of which
may start the network queues (`DpcTxStatus`), whatever the suspend call has done meanwhile.
`SuspendBegin` to `SuspendExit` follow `dhdpcie_pci_suspend` and
`dhdpcie_bus_suspend` with all three ways out (done, backed out because the wake
lock is held, no acknowledgement); `ResumeBegin` to `ResumeEnd` the way back. The
dongle acknowledges D3 in its own time or never. The busy bits are a set: a bit is
one for all who set it, so the first transmit to leave clears `TX` under the others,
which the wake lock makes up for. Those who forward (`Fwd`) come through `dhd_sendpkt`
and hold no wake lock; `OneForwarder` says that there is at most one of them.

### 2.8 MsgbufRing, MsgbufTx, MsgbufRx

A ring is `[wr, rd, phase]`; `Granted` is `dhd_prot_get_ring_space`, `Refreshed` the
re-read of the dongle's index, `Allocated` and `RolledBack` what happens to the write
index and the phase bit. Each slot of `desc` remembers the lap on which it was
written; the dongle knows on which lap it is and would take a descriptor with the
other phase for an old one. A flow ring has phases of its own (`FlowAllocated`,
`FlowExpected`): with the dongle's `fr_phase_nibble` the even laps have 0x50, not 0
(`even`), which the rollback does not know; `misphased` remembers the rings it has left
with a wrong phase. `MsgbufTx` serves a flow ring in steps that end where
the map's lock is taken or dropped: the count of free ids, the stop of the queues,
the reservation, the allocation in the ring, the DMA mapping that may fail, the
rollback, the doorbell. `StatusFree`, `StatusAvail`, `StatusFlag` and `StatusStart` are
a transmit status in the DPC. `MsgbufRx` posts buffers in bursts (`RxBurst`) and
refills after completions (`RxReap`).

### 2.9 TcpAck

`supmode` is `tcpack_sup_mode`; `tbl[i]` is `pkt_in_q` of slot i. On SDIO (REPLACE) a
packet goes from `dhd_tcpack_suppress` (`SuppressAdd`, `SuppressReplace`, `SuppressPass`)
to the bus queue (`AckEnqueue`, `AckEvict`, `AckRefuse`) and in a chain to the bus
(`ChainTake`, `ChainCheck`, `ChainSend`, `ChainFails`, `ChainFree`); `Unlist` is
`dhd_tcpack_check_xmit`. On PCIe (HOLD) it is held (`HoldFirst`, `HoldNewer`,
`HoldOlder`) until its timer fires (`TimerFires`, `TimerSend`) or the ratio is reached;
`HoldUntime` and `TblUntime` are the deletions of timers after the lock was dropped.
Acknowledgement numbers are kept without their wrap, and compared as the code does
on numbers modulo `SEQ`. The variable `forgotten` records that the code has taken one
of the paths on which it loses track of a packet (see section 3); what happens after
that is not explored.

## 3. Runs

| Run | Result | Bounds | Shows |
|---|---|---|---|
| `wlfc_usb` | pass | 3 packets, 1 destination, 3 slots, 2 in transit | hanger mode with completions and statuses in any order: nothing freed twice (`NoDanglingPacket`) or lost (`NoLostPacket`), a slot always holds the packet that travels with it, counters exact, suppression pends on something, no packet submitted twice, and (`SuppressionEnds`) a suppression ends |
| `wlfc_sdio_afq` | pass | 3 packets, 2 destinations, queue of 2 | reordered suppression that takes packets back from `bus->txq` keeps each packet in one place and the counters exact |
| `wlfc_sdio_hanger` | pass | 3 packets, 2 destinations, 3 slots, queue of 2 | a full queue that drops suppressed packets empties their slots |
| `wlfc_sdio_afq_teardown` | pass | 3 packets, 2 destinations, one at a time on the bus of each, all tear-downs | tear-down at any point leaves no queue with a freed packet and no counter below 0 |
| `dbg_ring_mixed` | pass | 8 bytes, lengths 1, 2, 3, 7, 8 | no entry overwritten and the `ASSERT`s hold until an entry of 8 bytes is pushed; the claim loop always ends |
| `dbg_poll` | pass | 2 writers, 2 entries, all operations | the worker ends, operations return, no poll is armed after a stop |
| `queues` | pass | ring: 11 bytes, length 2, counters modulo 16; deferred work: 1 stack thread and the event thread, FIFOs of 2 records of 2 pieces, 3 events; SDIO: 1 sender, 2 packets, 1 control frame, window 3 of 8 numbers, 1 credit at the start, `FCHI` 2, `FCLOW` 1, chains of 2 | the ring refines `DbgFifo` (`IsFifo`), its pending length is right (one short after a wrap); no accepted event is lost, torn or overtaken, each is handled, the interface list settles on what the firmware has when the event of its last change gets through; `dpc_sched` always owes a run, the window is kept, no control frame outlives its caller, queued packets are sent and queues stopped at a long queue start again |
| `flow_rings` | pass | access point: 2 senders, 2 or 1 peers and ids (3 together); station: 1 peer, 2 ids; 2 packets, 1 deletion, rings and queues of 1, control ring of 2 | each flow id is in one place, or was overwritten by another sender of a station, an open or listed ring is backed by a fetched msgbuf ring, and what is queued on an open ring is sent |
| `pcie_pm` | pass | 2 transmits, 1 forwarded packet, 1 ioctl, any number of suspends and resumes | the wake lock agrees with its holders after each waiver, nobody uses a suspended bus, interrupts and low power state agree with the bus state, suspend and ioctl return; no deadlock |
| `msgbuf` | pass | transmit: 2 flow rings of 2 slots (with nibbles packets for one), 2 ids, queue of 2; receive: 4 ids, ring of 6, 5 wanted, bursts of 2, threshold 3; acknowledgements: 3 packets, 3 streams, 3 acknowledgements that wrap at 8, table of 2, ratio 3, bus queue and chains of 2 | each packet id is in one place, each descriptor the dongle is told of is of the right lap (with nibbles, until a rollback spoils it), the dongle is kept in buffers, the newest acknowledgement leaves or is on its way |
| `wlfc_onbus_leak` | violation | | flushing `bus->txq` leaves `onbus_pkts_count` too high; a later suppression of that destination is never resumed |
| `dbg_ring_skip` | violation | | the padding flags outlive the padding and the reader jumps over entries |

The violations are disagreements between the code and one of its own comments;
`findings` quotes the lines.

**Bounds.** Three packets are the least with which a suppressed packet, one on the
bus and one that fills the queue coexist; two destinations let a tear-down of
one meet the other; one more slot than packets in transit makes the slot search
wrap and also find nothing. A ring of 8 bytes with lengths 1, 2, 3, 7 and 8 has
entries that fill it, that are as long as it, that just do not fit and that leave every
size of padding. Two writers are enough for one to act on what it read before the other
and the worker acted. Deferred work: two callers can count on the last room of a
FIFO together, and three events are an addition, a deletion and an address, or one more
of a kind after one that failed. SDIO: two packets and a control frame contend for a window of three,
which wraps within the run. Flow rings: two senders can meet for one peer, or two
peers for one id. Msgbuf: two ids run out, rings of two slots have their seam
at every second descriptor, and two flow rings share the map (with nibbles one gets
packets: the phases of two rings do not depend on each other); the receive ring has
more slots than buffers are wanted, as the code needs without checking it. The
thresholds `TXP_THRESHOLD` 2, `TX_POST_BOUND` 1, `MIN_AVAIL` 1 and `DEPLETED_MAX` 0 are
the code's tunables made as small as the ids. Acknowledgements: a table of two
slots makes the last entry move into the place of another and three streams make
it full; more acknowledgements than `SEQ` / 2 would leave the window in which the
comparison of wrapped numbers means anything. Bounds on the number of packets,
events and acknowledgements (`MaxPackets`, `MaxEvents`, `MaxAcks`, `MaxSends`, `MaxCtl`,
`MaxRx`, `MaxPush`, `MaxGone`) are guards of the action that makes a new one.

Deadlock is checked in `pcie_pm` only: elsewhere the bounds, or a detached driver,
end a behaviour. Symmetry is used for packets (`WlfcTx`), and for flow rings and
packet ids in `msgbuf`, where streams and packets of the acknowledgement part bear
their names; nothing there orders or computes with them, and no liveness is checked.

**Fairness.** `WlfcTx!FairSpec`: transfers that were handed to the bus end, ended
transfers are completed, and the dongle answers for every packet it got (the
firmware's contract; the driver has no timeout for it). Nothing is assumed of
the sender or of the transfer loop. `DbgRing!FairSpec`: a push that holds the
lock keeps running. `DbgPoll!FairSpec`: a worker and an operation that have
begun are scheduled; nothing is assumed of writers, so the worker ends even if
they never stop. `WqFairness`: a caller finishes its call and the kernel runs a
scheduled work item. `SdioFairness`: threads go on, the watchdog ticks, the dongle
makes room in the end while packets wait; strong fairness for the two threads
that take `sdlock`, because it is a semaphore served first come first served.
`FlowFairness`: senders, the DPC and those who delete go on, and the dongle takes
the items of its rings; it need not answer control messages in any time. (Events
and the DPC's work run in the same thread, hence one conjunct.) `PmFairness`:
threads that have entered the driver go on and their waits time out; the dongle,
the stack and the user owe nothing.

**What the models show that no run states.** These hold of the code as modelled,
were met while the properties were written, and are left out of the properties
(the properties say so) rather than asserted.

* wlfc. In hanger mode the item of a packet flushed from `bus->txq` stays in the
  hanger (`dhd_wlfc.c:1772`). A suppressed packet that the bus refuses goes back to
  the suppressed queue, but its slot is no longer marked suppressed
  (`dhd_wlfc.c:1250`), so a cleanup keeps the slot. A destination that is deleted
  and added again with a packet on the bus meets that packet's completion with
  `onbus_pkts_count` at 0, which `dhd_wlfc.c:3692` asserts away. On USB a packet
  may be suppressed before its bus completion has come; if the destination's queue is
  full at that moment, the packet that is dropped and freed may be one the bus still
  has (`dhd_wlfc.c:808`, `707`). That takes `WLFC_PSQ_LEN` = 32768 packets of one
  destination (`dhd_wlfc.h:112`), for which the network queues are stopped 256 packets
  earlier.
* Debug ring. `dhd_dbg_ring_push` turns away an entry longer than the ring
  (`dhd_dbg_ring.c:273`), although the write space never exceeds the ring's size less
  one. An entry exactly as long as the ring discards whatever it meets and comes to the
  `ASSERT(0)` at 323 (in a build without asserts the push fails there), or loops until it
  does, and leaves a ring of padding in which the reader may stand at no entry.
  `EntriesIntact`, `AssertsHold` and `PendingExact` are about rings that have not seen one.
* Debug polling. A pull requested from a pending length that is no longer true
  finds the ring empty and leaves `sched_pull` FALSE (`dhd_debug_linux.c:157`), after
  which no push at the threshold asks for a pull again. One push while the worker
  runs ends the periodic polling (`dhd_debug_linux.c:247`). Detach frees a work item
  that a pull request may have armed (`dhd_debug_linux.c:622`).
* Stopped queues. On SDIO a sender may stop the network queues on a length that the
  DPC has meanwhile drained (`dhd_sdio.c:2406`); on PCIe the queues are started only
  by the status after which exactly `MIN_AVAIL` ids are free, and a sender may stop
  them after it (`dhd_msgbuf.c:7548`, `7846`, `dhd_pcie.c:6255`). Nothing starts them
  again before the next packet or status. The other way round, that status also starts
  queues which a suspend has stopped: `dhd_bus_start_queue` does not look at the bus state,
  and the DPC looks at the low power state before the suspend call changes it
  (`dhd_pcie.c:13851`). So the queues of a suspended bus may be running, and
  `BusStateMatches` says nothing of them; it is `dhd_start_xmit` that then turns packets
  away (`NobodyInside`).
* Suspend. `dhd_sendpkt` sets and clears one bit for all its callers
  (`dhd_linux_tx.c:504`, `517`), who hold no wake lock: with two of them, as with a
  forwarded packet (`dhd_linux_rx.c:674`) and a held acknowledgement whose timer fires
  (`dhd_ip.c:353`), the first to leave clears the bit of the second, and a suspend may
  complete while the second uses the bus. After -EBUSY (`dhd_pcie.c:9853`) the watchdog stays off and queues that
  `dhd_start_xmit` has stopped stay stopped; only a resume or a later back-out
  (`dhd_pcie.c:10045`, `10189`, `10345`) starts them.
* Flow rings. The id of a ring whose creation found no room stays in the hash table
  (`dhd_flowring.c:967`) and packets for its peer are dropped from then on. A delete
  request that finds the control ring full is lost (`dhd_pcie.c:15247`). A packet that
  `dhd_bus_txdata` queues at its second attempt (`dhd_pcie.c:6199`) waits for the next
  packet or interrupt. For a station, two senders that both found no ring enter two ids
  in one place, and the second overwrites the first (`dhd_flowring.c:829`): no packet goes
  to the first ring any more, and when it is deleted `dhd_flowid_free` does not find its
  id (`1195`), which is lost until the driver is loaded again.
* Phase nibbles. When the dongle asks for nibbles (`fr_phase_nibble`) the items of a flow
  ring bear 0xA0 on the odd laps and 0x50 on the even ones (`dhd_msgbuf.c:10067`), but the
  rollback after a failed DMA mapping flips them as if they were a bit (`8192`). At the
  seam of an odd lap that leaves 0, which is as good as the 0x50 before; at the seam of an
  even one it also leaves 0, after which the same slot is written with 0xA0, the phase of
  the lap before. All later items of that ring are a lap off.
* Receive buffers. A posting that fails when no buffer is posted is never retried
  (`dhd_msgbuf.c:8302`): completions drive the refill, and there are none.
* Interface events. Nothing that goes wrong with one is made good later.
  `dhd_event_ifadd` ignores that the deferred queue has refused an event
  (`dhd_linux.c:7602`), and the event is gone when there is no memory for it (`7590`,
  `7621`). An addition whose `dhd_allocate_if`, `dhd_register_if` or post-create operation
  fails (`3278`-`3303`) leaves the firmware with an interface the host has not, a failed
  deletion (`3372`) the host with one the firmware has not. A MAC address whose handler
  finds the driver down (`3498`), or that is set in the caller's context (`3617`-`3650`),
  leaves `set_macaddress` set until another handler of the interface clears it.
  `InterfacesSettle` is about the last event of its kind that gets through, whatever became
  of those before it.
* Acknowledgements. With a full table `dhd_tcpack_hold` returns TRUE although the
  packet is neither held nor freed (`dhd_ip.c:1387`), and `dhd_tcpack_suppress` returns
  `BCME_ERROR`, which its caller takes for TRUE, when suppression has just been switched
  off (`dhd_ip.c:823`): the packet leaks. `__dhd_sendpkt` frees a packet of a deleted
  interface (`dhd_linux_tx.c:210`) and a chain that fails half way frees its packets
  (`dhd_sdio.c:2853`) while the table still points to them. Deleting a timer after the
  lock was dropped (`dhd_ip.c:1357`, `568`) may delete the one just armed for another
  acknowledgement, which then waits for a later one of its stream.
  `dhd_tcpack_info_tbl_clean` uses a pointer to the table that it has read before it
  takes the lock, and switching off frees the table while timer functions may run.

## 4. Proofs

Every theorem holds for all values of the constants that the named assumptions of
its module allow: any finite set of packets, any number of destinations, rings,
senders, callers and events, any size of a queue, ring or window. The invariants
below were checked with TLC on instances at least as large as those of the runs
before they were proved.

### 4.1 WlfcTx

* `TypeCorrect`: `Spec => []TypeOK`. `TypeOK` is inductive; one lemma for each
  group of actions (`TypeTransfer`, `TypeTxComplete`, `TypeTxStatus`,
  `TypeSuppress`, `TypeTeardown`) on top of lemmas about the operators on a
  destination (`MacOps`), on the hanger (`HangerOps`) and on the sets a cleanup
  computes (`CleanupTypes`). What it says about the code is that no counter of a
  destination falls below 0 although answers arrive after the counters were reset.
* `AfqOwnership`: `AFQ => (Spec => [](NoDanglingPacket /\ QueuedOnce))`, under every
  tear-down. Neither conjunct is inductive: a status frees a packet, so one has to
  know that the packet is not on the bus at that moment, which follows from where
  packets at the dongle can be. `AfqOwned` says that the places exclude one another,
  that `sent` packets are at the dongle (so an SDIO status waits for their
  completion) and that packets on the way are not.
* `Serving => ...` in all modes, hanger and at-firmware queues, SDIO and USB, with and
  without reordered suppression, while nothing is torn down: `ServingOwnership`
  (`NoDanglingPacket`, `NoLostPacket`), `ServingQueues` (`QueuedOnce`), `ServingSlots`
  (`SlotMatchesPacket`), `ServingCounters` (`CountersExact`), `ServingSuppression`
  (`SuppressionPending`) and the action property `ServingNoResubmit`. None of them is
  inductive and they need one another, so they are proved together, from `ServeInv`:
  - `PlacesApart`: which places exclude one another, and that on SDIO, where one
    thread completes and reads statuses, a sent packet is at the dongle;
  - `ItemsRight`: a hanger item names a packet that the bus, the dongle or the
    suppressed queue has, and says which of its two answers have come;
  - `EntriesRight`: the two counters are exact, and what a destination waits for when
    it is suppressed is no more than what is in transit;
  - `HeldBack`: a suppressed packet that the bus still has belongs to a destination
    that is suppressed. This is what keeps the transfer loop from sending it twice,
    and it holds because a suppression does not end while `onbus_pkts_count` is
    above 0, which needs the counters to be exact, which needs the places apart.
  One lemma says for each operation on a destination what it makes of it
  (`BusDoneFollows`, `TransitDoneFollows`, `SuppressFollows`, ...), three lemmas count
  packets (`CountAdd`, `CountOut`, `CountOutMany`), `ItemsStep` moves one packet, and
  there is one lemma for each action.

  `Serving` is `Teardown = {}` and, on USB, a precedence queue that holds all packets:
  without the second the packet dropped by a full queue may be one the bus still has
  (section 3). Under a tear-down in hanger mode `NoLostPacket` and `CountersExact` do not
  hold (the run `wlfc_onbus_leak`, and the first item of section 3).

### 4.2 DbgPoll

* `TypeCorrect`. The copy of the ring's status that the worker keeps counts down
  below 0 when writers push while it reads; `WorkerBounded` relates it to the
  length that ends the worker's loop (both go down by what is sent and started
  at most a ring apart), which bounds it.
* `PollingStops`: `Spec => []NoPollAfterStop`. The invariant `StopInv` says that a
  poll armed on a ring without an interval is about to be cancelled, and that an
  operation that will arm a poll has set the interval or is about to. It fails
  if the work item is cancelled before the interval is cleared (the mutant
  `CancelFirst`).

### 4.3 SdioTx

* `SdioRunOwed` (`RunOwed`) needs only that a run has a runner until it is over
  (`RunHeld` in `SdioTypeInv`) and that a thread of the two that is woken takes the run.
* `SdioCtlFrame` (`CtlFrameLive`), which is inductive as it stands.
* `SdioWindow` (`WindowKept`), for every `SEQ_WRAP` and every window.
  `WindowInv` orders all the copies of the limit that are on their way: what the host
  believes, what each frame not yet read announces and what the dongle has offered
  lie in this order ahead of `tx_seq`. The lemmas before it are about numbers modulo
  `SEQ_WRAP` (`RemainderUnique`, `RoomTaken` and those after them): the comparisons of the
  code are signed differences of bytes, and this is where they mean what they say.
  `CreditAssumption` (the first window is no larger than later ones) is the dongle's
  contract.

### 4.4 DeferredWq

* `WqNothingLost` (`NothingLost`). `WqInv` says that a FIFO is always the pieces of whole
  records: `kfifo_in` copies what fits, and the look for room happens outside the lock,
  so this holds only because the size of a FIFO is a multiple of a record
  (`WholeRecords`: the comment on `dhd_deferred_event_t` asks for a record whose size,
  with its padding, divides the FIFO's length, a power of 2).
* `WqInterfacesSettle` (`InterfacesSettle`). `SettleInv` adds that an accepted event is
  accepted once (`AcceptedOnce`, by counting), that somebody will run the handler while a
  FIFO is not empty (`Woken`), that interface events are in the order the firmware made
  them because one thread posts them (`IfInOrder`), and what the last of them has left on
  either side (`FirmwareLast`, `ListLast`, `MacLast`), whichever handlers failed before.

### 4.5 PciePm

* `PmWakeLock` (`WakeLockExact`): `WakeInv` counts the holders and says what was noted
  before the waiver.
* `PmNobodyInside` (`NobodyInside`): `InsideInv` says which bits are set from where to
  where (`BitsSet`), which bus state goes with which place of the suspend call
  (`BusOfPc`), and who is kept out from the moment the call has seen no other bit, and
  from the moment it has seen the wake lock free (`KeptOut`).
* `PmBusMatches` (`BusStateMatches`): `BusInv` follows the low power state, the handshake
  for D3 and the interrupts through every place of the two calls and of the DPC,
  until the bus is given up.

### 4.6 MsgbufTx, MsgbufRx, TcpAck

* `TxPktidOwned` (`PktidOwned`): `RingInv` says that an actor has an id exactly while it
  fills a descriptor, and that going around a ring one meets what the host knows to be
  read, what the dongle has read, what it has been told of and what is written, in
  this order (`RingOrdered`); `RolledBack` gives the slot back.
* `TxDescriptorsCurrent` (`DescriptorsCurrent`): `DescInv` says that the phase the host
  would write next is the one the dongle expects there, of the bit always and of the
  nibbles in the rings that are not `misphased`. `RolledBackRing` says when a rollback
  undoes an allocation: always, but for the nibble of an even lap.
* `RxStaysProvisioned` (`RxProvisioned`). `RxInv` adds that no buffer is in two slots or in
  two places (`BuffersApart`) and that the next item will be written on the lap on which the
  dongle will read it (`RxNextAgrees`). The hardest step is a burst (`RxBurstMakes`): the
  ring grants what lies before its seam, the map may have fewer ids than that, and what
  is given back must leave write index and phase as if it had never been taken
  (`RxGivenBack`). That the host does not rest early rests on `RxSomeGranted`: since
  `MAX_RXBUFPOST` is below the size of the ring, a host that wants buffers posted is
  granted at least one slot wherever the seam is.
* `NewestAckNotLost`: `AckWindow => (AckSpec => []NewestAckKept)`. The number of packets that
  may hold the newest acknowledgement does not matter; what does is that a packet into
  which one is copied, or which is overtaken by the one held, will still leave. So
  `AckGood` says where a listed packet can be: on PCIe held, on SDIO before the bus
  (`TableRight`); and that the DPC, which takes packets off the list one by one, has not
  passed one that is still listed (`Unchecked`), so that none is listed when the chain goes
  to the bus. `Unlisted` shows that `dhd_tcpack_check_xmit` leaves no gap and no second entry.
  All of it is said under `~forgotten`: on the paths where the code does lose track of a
  packet (section 3) there is nothing to prove, and no step leads back from them
  (`StaysForgotten`). `AckWindow` bounds the acknowledgements of a behaviour to less than half
  of the numbers, which the code's comparison can tell apart (`SeqCompare`), from any
  first number, so across the wrap too; for the 32 bits of the code that is 2^31 - 1 of
  them. In the code it is the peer's window that keeps the numbers compared at one
  time together; the model has no window, so the theorem bounds the behaviour.

### 4.7 DbgRing

* `RingIntact` (`EntriesIntact`) and `RingAsserts` (`AssertsHold`), for every mix of
  lengths that `dhd_dbg_ring_push` lets through, until one as long as the ring comes
  (`overlong`; nothing is promised of the ring from then on, section 3). `RingInv` has a picture of the buffer that survives every mistake the reader
  can make with a stale `tail_padded` (section 3): what lies between 0 and the writer is
  always whole entries one after the other (`Tiled`), so a reader sent back to 0 stands
  at an entry, if not at the next one.
* With entries of one length below that of the ring (`OneLength`), where the padding always starts at `Top` and
  the flag is never trusted wrongly: `RingPending` (`PendingExact`) and `RingIsFifo`
  (`IsFifo`), the refinement of `DbgFifo` step by step. `OneInv` says that the pointers are
  multiples of the length, that the entries are numbered in the order in which they will
  be read (`InOrder`) and that the two counters differ by the unread bytes, up to one
  wrap (`Counted`). `WrapWriter` is a discard if the reader is at 0 and a stutter
  otherwise; the lemma is `FifoStep`.

### 4.8 FlowRing

* `FlowIdsOwned` (`IdOwnership`) and `FlowRingsHeld` (`RingHeld`), for any number of senders,
  peers and ids and any length of the control ring. Neither is inductive: a completion
  frees whatever id it names, so one has to know that it names an id in a bucket that
  nobody else is about to use. `FlowInv` follows an id through its life:
  - `IdInOnePlace`: on the stack, with one sender that enters it, or in one bucket, or, of
    a station, overwritten and in none of them;
  - `RingLife`: an id in a bucket is with at most one of a sender that makes its ring
    (`LifeMaking`), a creation request (`LifeAsked`), the dongle or the DPC that cleans it
    (`LifeOpen`); the ring is fetched from the pool from the request on, and listed only
    while the dongle has it or it is being cleaned (`LifeListed`). An id whose creation
    failed stays in its bucket and is with none of them.
  Deletion requests are not restricted at all: there may be several for one ring, and one
  of an earlier life of the id may come after the creation of the next. It ends that ring
  early, and the invariant shows that it frees the id once even so.
  The lemmas before say what appending, prepending, popping and removing do to the
  members of a list; there is one lemma for each action.

Assumptions used: `SizeAssumption`, `BoundAssumption` in `DbgRing`; `CapAssumption`, `ThresholdAssumption` in `DbgPoll`; `PktAssumption`
(finiteness, for the counts), `EntryAssumption`, `BoundAssumption`, `ModeAssumption` (USB
implies the hanger mode) in `WlfcTx`; `SdioAssumption`, `CreditAssumption`; `WqAssumption`,
`WholeRecords`; `PmAssumption` (finitely many transmits, who are not forwarders);
`TxAssumption`; `RxAssumption`; `AckAssumption`; `FlowAssumption`. Each is checked by TLC in the runs.

Only model-checked: liveness (`SuppressionEnds`, `ClaimEnds`, `WorkerEnds`,
`UserReturns`, `EventsHandled`, `TxDrains`, `StackRestarts`, `QueueDrains`,
`CallsReturn`), which the prover does not support; and `WlfcTx` in hanger mode under
tear-downs.

## 5. Plan

The theorem worth proving next: `WlfcTx` in hanger mode under tear-downs, that nothing
dangles there.

Modules still to write:

1. `WlfcCredit`: the transfer loop of `dhd_wlfc_transfer_packets` with FIFO credits,
   borrowing, credit and packet requests, PS mode, interface flow control. Abstract
   specification: credits are conserved (held + lent + in transit = granted).
2. `WlfcOrder`: the order kept by `_dhd_wlfc_prec_enque` when suppressed packets come
   back, and sequence numbers across a rollback.
3. The ioctl path of msgbuf (`dhd_msgbuf_query_ioctl` with its timeout and late
   answers), event and ioctl response buffers.
4. DELAYTX of `dhd_ip.c`, with the table of received data.
5. `Wbrc`, the reset handshake; platform power; `wl_event.c`.

## 6. Not modelled

Headers, TLV parsing and tags beyond slot and generation; statistics and
counters that only feed dumps; code under build flags that the Makefile does not
set; register access, DMA and the kernel's own queues. Components without a
module are listed with the reason in `PROJECT.json`, and the parts left out of a
modelled one in the comment at the head of its module.

By far the most lines of the tree have no control that could be modelled: layouts of
registers, iovars and firmware messages (`include/`), the translation between
nl80211 and iovars (`wl_cfg80211.c`, `wl_cfgvendor.c`, `wl_android.c`, `wl_iw.c`), whose
state machines depend on a firmware that is not in the repository, configuration
parsing, dumps and logs.

External, modelled from how the driver uses them: the dongle (statuses, answers to
control messages, the window it offers, D3 acknowledgements, reading of rings with
the phase check), the network stack (it sends while its queue runs), the kernel's
work items, timers and FIFOs.
