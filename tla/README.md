# TLA+ models of winject (ppWiFi)

winject carries several logical channels over raw 802.11 frames between two
stations.  This directory holds TLA+ models of its protocol layers, TLC
configurations that check them on small instances, and proofs checked by TLAPS.
Source paths below are relative to `src/winject/src/`.

## 1. The system and its parts

    application <-UDP/TCP-> end point <-> PDCP <-> LLC <-> TxScheduler / RX <-> WiFi
                                           ^        ^
                                           +- LCRRC-+-- AppRRC (events, LCID 0)

| Component | State | Operations | Threads and interaction |
|---|---|---|---|
| LLC (`LLC.cpp`) | `sn_counter`, `tx_ring` (1024 slots: what was sent in a slot, which slot is checked in it), `sn_ring` (SN modulo window -> checking slot), `to_retx_list`, `to_ack_list`, tx/rx enabled | `on_tx`, `on_rx`, `check_retransmit`, `to_acknowledge`, `set_tx_enabled`, `set_rx_enabled`, `reconfigure` | `on_tx` by the ticker thread, `on_rx` and the setters by the reactor; an RLF is an event for the reactor |
| llc_ul (`llc/llc_ul.cpp`) | the rewritten LLC transmitter: `tx_ring`, `sn_ring`, `retx_list`, two counters, status bits | `reset`, `update_current_slot_number`, `acknowledge`, `write_retransmission_pdu`, `write_llc_pdu` | single-threaded class; its caller decides the order of the calls |
| pdcp_ul, pdcp_dl (`pdcp/`) | the rewritten PDCP: frame queue, offset and SN of the sender; reordering ring, overflow list, next expected SN of the receiver | `on_frame_data`, `write_pdcp`; `on_pdcp_data`, `pop`, `reset` | single-threaded classes, one at each end of a logical channel |
| PDCP (`PDCP.cpp`) | tx queue, current buffer and offset, `tx_sn`; `rx_sn`, ring of 8192 reassembly buffers, rx queue | `to_tx`, `on_tx`, `on_rx`, `update_rx_sn`, `to_rx`, setters | end point threads, ticker and reactor meet in the two queues |
| TxScheduler (`TxScheduler.hpp`) | deficits per LLC, slot number, frame under construction | `tick`, `add_llc`, `reconfigure`, `stop` | ticker thread; calls `LLC::on_tx` as a probe and then with data allowed |
| LCRRC (`LCRRC.hpp`) | `txrx_state`, pending requests, activation timer | `on_init`, `on_rlf`, the two `on_rrc_message`, `activate`, `auto_send_rrc` | reactor thread and timer callbacks |
| AppRRC (`AppRRC.cpp`) | event queue, request id counter, all the channels | `on_wifi_rx`, `on_rrc_event`, `send_rrc`, `setup`, `stop` | reactor, receive and RRC threads |
| End points (`UDPEndPoint.hpp`, `TCPServerEndPoint.hpp`, `TCPClientEndPoint.hpp`) | a socket or connection, tx/rx enabled, `ep_event` queue, what is still to be sent to the application | `set_tx_enabled`, `set_rx_enabled`, `check_state`, `on_new_connection`, `run_pdcp_tx`, `run_pdcp_rx`, destructor | a tx and an rx thread each; the setters run on the reactor or on timer2 |
| Start-up (`main.cpp`) | the configuration and its watcher | `main`, `config_watcher` | the watcher destroys AppRRC from its own thread |
| WIFI drivers, frame formats, RRC codec | | sockets, parsing | I/O |

Hard behaviours, all listed with their lines under `hazards` in `PROJECT.json`:

* losses and reordering on the air against sequence numbers that wrap and
  rings that are indexed modulo something smaller (LLC, llc_ul, pdcp_dl, PDCP);
* a retransmission timer that races with a late acknowledgement (LLC);
* duplicates: a PDU whose acknowledgement is lost is delivered twice (PDCP);
* the ticker, reactor and timer threads interleaving around a radio link
  failure (LLC, LCRRC);
* counters and three mutually redundant structures kept in step by hand (llc_ul);
* several channels that share the octets of one frame by deficits (TxScheduler);
* blocking calls: `select`, full queues and joins around a channel that fails,
  is set up again or is destroyed (end points, AppRRC);
* liveness: every PDU taken from PDCP must be acknowledged or given up, every
  tick must end, every stop must complete.

## 2. Modules

| Module | Models | Depends on |
|---|---|---|
| `LLC` | two ends of one acknowledged-mode logical channel and the air | |
| `AmLink` | what that link promises to PDCP, abstractly | |
| `LLCProofs` | types and safety of `LLC`, and its refinement of `AmLink` | `LLC`, `AmLink` |
| `MCLLC` | instances of `LLC` for TLC | `LLC`, `AmLink` |
| `LlcUl` | the class `llc_ul` under every sequence of calls | |
| `LlcUlProofs` | proofs about `LlcUl` for every configuration | `LlcUl` |
| `MCLlcUl` | instances of `LlcUl` for TLC | `LlcUl` |
| `PdcpUlDl` | `pdcp_ul`, `pdcp_dl` and the LLC between them | `FrameChannel` |
| `FrameChannel` | what PDCP promises to the application, abstractly | |
| `PdcpUlDlProofs` | proofs about `PdcpUlDl` and its refinement of `FrameChannel` | `PdcpUlDl`, `Loops` |
| `MCPdcpUlDl` | instances of `PdcpUlDl` for TLC | `PdcpUlDl` |
| `LcRrc` | the LCRRC and the RRC events of two ends, and LCID 0 | |
| `LcRrcProofs` | proofs about `LcRrc` for any number of events and losses | `LcRrc` |
| `MCLcRrc` | instances of `LcRrc` for TLC | `LcRrc` |
| `Pdcp` | the class `PDCP`: its two halves, the LLC between them, RLF and exchange | |
| `PdcpProofs` | proofs about `Pdcp` for every configuration and size | `Pdcp`, `Loops` |
| `MCPdcp` | instances of `Pdcp` for TLC | `Pdcp` |
| `Loops` | loop invariants of folds, and arithmetic modulo a width, for the proofs | |
| `TxScheduler` | `tick` over several channels, and the receiver of the frame | |
| `TxSchedulerProofs` | proofs about `TxScheduler` for any channels and sizes | `TxScheduler`, `Loops` |
| `MCTxScheduler` | instances of `TxScheduler` for TLC | `TxScheduler` |
| `EndPoint` | one station around one channel: end point, events, threads, stop | |
| `EndPointProofs` | proofs about `EndPoint` for any number of connections | `EndPoint` |
| `MCEndPoint` | instances of `EndPoint` for TLC | `EndPoint` |

### LLC

One action per call of a thread: `OnTxProbe` is the first call of `LLC::on_tx`
in a tick (`in_allow_data = false`), `OnTxNew`, `OnTxRetx`, `OnTxRlf`,
`OnTxDrop` and `OnTxAcksOnly` are the paths of the call with data allowed,
`OnTxNoRoom` is a tick that gives the LLC no further room; `OnRxData` and
`OnRxAck` are `on_rx`; `HandleRlf` and `Activate` are what `LCRRC::on_rlf` and
`LCRRC::activate` do to an LLC.  The ticker and the reactor run in different
threads under different mutexes, so these actions interleave at each end.

State variables keep the names of the class.  Abstractions:

* a PDCP PDU is a number, so that history variables can say what became of it;
  `acked`, `received`, `exhausted`, `flushed` and `sends` are history only;
* `slot_number` is kept modulo the ring size, the only way the code uses it;
  1024 becomes `TxRingSize`, 256 becomes `SnMod`;
* the sizes of allocations become the alternatives they lead to (`AckRoom`
  acknowledgement entries fit; data fit or do not);
* the air is a set of PDUs.  Each may be lost, received later than its
  successors, or fail its CRC; none is received after `MaxRoundTrip` slots of
  the sender of the data;
* every LLC of a scheduler has its own state, so one channel is modelled; what
  the others do shows only as `OnTxNoRoom` (`TxScheduler` has the others).

`AmLink` is the promise to PDCP: PDUs are handed over in order, delivered only
after being handed over, and the sender lets go of a PDU only when the peer has
it or when it abandons it.  `ImplementsAmLink` is the refinement.

### LlcUl

The caller of `llc_ul` is unconstrained: every sequence of slots, writes,
retransmissions and acknowledgements of any sequence number is explored, so
that stale, repeated and foreign acknowledgements are included.  The code's
status bits are the set `status`; the contents of PDUs are left out.
`ConfigAssumption` is what `validate_config` accepts.

### PdcpUlDl

One action per call: `on_frame_data` and `write_pdcp` at the sender,
`on_pdcp_data` and `pop` at the receiver, `reset` of both, and
`pdcp_ul::reconfigure`, which changes the configuration in the middle of the
traffic.  The write loop and
`flush_completed_in_order` are folds of one round each (`WriteSegment`,
`FlushOne`).  `on_pdcp_data_damaged` is the call that returns early because a
segment fails its checks: the segments before it are kept, nothing is flushed.

* An octet is represented by the frame it belongs to, a buffer by the sequence
  of its octets, so that mixing frames or emitting storage that was never
  written shows.
* A ring slot that is not valid is represented by one value; the code
  overwrites such a slot before it reads it.
* `unwritten` is `total_in_bytes - total_out_bytes`; status codes are left out.
* `reconfigure` changes `min_commit_size`, which the receiver need not know.  The
  format fields (segmentation, reordering) change with a `reset` of both ends:
  two ends that disagree on them read each other's headers at the wrong places.
* The LLC below takes PDUs as a set and delivers them in any order in which no
  PDU is overtaken by more than `max_lag` frames, up to `max_copies` of them more
  than once or damaged.  It loses none: a loss the LLC cannot repair is a radio
  link failure, which is a `reset`.

`FrameChannel` is a queue in and a queue out.  `ImplementsFrameChannel` maps the
accepted frames that were not emitted yet, and `completed_frames`, to them.

### LcRrc

`LCRRC` is called by two threads of its process that share no lock: the reactor
(`on_rrc_event`) and the thread of `timer2` (`schedule`, which takes the timers
that are due and calls them one by one).  A handler is a sequence of operations
(`on_rlf`, `activate`, `on_exchange_request` ...), and each operation (a change
of `txrx_state`, of one layer's flag, a message, a timer) is one step of its
thread.  Conditions are evaluated where the code does: `txrx_state` when the
handler of a request or of a set-up begins, the pending requests in
`expiry_handler`.

* Timers all wait 100 ms, so `timers` is a queue (`cancel` takes one out of it);
  a timer that its thread has taken can no longer be cancelled.  `expiry_handler`
  and `activation_handler` are the two callbacks.  A request may expire while it or
  its response is under way (`TooLate`, in a load with `late`); the answer still
  arrives, and the late answer is counted among the losses.
* `auto_send_rrc` (timer, entry and message) is one step: the timer it starts does
  not fire within the call.
* The expiry handler reads an entry it has just erased.  Its `request` was never
  assigned; what is sent is taken to be that default value, an exchange request
  for LCID 0, which the peer ignores.
* Request ids are 8 bits wide; the runs use fewer than 256.
* Bounds, in `Load`: set-ups and RLFs at each end, messages lost or late.

### Pdcp

`PDCP.cpp` is the class in use.  `to_tx`, `on_tx`, `on_rx` and `to_rx` each hold
one mutex and are one action each; `set_tx_enabled` takes two mutexes in turn and
is two, `set_tx_enabled` (the queue) and `set_tx_enabled_flag`, between which
other threads run.  The loop of `on_tx` is a fold of `AllocateSegment`, that of
`update_rx_sn` a fold of `UpdateOne`.  `LlcRlf`, `PdcpRlf`, `Exchange`,
`ActivateTx` and `ActivateRx` are what the RRC of the two ends does to the halves.

* Octets and buffers are represented as in `PdcpUlDl`; `Reset` keeps the buffer
  of an entry, as the code does.
* `fate` says what became of each frame and is history only.  A frame is `missed`
  when the first PDU that arrives has overtaken it: `on_rx` synchronizes to whatever
  comes first (`PDCP.cpp:416-420`) and ignores the rest as "before".
* `on_rx_malformed` is `on_rx` of a PDU that ends inside a header or a segment: what
  comes before that place is taken.  It counts as a loss.
* `Exchange` may follow any fault, as somebody may ask for it; it has to follow only
  where a frame to send asks for it (`auto_init_on_tx`).
* The LLC below delivers in any order within `max_lag` frames, up to
  `max_copies` of its PDUs twice, and loses up to `max_losses`.
* `allow_reordering` is always set: without it `segment.set_SN` in `on_tx`
  writes through a null pointer.

### TxScheduler

A tick is `TickBegin`, one `TickProbe` for each channel, passes (`TickPass`) with
one `TickServe` for each channel that is called, and `TickEnd`; other threads
queue frames, acknowledgements and retransmissions, enable and remove channels in
between.  `on_tx` is the outcome of `LLC::on_tx` as the scheduler sees it.
`std::sort` leaves the order of equal deficits open, and so does `Sorted`.  The
frame is built in a `buffer` that still holds the headers of the frame before
it, and `process_rx_frame` is what the other end makes of it.

### EndPoint

The reactor, timer2 and the two threads of an end point are modelled by their
loops; the ticker, timer1 and rrc_rx only send or have to end.  A handler of
LCRRC is a sequence of operations like in `LcRrc`, with the assignments between
two calls of `check_state` as one step, and the exchange with the other station
reduced to its outcomes: answered, not answered, or asked for by the peer.
`TxTop`, `TxSelect`, `TxRecv`, `TxToPdcp`, `TxAccept` and `TxEvent` are the parts of
`run_pdcp_tx`; `recv_set` keeps what was ready, since the code clears it only
once.  Every try of `to_tx`, also one that the full queue refuses, asks for the
channel if it is down (`AskForChannel`).  `BeginTeardown` and `Teardown` are `~AppRRC`, run by `main` after the
console command `stop` or by the watcher of the configuration file.

* `session` counts the failures of the link, and `sent` records in which session
  something was received and in which it was sent.
* `MaxEvents` bounds the events that wait for the reactor; a try that would exceed
  it waits.
* The select loops go round again when `errno` is `EINTR` (`TCPServerEndPoint.hpp:270`,
  `TCPClientEndPoint.hpp:232`, `UDPEndPoint.hpp:147`, there also for `EAGAIN`), without
  looking at the result of `select` first.  `TxSelect` leaves this out: the program
  installs no signal handler, so nothing sets `EINTR`.
* Assumed of timing: threads have started before anything else happens; an
  RLF or a new request does not come within the 100 ms of an activation
  (`rrc_rlf_race` shows what happens otherwise); the rx thread has done its work
  within them; a client does not connect while its tx thread is between `select`
  and `recv`; the reactor returns before the end points are destroyed.
* Applications read, so `send` does not block.

## 3. Runs

| Run | Bounds | What it shows |
|---|---|---|
| `llc_am` | 3 PDUs one way, SN space 4, window 2, ring 3, one retransmission | `AckedWasReceived`, `NoSilentLoss`, `GiveUpOnlyAfterMaxRetx` and the refinement of `AmLink` through losses, reordering, late ACKs and RLF |
| `llc_duplex` | the fault tolerant end sends two PDUs, the other one, SN space 2, window 1 | with ACKs and data in both directions, RLF at one end and drops at the other: which PDUs may be given up early (`GiveUpOnlyAfterMaxRetx` with a substitute); every PDU is settled in the end |
| `llc_ul` | 3 slots, 3 sequence numbers, recheck 1..3, one retransmission | structures and counters agree, no internal error although the ring fills up, no early check, every sequence number is freed again |
| `pdcp` | frames of 1 and 2 octets, SN space 4, the five settings `Sound` of `MCPdcpUlDl` | through reordering, copies, damage and a reconfiguration: whole frames, in order and once each with reordering; outstanding bytes exact; nothing stranded; every frame emitted in the end |
| `rrc` | two loads, 3 tries: a set-up at each end, one RLF, one loss; a set-up at one end, an RLF at each, two losses or late answers | at rest the layers match the state; an exchange in which nothing is lost or late makes both ends active; every exchange ends |
| `pdcp_window` | frames of 1 and 3 octets, SN space 8, ring 4, the five settings `Sound` of `MCPdcp` | whole frames, in order and once each through losses, copies, malformed PDUs, the SN wrap, a fast forward and a fault; nothing stranded; no fault without a loss |
| `sched` | 3 channels, frames of 8 octets, the six `Loads` of `MCTxScheduler`, up to 12 slots | ticks end unless a channel with data has quantum 0; no starvation; one data PDU per channel and slot; the receiver finds what was packed |
| `end_point` | one channel, the seven `Settings` of `MCEndPoint`, up to 2 connections | no connection hangs, a close is noticed, a server mixes no sessions, stopping ends |

The settings of `pdcp` differ in configuration and in what surrounds the
channel: (1) segments in any order across the SN wrap; (2) repeated and damaged
copies, without a wrap; (3) a ring of one slot, so that most frames go through
`overflow_deque`; (4) no reordering, every PDU in slot 0; (5) segmentation
without reordering and without a ring.  In (2) and (5) `reconfigure` switches
`min_commit_size` between 2 and 4.  A `reset` may change the setting.

Why the bounds are enough: with 3 PDUs, SN space 4 and one retransmission each
the SN counter wraps, both rings are reused, two PDUs are outstanding at once,
a PDU reaches `max_retx_count`, the link fails and comes back with PDUs still
on the air.  (A ring of 4 passes as well, with 2.4 million states, in more time than a
run should take.)  `IdlePeerView` merges states that differ only in the slot of an
end that has nothing to send.  For PDCP, frames of one and two octets and
buffers of 2, 3 and 5 give whole frames, split frames, several segments in one
PDU and a PDU that ends one frame and begins the next; 6 frames with SN space 4
wrap the counter and reuse every slot.  For RRC, one set-up at each end lets
exchanges cross, follow each other or start while the channel is active; one
loss leads through all the tries to the forced RLF, and a late answer meets the
retry of its request.  (Set-ups at both ends with a late answer and without RLF pass
too, with two tries: 1.2 million states, in more time than a run should take.)

The settings of `pdcp_window`: (1) segments in any order and a copy; (2) a failure
of the link and frames enough to come round to the entries it left; (3) two losses
and a copy, where PDCP makes a fault of the loss; (4) a loss and a copy, where PDCP
moves on; (5) frames set up the channel, also after a failure.  SN space 8 with
5 frames from 6 on wraps the counter, and ring 4 reuses every entry.  The loads
of `sched`: little traffic of every kind; channels that are disabled and removed,
one of them unknown to the peer; channels with more queued than all slots carry,
under two divisions of the frame; the same beside a control channel with first
call on every frame; a channel with a quantum of 0.  12 slots are enough for the
deficits to come round.
`NoStarvation` is about quanta that fit into a frame together (`QuantaFit`); if
their sum is larger, as in the `dualwifi` configurations (512 and 1450 of 1450
octets), a small one may wait for as long as the larger ones have data.  The
settings of `end_point` are the situations named in `MCEndPoint`; `QueueSize = 1`
makes the queue full with two datagrams.

Runs that show a disagreement between the code and what the repository says of it:

| Run | What TLC shows |
|---|---|
| `llc_sn_wrap` | the window does not divide the SN space (25 and 30 against 256 in the code and examples): around the wrap two sequence numbers share an entry of `sn_ring`, and an ACK releases a PDU that never arrived |
| `rrc_retry` | a retry of a request does not carry it: one lost message fails the exchange |
| `rrc_rlf_race` | `on_rlf` on the reactor and `activate` on the timer thread overlap: layers stay enabled in state `NOT_CONFIGURED` |
| `pdcp_stale_tail` | a frame interrupted by a fault leaves its octets in the ring; a shorter frame with the same SN is emitted with them at its end |

Where a promise has an exception in the code, the property states it:

* with `allow_rlf=0` a new PDU inherits the retry count of the dropped one it
  replaces and is given up after one transmission (`LLC.cpp:419`, `InheritedCount`
  in `LLC!GiveUpOnlyAfterMaxRetx`; reached in `llc_duplex`);
* with `allow_rlf=0` a fast forward of `update_rx_sn` that has emitted the frame it
  was called for goes on dropping once round the SN space and leaves `rx_sn` at that
  frame; a copy of it is then emitted a second time (`PDCP.cpp:291`, the condition
  of `Pdcp!EmittedInOrder`; reached in setting (4), which violates the property
  without its condition);
* the octets a fault leaves in the ring (`pdcp_stale_tail`) do not need segmentation:
  a complete frame that waits at the fault leaves its octets too, and a shorter frame
  gets them once the ring comes round (`Pdcp!Intact` asks for the exact length only
  without losses and failures; reached in setting (2));
* frames that the first PDU has overtaken are lost without a word at every new
  synchronization (`PDCP.cpp:416-420`, fate `missed`; reached in settings (1) and (2));
* a frame that is queued between the two halves of `set_tx_enabled(false)` finds
  the channel still enabled and asks for no exchange, although `auto_init_on_tx` is
  set; it waits for the next frame (`PDCP.cpp:43-67, 548`, `NobodyAsks` in
  `Pdcp!EventuallyEmitted`; reached in setting (5));
* a channel with data and a quantum of 0, which `main.cpp:163` accepts, keeps `tick`
  in its loop for ever, with `this_mutex` held (`TxScheduler.hpp:249-305`,
  `HeldForEver` in `TickEnds`; reached in the last load of `sched`, which violates
  `TickEnds` without it);
* `llc_ul.cpp:144` notes that `SPURIOUS_ACK_TX` "can happen if ack got duplicated",
  and `llc_ul.hpp` documents `NO_TX_SLOT`; neither can happen (`NoInternalError`): a
  repeated ACK is reported as `SPURIOUS_ACK_SN`.

Two more are outside the settings of the passing runs:

* with a ring smaller than the reordering, segments of one frame are divided
  between `overflow_deque` and the slot that became free meanwhile, and the frame
  never completes (`pdcp_dl.cpp:211`; `NothingStranded` fails with
  `With(TRUE, TRUE, 1, {2}, 3, 3, 0)`);
* a copy of an emitted frame takes a free slot and is emitted again when the SN
  comes round (`pdcp_dl.cpp:114`; `ImplementsFrameChannel` fails with
  `With(TRUE, TRUE, 4, {2}, 6, 2, 1)`).  `pdcp_dl` has no window to tell such a copy
  by, so what it promises, and what the property says, is about copies that come
  within one round of the SN.

The run `pdcp` therefore keeps the lag within the ring when there are segments, a
ring size that divides the SN space, and no copies across a wrap; the passing RRC
run lets no RLF be handled while an activation is under way
(`RlfDuringActivation = FALSE`).  `pdcp_window` has no fault in the setting with
segments, and keeps lag and losses below the ring size.

The passing LLC runs rest on a condition the code does not enforce: an ACK is back
in less than a window, and where the window does not divide the SN space in less than
the remainder (`WindowFits` in `LLCProofs`; `llc_sn_wrap` breaks the second part, and
with `MaxRoundTrip = ArqWindow` an ACK releases the PDU sent one window after its
own).  The model also has the early retransmission of a PDU that was sent in the
last slot of `tx_ring`: `sent_index = -1` of an unused slot aliases it.

## 4. Fairness

`LLC!Fairness`: the ticker thread never stops (each tick probes the LLC and ends, `OnTxProbe` or
`OnTxNoRoom`); the
deficit of an LLC with data grows in every round until it fits, so data calls
that become possible again and again are made (strong fairness of `OnTxData`);
the reactor drains its queue (`HandleRlf`) and the 100 ms timer fires
(`Activate`).  Nothing is assumed of the air: `EventuallySettled` holds even if
everything is lost.  `LlcUl!FairSpec`: the caller advances the slot, and gives
retransmissions their turn in some of the slots.  `PdcpUlDl!Fairness`: the LLC
delivers what it took, and its scheduler offers PDCP room again and again.
This is weak fairness of `Write` and `Receive`, with their guards written out
in place of ENABLED because TLC evaluates those much faster.  `LcRrc!Fairness`:
the reactor and the thread of `timer2` keep running at both ends, and what LCID 0
does not lose arrives.  `Pdcp!Fairness`: the scheduler offers room, the LLC
delivers, and RRC handles its events.  After a fault nothing in `LCRRC::on_rlf` asks
for a new exchange, so `Exchange` is fair only with `auto_init_on_tx`, where a frame
asks for it; that an exchange asked for succeeds in the end is assumed (`LcRrc` has
what it takes).  `TxScheduler!Fairness`: the ticker runs.
`EndPoint!Fairness`: each of the threads runs, the ticker goes on sending, and
main destroys AppRRC once the reactor has returned; nothing is assumed of
applications, the console or the other station.  The runs of `LcRrc`, `Pdcp`,
`TxScheduler` and `EndPoint` do not check deadlock: with the bounds used up and
everything at rest, or stopped, nothing is left to do.

## 5. Proofs

The theorems have the form `Spec => []P` or, for the refinements, `Spec =>
ImplementsAmLink` and `Spec => ImplementsFrameChannel`, and are proved from the
inductive invariant of their component, action by action; `UpdateEnds` is a theorem
about one operator.  The invariants were checked with TLC before they were proved.
The constants are arbitrary; what is assumed of them are the named `ASSUME`s of
the modules and the hypotheses below.

**llc_ul** (`LlcUlProofs`), for every ring size, SN space, recheck range and
retry limit that `validate_config` accepts (`ConfigAssumption`):

* `TypeCorrect`, `StructuresConsistent`, `SlotKeptFree`,
  `InternalErrorsUnreachable`, from one inductive invariant `IInv`.  The four
  parts need each other: an ACK takes the slot of its sequence number for
  granted (`Consistent`), the internal error branches are dead because of that,
  and `enqueue_tx_check` cannot fail because its search, which goes once round
  the ring, at last meets the current slot (`CurrentSlotFree`, `SearchReaches`);
* `CountersCorrect`: each action changes the counters by as much as the
  cardinality of what they count;
* `RecheckDistanceKept`: under the extra hypothesis `MaxRecheck <= TxSize`,
  no PDU is checked early.  `validate_config` also accepts a larger
  `min_recheck_slot_number`; the slot index then wraps and the PDU is checked
  after the distance modulo `tx_size`.

**LLC** (`LLCProofs`):

* `TypeCorrect` needs no hypothesis.  `TypeInv` adds to `TypeOK` the types of
  what is on the air, and that a slot that waits for its ACK holds a PDU.
* `AckedWasReceivedHolds`, `NoSilentLossHolds`, `GiveUpOnlyAfterMaxRetxHolds` and
  `RefinesAmLink` assume `WindowFits`: no ACK is under way for as long as a window
  and, where the window does not divide the SN space, for as long as the remainder.
  The default window of 25 meets it if ACKs are back within 5 slots (256 % 25 = 6),
  the window of 30 of the examples within 15.  The code does not enforce it, and the
  run `llc_sn_wrap` shows that it cannot be dropped.  `OwnEntry` is what follows: the
  numbers sent within a round trip have entries of `sn_ring` of their own.  The heart is which PDU a number leads to: whatever names a
  sequence number (a data PDU on the air, an ACK to be sent, an ACK on the air)
  is younger than that, so the entry of `sn_ring` it leads to is still
  the one its PDU was sent with, or is no longer waiting.  `IInv` puts this
  together with where each PDU is held and that no PDU is held twice.
* `GiveUpOnlyAfterMaxRetxHolds` covers fault tolerant ends too: the count a PDU is
  checked with is the number of its retransmissions, or it is a substitute that was
  sent once, after a PDU that had all its transmissions (`Counted`).
* `RefinesAmLink` maps what PDCP handed over, what the sender holds and what it
  gave up to the variables of `AmLink`; each action is a step of `AmLink` or
  leaves those unchanged.

**TxScheduler** (`TxSchedulerProofs`), for any number of channels, frame and PDU
sizes, quanta and traffic, without hypotheses:

* `TypeCorrect`: the room in a frame and the deficits, unsigned in the code, never
  go below zero.  `TInv` adds `ChargeCovered`: what a channel has allocated in
  this tick is within its deficit, from which it is taken at the end of the tick.
* `OneDataPduPerSlotHolds`, by `DataIsNoted`: a channel whose data are in the
  frame has `has_data_allocated` set, and is not offered room for data again.
* `UnpackedAsPackedHolds`, by `Layout`: while the frame is filled there are positions
  at which its PDUs lie in the buffer one after the other, up to the cursor, each as
  large as its size field says.  `process_rx_frame` then goes from each position to
  the next (a loop invariant over `UnpackOne`) and stops at the end that `tick`
  marks, whatever an earlier frame has left behind it.

**End points** (`EndPointProofs`), for any number of connections, messages,
failures and requests, without hypotheses:

* `TypeCorrect`, with the limit of PDCP's transmit queue.
* `OwnSessionHolds`.  The code never empties PDCP's receive queue.  That a server
  is not given the rest of an old session follows because the rx thread has
  drained it when the next activation starts (`Current`), and because the handlers
  of the reactor and of timer2 that end and begin a session do not overlap
  (`Apart`, `Ordered`).  The assumptions on timing listed in section 2 are guards
  of the model and so part of the theorem.
* `NoConnectionHangsHolds`, by `HInv`.  Handlers clear or set the flag for tx, then
  that for rx, then call `check_state` (`InOrder`), and a failure does not overlap
  an activation (`NoOverlap`); so the two flags differ only while somebody has
  the second one still to change (`Flags`).  A connection without an active channel
  has something ahead that activates the channel or closes the connection (`Kept`):
  an event, a timer, or an operation of the reactor or of timer2; an active client
  without a connection is about to connect or to give up the link (`Connected`); and
  the tx thread watches the connection or will be woken (`Watching`, `Woken`).  At
  rest nothing is ahead.

**LCRRC** (`LcRrcProofs`), for any number of set-ups, failures, losses and tries:

* `TypeCorrect` needs no hypothesis: `Types` gives each operation, timer, event
  and message its type.
* `LayersMatchStateHolds` assumes `~RlfDuringActivation`; the run `rrc_rlf_race`
  shows what happens otherwise.  `Orderly` says of one end: timer2 is in at most
  one handler, with the timers it has still to call after it; a handler of the
  reactor that does not end in an activation or a request is `on_rlf`; such a
  handler and an activation exclude each other (`Exclusive`); and the end is
  `Settling`.  That is, an activation, a failure, a response or an expiry is
  still to come, or every layer that does not match the state has its
  `set_enabled` ahead of it and nothing ahead undoes one.  At rest only the
  layers that match remain (`AtRest`).
* `EstablishedTogetherHolds` needs no hypothesis: that nothing was lost or late and no
  layer gave up is part of the property.  `Exchange` says of each end: a request
  that waits is on its way, there or back (`OnItsWay`), so timer2 has taken no
  timer of it (`Stale`) and only ever activates (`OnlyUp`); what the reactor
  takes down it puts up again in the same handler (`Restores`); and an end that
  has sent a request has left NOT_CONFIGURED or is about to, as has the other
  end unless a request is still on its way to it (`Known`).  At rest nothing is
  on its way, and `AtRest` leaves only ACTIVE.  A request whose timer fires before
  its answer counts as lost, and the property speaks of exchanges without.

**Loops** (`Loops`).  The models write a loop as `FoldLeft(Step, base, seq)`.
`FoldRounds` says that this is `Step` applied once per element, and `LoopInvariant`
that what holds before the loop and is kept by every round holds after it, where
the invariant is a family of sets, one per round, and `Step` a constant operator for
which a module substitutes its own with `INSTANCE`.  Both follow by induction from
the well-foundedness of < on the naturals, with sets in place of the predicates
that the provers cannot instantiate.  `Loops` also has the arithmetic of `%` that
counters with a width need.

**PDCP** (`PdcpProofs`), for every set of configurations, every frame and allocation
size and every SN space that is a multiple of the ring (`SizeAssumption`; 2^16 and
8192 in the code):

* `TypeCorrect`, from `TInv`: the ring has its type, and the offset of the sender
  is inside its current frame, so that no round of `on_tx` writes an empty segment.
* `UpdateEnds`: the `while (true)` of `update_rx_sn` ends, in whatever state the ring
  is and whatever the sequence number.  While it emits, each round empties an entry,
  so that after `RingSize` rounds nothing complete is left; from then on each round
  brings `rx_sn` nearer to the target, and it stops there at the latest.  The model
  cuts the loop off after `SnMod + RingSize` rounds; the theorem says that the cut
  changes nothing.
* `PendingWithinDistanceHolds`: without segmentation what waits in the ring is within
  `max_sn_distance` of `rx_sn`.  `PInv` adds that every PDU on its way and every entry
  is a whole frame.  Inside `update_rx_sn` the entry of the PDU that was just received
  may be farther ahead; `WithinAfter` follows its distance round by round until the
  fast forward has caught up.  That segmentation is off is part of the property.

**pdcp_ul and pdcp_dl** (`PdcpUlDlProofs`), for every frame and buffer size, SN space,
ring and number of frames:

* `TypeCorrect` and `UnwrittenExact` need no hypothesis.  `WriteInv` is the invariant
  of the loop of `write_pdcp`: where the sender is, what it has cut off so far, and
  that the octets counted off are those of the segments written.
* `BytesExactHolds`, `IntactHolds`, `NothingStrandedHolds` are about the configurations
  `Orderly`, and `RefinesFrameChannel` assumes that every configuration that reorders
  is one.  `Orderly` says: the receiver reorders; the LLC delivers nothing twice; what
  may overtake a PDU spans at most the SN space and, if frames are cut, at most the
  ring, whose size then divides the SN space; and no buffer is so large that one PDU
  carries frames of more than that window.  Section 3 shows with TLC that copies and a
  lag beyond the ring break the properties.  The first and the third setting of
  the run `pdcp` are orderly; the second has copies and stays with TLC.
* The inductive invariant is `IInv`: `TInv`, and `Ordered` wherever the configuration is
  orderly.  The heart of `Ordered` is `RInv`, which says of the frames between the last
  one emitted and the last one written: they fit into the window (`Window`), each
  slot and entry belongs to one of them and sits where `get_or_create_state` will look
  for it (`Placed`), holds octets of that frame only (`StatesOk`), every segment under
  way fits its frame and is not yet received (`SegOk`), no two segments overlap
  (`Apart`), and every octet written is received or under way (`Covered`).
* That the window holds after a write is the part that needs the LLC: the next frame
  to be emitted is not complete, or the flush would have emitted it, so something of
  it is under way; nothing may be sent that overtakes that by more than `max_lag`.
  That the flush has emitted all it could: each round frees a slot or an entry, so
  the bound on its rounds (`Entries`) is never what ends it.
* `RefinesFrameChannel`: `on_frame_data` is `Accept`, `on_pdcp_data` is `Deliver` of as
  many frames as the flush emits, or a stutter, `pop` is `Collect`, `reset` is `Reset`,
  and `write_pdcp` changes nothing the abstract channel sees.

Only model-checked:

* liveness (`EventuallySettled`, `TickEnds`, `CloseNoticed`, `StopCompletes`,
  `ExchangeEnds` and the others): fairness and ENABLED are beyond the prover;
* `Pdcp`: `Intact`, `NothingStranded`, `RlfOnlyOnGap` and `EmittedInOrder`.  With faults,
  losses and fast forwards they hold only under the bounds of the settings (section 3),
  not for a class of configurations that could be stated as a hypothesis;
* `PdcpUlDl` with copies, or without reordering: there only the types and
  `UnwrittenExact` are proved;
* `NoStarvation` of `TxScheduler`: it adds up, over many ticks, what all the channels
  together were given, and no invariant of one state was found that carries that sum.

## 6. Not modelled

* Transparent mode (no protocol state), statistics and logs, CRC and frame
  layout, raw sockets, the generated RRC codec, the parsing of configuration
  files, the configuration that an exchange carries.
* `basic_fec.cpp` beyond the one type in use, which adds one octet.
* The first instants of a thread: each sets its running flag itself, so a stop
  before that is undone (`AppRRC.cpp:433`, `TxScheduler.hpp:117`).
* `TxScheduler::reconfigure` of a running scheduler, which would hold
  `this_mutex` while it joins the ticker; AppRRC calls it before the start only.
* The use of AppRRC's reactor after the watcher has destroyed it (`main.cpp:298`),
  which is undefined, and the `errno` that the select loops look at (section 2).
* A client keeps `pending`, and PDCP its receive queue, across sessions; an
  application that stops reading blocks the rx thread and with it the stop.
* Most lines of the repository are vendored or generated: `cpp_dependencies/`
  (googletest, json.hpp, and others) and the RRC codec.  They are not part of the
  protocol and have no model; the models cover the files of `winject/src/`.

## 7. Plan

1. Models and runs: `LLC` with `AmLink`, `LlcUl`, `PdcpUlDl` with `FrameChannel`,
   `LcRrc`, `Pdcp`, `TxScheduler`, `EndPoint`: done.
2. Proofs: `LlcUl`; `LLC` with its refinement of `AmLink`; types, `OneDataPduPerSlot`
   and `UnpackedAsPacked` of `TxScheduler`; types, `OwnSession` and `NoConnectionHangs`
   of `EndPoint`; types, `LayersMatchState` and `EstablishedTogether` of `LcRrc`; types,
   `UpdateEnds` and `PendingWithinDistance` of `Pdcp`; `PdcpUlDl` with its refinement of
   `FrameChannel`: done.
3. Open: `NoStarvation`, and the order of emission in `Pdcp` without losses and faults.
