# TLA+ models of the IOIO firmware and host library

The IOIO is an I/O board for Android phones and PCs. Its firmware
(`src/firmware`) talks to a host library (`src/IOIOLibCore`) over one of four
kinds of channel: ADB, Android Open Accessory, Bluetooth and a serial port over
USB. This directory holds TLA+ models of the board, the stacks below it, its
bootloaders and the library; TLC checks them on small instances, TLAPS proves
the core for all sizes. `PROJECT.json` maps every definition to the lines it
models and lists the hazards, runs, mutants, findings and theorems.

## 1. Inventory

The board is a single main loop plus interrupt handlers. The host library has
an incoming thread, one flush thread per output stream, a watchdog, and the
application's threads. Each direction of a connection is a stream of bytes that
arrives in order, cut anywhere.

| Component | State | Operations | Hard part | Correct when |
|---|---|---|---|---|
| byte queue `common/byte_queue.{h,c}` | ring buffer, two cursors, size | push, pull, peek, clear | one side is an interrupt, no masking, peeked data used in place | bytes come out once and in order |
| protocol `protocol.c`, `IOIOProtocol` | OPEN/CLOSING/CLOSED, `tx_queue`, `bytes_out`, parser state | send, tasks, handle incoming; writers and incoming thread of the host | nothing marks the end of a message; lengths that depend on earlier messages; pieces pushed one by one | each end does what the other asked for |
| UART output `uart.c`, `FlowControlledOutputStream`, `UartImpl` | credit, queues, packet taken, bytes to report | open, write, flush thread, close; configure, transmit, TX interrupt, report | credit with messages in flight both ways, a thread that outlives its stream | credit is neither lost nor invented |
| SPI, I2C, ICSP `spi.c`, `i2c.c`, `icsp.c`, `FlowControlledPacketSender` | message state machines, queues, credit | configure, transmit, interrupts, reports, results | hardware that shifts on during the interrupt, a slave that refuses any byte, no flow control of results | every answer reaches its request |
| sequencer `sequencer.c`, `sequencer_asm.s`, `SequencerImpl` | cue queue, run flags, timer, events; slots on the host | open, push, start, stop, pause, manual, close; T2 and OC interrupts | interrupts between steps, five places that keep one count, blocking calls | slots are promised once, calls return |
| analog inputs, input capture `adc.c`, `incap.c` | scan and capacitive sampling, blocked flag; armed mask, capture flags | requests; T3, ADC1, CRC, IC and T5 interrupts | channels and modules change under the interrupts | what is reported is what was asked for |
| pins, digital I/O `pins.c`, `digital.c` | tables, modes, change notification | set direction, open, close, notification | three layouts, a pin closed with an interrupt pending | a client reads the level of its pin |
| main state machine `main.c`, connection layer `libconn`, ADB channels `adb.c` | state, channel handle, one state machine per kind of channel | INIT ... ERROR, open, close, send, tasks, attach, detach | callbacks in any state, peers that go at any time, failed transfers | every connection starts reset, the next one is always served |
| reset `features.c` | all peripherals, `preserve_outputs` | soft reset, reset on disconnect | exactly once per connection | outputs are kept when asked for, and only then |
| host life cycle `IOIOImpl`, `IncomingState`, `ResourceLifeCycle`, `IOIOBaseApplicationHelper` | connection states, listeners, watchdog | connect, open, disconnect, stop | three threads that declare the connection lost | every resource hears of it, stop() returns |
| bootloaders `bootloader`, `device_bootloader`, `bootloader_common`, `libadb/adb_file.c` | Flash, fingerprint, calibration, file and channel states, parser | check, download, authenticate, erase, write, run | power loss between any two writes, packets cut anywhere, callbacks that close | a fingerprint means a complete authentic image |
| USB host `usb_host.c`, `adb_packet.c`, `usb_host_android.c`, `usb_host_bluetooth.c` | endpoints, toggles, tokens, enumeration state | transfers, enumeration, clients, events | lost packets and handshakes, NAK, stall, detach at any time | data exact, everyone served, clients are those plugged in |
| USB OTG `usb_otg.c`, `libusb/usb.c` | role, session, HNP and SRP flags | role changes, VBUS, ID | interrupts during enumeration and shutdown | the role fits the plug |
| USB device `usb_device.c`, `usb_function_cdc.c`, `usb_device_cdc.c` | buffer descriptors, control transfer state | SETUP, IN, OUT, reset, halt; serial port | a PC that abandons and retries, ping-pong buffers | data exact, the next SETUP is always taken |
| Bluetooth `libbtstack`, `bt_connection.c` | multiplexer, channels, credits, commands, keys, records | handlers and run loops of each layer | busy endpoints, single slots, replies that must wait | both ends agree; what waits is sent later |
| PWM, timers | registers | set | none beyond the reset | - |
| desktop and Android bindings, tools | devices found, threads of user interfaces | - | platform I/O | - |

Interactions: interrupts and main loop share the byte queues and a few flags;
protocol.c calls the peripherals and they queue messages through it; main.c and
the connection layer call each other (tasks down, callbacks up); the USB stacks
call the clients of libusb and libconn; the host library's incoming thread calls
the listeners of open resources, which other threads open and close.

## 2. Modules and the code

Each module has one action per handler or call, split where another actor can
run. Where a handler calls others and runs to its end, the callees are
operators on the record that holds the component's variables.

**ByteQueue, BoundedFifo.** `producer` and `consumer` say where each side stands
inside its call. A push is check, store (`PushStore`), publish (`PushPublish`,
the atomic add to `size`). A pull of a byte is take and release; a peek is
followed later by `ByteQueuePull`, `PullRelease` and `PullWrap`. Bytes are
numbered in the order they were accepted, so that a lost, repeated or misplaced
byte shows. A clear happens only when both sides are idle, as in the code.
`BoundedFifo` is the queue that byte_queue.h promises.

**UartStream.** Configuration messages divide the traffic into epochs (odd:
open, even: closed); what is in flight is a count per epoch, because each
direction is FIFO. The flush thread is two actions (`FlushTake` inside the
lock, `FlushSend` outside), since the code sends outside. Bytes that a closed
session's thread sends late are counted apart (`stale`, `tx_stale`, `tainted`).
Left out: the receive direction, `flush()`, loss of the connection.

**Sequencer.** The host side is `SequencerImpl` per session with its blocked
`push()` and `close()`, and `IncomingState`'s listener queue. The board side is
the main loop (handling a command, inside `SequencerPush` where the timer
interrupt may come, in `SequencerTasks`, or in main.c's error exit), the T2
interrupt and the OC interrupts of a close. A cue is one unit of `queued`.
`fault` records which handler returned false. The release build defines
`NDEBUG`, so the model goes on where asserts would stop. `Careful` says whether
the application keeps to rules the API does not state: close only after the
opened event and with no push blocked; after `pause()` or `stop()` wait for the
answer before starting again. Behaviours are followed up to the first event
that breaks the slot account (`Undisturbed`): an event overwritten in a full
`event_queue`, or a push of an older session. The account (`SlotBound`) is about
the session that is open on the board: what its `availableSlots_` will be when
all events on their way have been handled (`Promised`; an "opened" sets the
number, others add to it), with its pushes on their way and the cues that wait,
is at most the length of `the_sequence`.

**Session.** One action per call of the main loop (`pc` is the next one): the
four factories' `tasks()` with the callbacks they make, then the switch of
`main.c` with `AppProtocolTasks` and the dispatch of `connection.c`. Between
them peers attach and detach, transfers finish or fail, and interrupts queue
messages. A message is a unit of `tx_queue`; a received buffer holds one or two
messages, so that something can stand behind a SOFT_CLOSE or a refused message.
`configured` stands for all peripherals, `outputs` for the digital outputs that
`preserve_outputs` may keep. An error with an invalid handle leads to
`UNDEFINED`, after which nothing is followed. Assumed: a peer needs many rounds
of the loop to enumerate, a serial port stays closed for at least one round, a
host sends nothing before it has seen ESTABLISH_CONNECTION; only hosts in
`Faulty` send what the board refuses or go on after SOFT_CLOSE. Bytes are in
the next two modules.

**HostToBoard, BoardToHost.** The two streams byte by byte. On the way down,
what each method of `IOIOProtocol` writes, shifted and masked as it does, cut
into buffers anywhere, against the parser and `MessageDone` of protocol.c with
its checks, down to the call that the board makes. On the way up, the structs
and variable arguments that protocol.c pushes piece by piece into `tx_queue`,
packets of any size taken from it, and `IncomingThread` reading byte by byte.
The length of an analog report depends on the last format message, and that of
a cue on the sequencer's configuration.

**InCap, AnalogIn, Pins.** Input capture with InCapConfig split where the
interrupts come in, arming by timer 5, single and double modules, every mode
(times are left out: only which captures make up a report is kept). Which
modules make a pair and which are single is fixed by the layout
(`Board.java:147`, `152`), and the second half of a pair has no pin of its own.
Analog sampling with its three interrupts, blocking of the timer, formats and the
host's listeners. Pins has the tables of all three hardware layouts (`ASSUME
TablesAgree`: number to port and back), what opening a pin for each use sets
and clears, and change notification up to the value a client reads.

**SpiMaster, I2cMaster, IcspMaster.** A module with its interrupt handler
against hardware that shifts while the handler runs (SPI) or a slave that may
refuse any byte (I2C), the main loop's reports and results, the credit of the
packet sender and the client that waits. The queues hold the bytes the code
puts there. `PacketSender` is the sender object; a bus master has one for each
session. Its thread takes a request under the lock and sends it outside, and
`close()` interrupts it without waiting, so a request may reach the board behind
the configuration of the next session. The model reaches this (`sStale`,
`iStale`) and follows the behaviour no further: credit and answers of two
sessions are mixed from there on. It also stops at the first byte that finds
I2C's receive queue full, which a request with nothing to write and nothing to
read brings about. Each bus has one client thread.

**HostLink.** `IOIOThread.run` and `abort`, `waitForConnect`, `disconnect` and
`disconnected` of IOIOImpl, the states of IncomingState, the incoming thread
and the watchdog, and one digital input as the resource. A synchronized block
that cannot wait is one step; IOIOImpl's lock is a variable only where it is
held over two steps (opening). A thread in `wait()` sleeps until notifyAll or an
interrupt.

**IoioFile, PhoneBoot, PcBoot, XmlAuth.** Program memory and the installer that
both bootloaders use, one step per operation on the Flash, because the power
may fail between two. PhoneBoot is bootloader/main.c over ADB channels and files
with a phone that goes and comes; PcBoot is device_bootloader with ioiodude at
the other end and the calibration that shares a page with the fingerprint.
While ADBFileCallback handles a buffer, nothing else of the main loop runs.
XmlAuth is the streaming parser and the search for the manager's certificate,
checked against a definition on the whole document.

**UsbXfer, AdbPacket.** Transfers of the host: USBHostRead, USBHostWrite and
USBHostIssueDeviceRequest start one, `_USB_FindNextToken` chooses, the interrupt
works through NAKs, stalls, lost packets and lost handshakes, and a frame may
begin at any moment, also while a token is out. `XfServed` counts, for every
endpoint with a transfer that is due, the answers since the frame began: it must
get its token or end within as many answers as there are endpoints, unless a bus
error cut the frame short. AdbPacket is
adb_packet.c over the bulk endpoints of the Android client. A packet is a
number of bytes; toggles are kept.

**UsbHost, UsbOtg.** `USBHostTasks` with its substates and the clients it starts
and stops; the OTG layer; `USB1Interrupt`, the whole interrupt handler with its
flags in the order the code tests them (timer, attach, detach, ID, session end,
session valid, resume), each seeing what the earlier ones did; and `USBTasks`.
Around them a socket with a cable, a device or a computer; one device takes so
much current that VBUS does not rise. `UoServed` says that a device a driver
wants is in use in the end; STATE_HOLDING is right only for a device that nobody
wants, or when the bus has failed as often as enumeration is tried (`Hurt`).

**UsbEndpoints, UsbDevice, UsbCdc.** The buffer descriptors shared with the
serial interface engine, the control endpoint with standard and CDC requests,
and both directions of the serial port, against a PC that resets, abandons and
retries, and a cable that is pulled. `USBDeviceTasks` is one step: attach, bus
reset, stall, then all entries of U1STAT.

**Rfcomm, L2cap, Hci, KeyStore, Sdp.** The layers of the Bluetooth stack, each
over the interface of the one below. Rfcomm runs when its own L2CAP channel gets
a credit, when the endpoint is free, and when a frame comes; other channels use
the same endpoint and the same ACL slots (`OthersSend`). L2cap answers requests
for channels and queries (ECHO, INFORMATION, unknown commands) through an array
of `L2Pending` responses; one that finds no room is dropped (`lost`). In both, a
frame that waits is sent only if the stack looks again: the event that the
endpoint is free does not make L2CAP look, nor does a completed packet RFCOMM
unless it brings a credit. Where this leaves something behind with nothing else
to come the model marks it (`late`). KeyStore keeps the pointers of the list of
link keys and of the pool its blocks come from: they share a word, and when a
dongle is attached again the pool is filled with every block while the list
still holds its own.

`ByteQueue`, `UartStream`, `Sequencer` and `Session` are run as they are;
`MCBoardIO`, `MCClients`, `MCBoot`, `MCBluetooth` and `MCUsb` put several modules
together. Their parts share no variables, so `Init` picks one part and only
that one moves: their state spaces add and do not multiply. The properties of
those modules are conjunctions of the properties of their parts.

### Modelling notes

- USB host: `USBHostTasks` is one step with respect to the interrupt; a
  countdown of any length is one tick; `bConfigurationValue` is the index of the
  configuration; the OTG descriptor precedes the interfaces; nothing else is
  plugged in before the handler of a change has run (`Noticed`). The SUSPEND
  states cannot be reached in this build.
- USB roles: the nested `USBDeviceTasks` of `InitializeDeviceStack` leaves a
  pending ID change for the next call.
- USB device: a call is atomic with respect to the SIE; the deferral flags are FALSE throughout, as no code sets them; a PC
  waits for reset recovery before a SETUP; a driver neither uses nor abandons an
  endpoint while it changes its halt feature; SET_LINE_CODING with wLength 0 is
  left out.
- Bluetooth: one multiplexer, one channel and one ACL connection, as `config.h`
  says. A call of a run loop inside a handler that ends with the same call is
  left to the latter: a frame makes the endpoint busy, so the two send at most
  one between them.
- Bluetooth: while the control endpoint is busy, `Hci` handles only the end of the
  command itself. The code would take other events too
  (`usb_host_bluetooth.c:244-301`), and then the wrap of `hci_pin` also happens with
  a single phone that pairs while HCI is being initialised.
- Sequencer: an application makes no other call on an object while `close()` waits
  (`Usable`); the code would let it.
- USB host: interface numbers of 2 and more count as ADB's; the code asserts that
  there are none. USB device: a GET_DESCRIPTOR for a configuration that does not
  exist is stalled; the code reads past `USB_CD_Ptr` (`usb_device.c:2220-2232`).
- Pins: the direction that the capacitive sampling interrupts switch for a moment
  (`adc.c:278`, `418`) is left out. PcBoot: a WriteOscTun that fails is left out;
  `device_bootloader/main.c:186` ignores its result.
- Priorities: interrupts of one priority do not interrupt one another; where the
  code masks interrupts the step is atomic.

## 3. Runs

`tlc -config <cfg> <module>`; all finish in minutes.

| Run | Bounds | States | Shows |
|---|---|---|---|
| `byte_queue` | capacity 4, 10 bytes | 48 652 | `ContentsInOrder`, `PullByteReturnsOldest`, `PeekStillThere`; refinement `ImplementsFifo` |
| `uart_stream` | buffers 2, packet 1, 2 sessions | 133 373 | `CreditConservation`, `OverflowOnlyIfTainted`; `WrittenBytesMove`, `CloseCompletes` |
| `sequencer` | 2 slots, 2 events, 1 OC, 2 sessions, 1 lost connection | 727 161 | `SlotBound`, `CarefulIsAccepted`, `TimerFollowsRunning`, `StallIsNoticed`; `CloseReturns` |
| `session` | a peer of each kind, 2 ADB channels, 2 messages, faulty accessory host | 67 860 | `SessionHasChannel`, `CleanStart`, `PullIsBounded`; `SentBeforeClose`, `PreservedOutputsStay`; `SoftCloseEnds`, `PortIsServed` |
| `board_io` | see below | 1 008 858 | `BoardHearsHost`, `HostHearsBoard`, `CapturesAreSound`, `SamplesAreSound`, `ClientReadsLevel`, `ClosedPinFloats` |
| `clients` | see below | 287 045 | `BusResultsMatch`, `LossIsTold`; `BusesFinish`, `StopReturns` |
| `boot` | see below | 775 738 | `FingerprintMeansImage`, `InstalledIsAuthentic`, `CalibrationKept`, `DocumentVerdict`; `BootEnds` |
| `bluetooth` | see below | 5 016 964 | `LinksAgree`, `LinksSettle` |
| `usb` | see below | 3 225 389 | `UsbDataExact`, `UsbServed`, `UsbClientsTracked` |

Why the bounds suffice:

- `byte_queue`: both cursors wrap twice, and every length from 1 to full occurs
  at every position.
- `uart_stream`: two sessions are what a stale packet needs; every packet is a
  unit, so a buffer of 2 fills.
- `sequencer`: two sequencers are what the listener queue and a left-over
  `oc_waiting_close` need; queues of 2 fill and empty.
- `session`: two ADB channels are what a new channel beside a closing one needs;
  two messages are a queue that fills, one being sent.
- `board_io`: every message of the protocol, with the board's own numbers of
  modules and small and largest values of each argument, in every cut, with a
  short one behind it that shows whether the first was read to its end; I2C writes
  of 0, 2, 76 and 77 bytes, the last being one more than fits `rx_msg`, where the
  model stops (`TwiWritesFit`, section 6); a
  `tx_queue` of 32 bytes, which can be full; three capture modules so that a
  double one and a single one are open at once, and three configurations; two
  analog channels and five requests, so that one is closed and opened again
  while the other is sampled; every pin of three layouts with its neighbour, the
  pairs of pin 8 opened twice (`PinsBusy`, `PinsMaxOpens`), with no change of level while two messages are
  unread (`PinsMaxReports`).
- `clients`: queues that hold two requests but not three, requests that write,
  read, do both or neither, a module that is closed and opened again with answers
  on their way and requests that its thread has taken; two instances of IOIO after one another and two openings of the
  input.
- `boot`: images of one to three blocks in two pages, one of them outside the
  allowed addresses; phones with a new, an unchanged, a forged, a missing and an
  overlong manager; one lost connection or power failure at any step, after
  which the board starts again from what the Flash holds; documents with names and
  keys one character too long, too short and right, and a parser buffer of 3.
- `bluetooth`: 2 credits, 2 channels, one pending response and one query (so that a
  response finds no room), two channel ids of the phone, which are symmetric, 3 phones for 2 link keys (so that a record is
  used again), dongles attached twice, SDP limits around each place where an
  answer can be cut. A phone does not page or pair while another one does, except in `hci_pin`
  (`HciOverlap`).
- `usb`: transfers of 0, 1 and 2 packets with a short one, up to two lost packets
  or handshakes per retry limit of 2; devices with one and two configurations,
  OTG descriptors, wrong endpoints, hubs; two plugs; PC transfers abandoned at
  each packet, and a cable pulled with a transfer under way. The budgets are sets: a behaviour has one combination, so that
  the case with many faults need not also have many requests.

Deadlock is checked in `byte_queue` and `session`; the other runs stop when their
bounded number of sessions, requests or faults is used up. There "served",
"settle" and "finish" are invariants about states in which the part has nothing
left to do, or temporal properties under the fairness of section 4.

Three runs must fail, as the code does not do what the repository says
(`findings` has the quotations):

| Run | Property | What happens |
|---|---|---|
| `boot_auth` | `AuthenticIsAccepted` | the callback of the last packet of a chunk closes the file, ADBFileCallback overwrites the state, and an authentic manager is skipped |
| `hci_pin` | `HciCredits` | the answer to a PIN request is sent although the controller has granted no command |
| `usb_gets` | `GetsMeansData` | after CLEAR_FEATURE(ENDPOINT_HALT), getsUSBUSART takes the length the buffer was armed with for the number of bytes received and returns a whole endpoint, although no packet has come |

Every property of a passing run has a mutant in `PROJECT.json`: a change of a
definition, such as a bug in that code would be, under which TLC finds the
property violated.

## 4. Fairness

Weak fairness of the main loop, of interrupts that are enabled and of the JVM's
threads: nothing in the code can keep them from running. Transfers end, well or
badly (the USB stack times out). In `Session`, strong fairness for the phone's
ADB_OKAY and ADB_CLSE and the stack's RFCOMM close, since they are answers a
live peer owes and the main loop's other steps disable them from time to time;
the peer may also simply go. In `PhoneBoot`, weak fairness of the loop and
strong fairness of packets and of a phone's reconnection, for the same reason;
`BootEnds` speaks only of a phone that stays. In `SpiMaster`, `I2cMaster` and
`IcspMaster`, weak fairness of the hardware's shifting, of the interrupts, of
the main loop, of the incoming thread and of the threads of the senders. In `HostLink`, the threads run, a
closed connection makes `connection_.waitForConnect()` throw, and the watchdog's
time passes; nothing is asked of the board or of the incoming thread's read,
which may block for ever. No fairness for applications, users and cables.

## 5. Proofs

The proof modules are about the specifications TLC checks, with the constants
left open. Every inductive invariant was first checked by TLC on the instance of
the run. A proof has one lemma per action and rests on lemmas about the
operators the action is made of.

`ByteQueue_proofs` assumes `Capacity > 0` and `MaxBytes \in Nat`:
`TypeCorrect`, `BytesInOrder`, `PeeksAreSound`, `PullsAreSound` and
`RingImplementsFifo`. The properties are not inductive: that the published bytes
are right depends on where the bytes of an unpublished push lie and on how far
the cursors are apart. `IInv` adds `ProducerInv` (a push in progress has its
room, and its stored bytes follow the published ones), `ConsumerInv` (how far
the cursor may stand past the end, what a peek still owns) and `CursorInv` (the
distance of the cursors). The refinement maps the queue to the slots from
`Oldest` on, a push takes effect when `size` grows and a pull when it shrinks,
all other steps stutter.

`UartStream_proofs` assumes only that the sizes are positive: `TypeCorrect`,
`CreditIsConserved`, `NoOverflowUnlessTainted`, for any number of sessions.
`IInv` adds `EpochOrder` (configuration messages are sent, processed and
acknowledged in that order), `NoEarlyCredit` (no credit exists for a session the
board has not opened), `StaleIsTainted`, and `CreditBound`, which extends the
balance to sessions the host has closed already.

`Sequencer_proofs`, for every length of the queues and any number of sessions and
lost connections; the first three for every application, careful or not:

- `TimerIsInStep` and `NoStallIsMissed`. `RunInv` joins the two properties with
  `ClosedIsIdle`: `SequencerOpen` resets the flags but not the interrupt, so the
  timer is in step only because a sequencer that is not open does not run.
- `SlotsAreThere` (`SlotBound`). The bound is not inductive, because an "opened"
  sets the host's number instead of adding to it, and events go to the first
  listener, which may be an older session. `SlotFacts` adds that the opens on the
  wire are those of the newest sessions in order (`OpensInOrder`), so are the
  listeners (`Listening`), and these are never ahead of the events, so that a
  session has no slots and sends no cue before the event that opens it
  (`SlotsFollow`), and the bound for the session that is open (`Bounded`). `Promised` is a recursive function; what it does when an event is
  added at the end or taken at the front is proved by a least counterexample
  (`WFMin` with `NatLessThanWellFounded`), since the prover cannot instantiate
  the library's induction rules.
- `NothingIsRefused` (`CarefulIsAccepted`), with the hypothesis `Careful`; without
  it section 6 shows two refusals. `CarefulFacts` says that only the newest
  session listens (`HostCareful`), that the commands of a session stand between
  its open and its close and carry its number (`Bracketed`, `Numbered`), that a
  command that needs an idle sequencer will find one (`IdleWhenNeeded`), and where
  the answer is that the application waits for: its command is still on the wire
  (`AnswerAsked`), the timer interrupt owes it, or it is on its way to the host,
  and then the board is at rest and only pushes follow (`AnswerComing`).
  `SlotFacts` is needed for pushes, `RunInv` for the timer interrupt.

`Session_proofs`, for any number of ADB channels and any length of `tx_queue`:

- `SessionTypeOK`, `SessionPullIsBounded` and `SessionSentBeforeClose` hold for
  all peers and hosts. `QueueInv` adds `ClosingIsFlushed` (once `tx_queue` has run
  empty after SOFT_CLOSE, the connection can send until AppProtocolTasks closes
  it) and `ClientsKnown` (an accessory channel that is open, and the Bluetooth
  channel of a session, have a client).
- `SessionKeepsChannel`, `SessionStartsClean` and `SessionPreservesOutputs` have
  the hypothesis `PlainPeers`: every peer offers at most one interface, and only
  accessory hosts may break the protocol. The constants of the run `session`
  satisfy it, and it is needed: with a peer that offers ADB and accessory mode at
  once, or with faulty hosts on ADB, Bluetooth or the serial port, TLC finds the
  statements violated (section 7 names the callback that is never taken back).
  `SessionInv` ties main.c's state to the state of the one interface that is
  live (`OneLive`), with one part per kind of channel: which of its states go
  with waiting, talking and closing, and whether the host may speak.

`HostLink_proofs`: `LossReachesInputs`, for any number of instances and
openings. The listeners are taken by one thread and told outside the lock, so
`LinkInv` says who may have taken them (`WatchdogTakes`, `TakenIsLost`), that an
open input is a listener or about to be told (`OpenWillHear`), and that an input
that became a listener too late is closed by the failure of its own messages
(`LateOpenFails`).

`BoardIO_proofs`: `CapturesSound`, for any number of capture modules and any
layout of pairs and singles, and `SamplesSound`, for any set of channels.
`IcInv` says who owns a module while `InCapConfig` is under way (`ConfigInv`,
`EnabledIsOpen`, `OpeningIsQuiet`), that the halves of a pair are armed and
capture together, and how many captures an interrupt finds (`CaptureInv`). `AnInv`
counts the blocks of the timer against what is under way (`BlocksAreCounted`;
the count may be too high, never too low, which is why the property holds
although `BlockedMeansSampling` of section 6 does not), and says of which request
a result is (`ResultsBelong`).

Also in `BoardIO_proofs`, `PinsFloatWhenClosed` and `PinsClientReadsLevel`, for any
two neighbouring pins of every layout, any uses, and any number of opens,
closes and messages under way; they rest on `TablesAgree`, which TLC evaluates
for all three layouts. `PinInv` is about the way to the board: the last message
about a closed pin makes it a floating input (`CloseArrives`), and a pin that
cannot be remapped never drives a peripheral's output, as `PinSetRpor` would not
clear it (`UnmappedStays`). `ReadInv` is about the way back. The
SET_CHANGE_NOTIFYs on their way alternate and end with what the client wants
(`Asked`), so do their echoes (`Echoed`), and a mode is set only while
notification is off. There is a listener for the one that is open and for every
opening on its way there or back (`Counted`); so the listener that a report finds
is alone exactly when the report is from after the last opening. Then the last
report about the pin, or without one the client's value, is what the handler saw
when it looked last (`LastTold`), and what it has not seen is still pending
(`ChangePending`).

`Boot_proofs`: `PcBootInvariant`, `PcFingerprintMeansImage` and
`PcCalibrationKept`, for any set of images, any cutting of the stream between PC
and board and any number of lost connections, power failures and failing Flash
operations. It assumes `IoioFileAssumption` (sizes are positive, images are
sequences of block addresses, a board is delivered with an image that fits) and
`PcBootAssumption`; the addresses of other images may lie anywhere and come in
any order, as the installer refuses one that does not fit or lies below the page
it works on. `PcInv` follows the
conversation. The board is offline, waits for a message, carries out a command,
or loads an image. What it has still to read (the message begun, the bytes
received, the bytes on the wire) is a beginning of what ioiodude's step
prescribes, all of it as long as ioiodude is there. While an image is loaded its
first blocks are in pages that will not be erased again, because the pages only
ascend, and the fingerprint is erased; a fingerprint is on its way only when the image is
whole. `TunInv` adds where the calibration is: in the Flash, in the RAM of
`EraseFingerprint`, or lost by something that has been counted.

`PhoneBoot_proofs`: `PhoneInvariance`, `OnlyAuthentic` and `PhoneFingerprint`, for
any images, any phones, any sizes of the sync protocol's chunks and any cut of
the stream into packets; cables are pulled, phones are exchanged and the power
fails at any step. It assumes what `IoioFileAssumption` and `PhoneBootAssumption`
say: chunks are not empty, and a phone has one of the images. `PhoneInv` follows
one phone. What it has still to send, the packet under way included, is the rest
of the stream of one of its files (`FollowsFile`); `ADBFileCallback` is between
two chunks, inside one, or at the end (`Reading`), and from its place there
follows how much of the file was handed on; the fingerprint read so far and the
verdict of the authentication are that phone's (`Knows`); the installer holds
the next piece of that phone's image, and what it has written is what was handed
on before (`Installs`). `InStep` ties the state of the main loop to those of the
file and the channel, and `ChansQuiet` says that a channel that is not in use has
nothing to acknowledge and no packet under way: without them a late packet of one file could be taken for
the beginning of the next. `OnlyAuthentic` holds of a Flash that fails, too.
`PhoneFingerprint` has the hypothesis `~PhoneFlashFails`, and needs it: see
`ErrorIsFinal` in section 6. The stream of a file (`SyncStream`) is given by
position, not by recursion, so that the proofs can speak of places in it.

Only model-checked, and why:

- liveness (`WrittenBytesMove`, `CloseCompletes`, `CloseReturns`, `SoftCloseEnds`,
  `PortIsServed`, `BusesFinish`, `StopReturns`, `BootEnds`): ENABLED is out of the
  prover's reach;
- `BoardHearsHost`, `HostHearsBoard`, `DocumentVerdict` and the parts of
  `LinksAgree` about SDP: what a parser makes of every input, cut anywhere. The
  parsers and the encodings are tables with a row for every kind of message, most
  with a length of its own, and the recursive search of `DocumentVerdict` would
  have to be proved equal to a definition over whole documents; TLC enumerates
  every message and every cut instead;
- `BusResultsMatch`, `LinksSettle`, `UsbDataExact`, `UsbServed`,
  `UsbClientsTracked` and the other parts of `LinksAgree`: not attempted. Each is a
  conjunction over several components, and those that say that somebody is served
  speak of states in which nothing is enabled.

## 6. Statements that do not hold

These are stated in the modules, with the words of the repository they come
from, and do not hold of the code. Add the name to the cfg of the run, as
INVARIANT or PROPERTY, to see the behaviour.

| Statement | How | What happens |
|---|---|---|
| `UartStream!NoStaleBytes` | `MCUartStream.cfg` with `SPECIFICATION Spec` | a packet that the flush thread took before `close()` is transmitted by the next user of the UART (`FlowControlledOutputStream.java:119`) |
| `Sequencer!PauseThenStart` | `Careful = FALSE` | `start()` right after `pause()` reaches the board before the timer interrupt; `SequencerStart` refuses it and the connection is dropped (`sequencer.c:430`) |
| `Sequencer!StopSizeFits` | `Careful = FALSE`, `SeqLen = SizeMod = 4`, `MaxSessions = 1`, `MaxDrops = 0` | a full cue queue does not fit the size field of STOPPED (`sequencer.c:473`) |
| `Sequencer!CloseIsComplete` | `Careful = FALSE` | `close()` before the opened event returns at once |
| `Sequencer!PushSeesDisconnect` (PROPERTY) | `Careful = FALSE` | a `push()` that waits for a slot outlives the connection |
| `Session!NeverStranded` | `Faulty = {}` | a phone unplugged right after SOFT_CLOSE leaves the board in STATE_CONNECTED (`accessory_connection.c:43`) |
| `Session!PreserveIsPerConnection` (PROPERTY) | `Faulty = {"BT", "CDC"}`, `CHECK_DEADLOCK FALSE` | after a protocol error, messages that still arrive set the flag for the next connection |
| `PhoneBoot!ErrorIsFinal` (PROPERTY) | `MCBoot.cfg` with `PhoneFlashFails = TRUE` | after a failed write to the Flash the rest of the file is still handled, and its end sets RECV_IMAGE_DONE (`bootloader/main.c:197-209`) |
| `InCap!OpenModulesCapture` | `MCBoardIO.cfg` | the main loop reads `armed`, a capture interrupt arms another module, the main loop writes its copy back: that module never captures again (`incap.c:117-125`) |
| `AnalogIn!BlockedMeansSampling` | `MCBoardIO.cfg` | the end of a capacitive sample sets the flag that `_CRCInterrupt` is about to clear: sampling stops for good (`adc.c:429`) |
| `AnalogIn!OpenersHear` | `MCBoardIO.cfg` | an input closed and opened again between two ticks is one change for the board: the values go to the listener of the closed one |
| `HostLink!DoneMeansTold` | `MCClients.cfg` | the watchdog finds an empty list of listeners, because the incoming thread has taken them and is still telling them (`IncomingState.java:60`) |
| `HostLink!DeadIsFinal` (PROPERTY) | `MCClients.cfg` | `waitForConnect` sets CONNECTED without the lock after `disconnected()` has set DEAD (`IOIOImpl.java:119`), or a late CHECK_INTERFACE answer overwrites DISCONNECTED (`IncomingState.java:227`) |
| `SpiMaster!SpiNoStaleRequest`, `I2cMaster!I2cNoStaleRequest` | `MCClients.cfg` | a request that the thread took before `close()` is sent behind the configuration of the next session (`FlowControlledPacketSender.java:115`) |
| `I2cMaster!I2cEmptyRequestIsAnswered` | `MCClients.cfg` | a request with nothing to write and nothing to read counts its bytes down from 0 and fills the receive queue (`i2c.c:288-303`) |
| `HostToBoard!TwiWritesFit` | `MCBoardIO.cfg` | `TwiMaster.java:97` says "The number of bytes to write. Valid value are 0-255."; neither side checks it, and from 77 on the board copies the bytes past the end of `rx_msg` (`protocol.c:588`) |
| `Rfcomm!MuxEndsWithLink` | `MCBluetooth.cfg` | `rfcomm.c:792` says "l2cap disconnect -> state = RFCOMM_MULTIPLEXER_CLOSED;", but a phone that closes the L2CAP channel before its DISC could be answered leaves the multiplexer in SEND_UA_0_AND_DISC (`rfcomm.c:822-833`): the client is not told, and every later connection is declined (711-725) until the dongle is taken out |
| `L2cap!L2NothingLate` | `MCBluetooth.cfg` | the packets completed while the endpoint was busy; when it is free nobody calls `l2cap_run`, and an answer stays unsent (`l2cap.c:680-693`) |
| `Rfcomm!RfNothingLate` | `MCBluetooth.cfg` | a frame waits for a buffer of the controller while RFCOMM still holds its L2CAP credit: the completed packet brings no other credit, and `rfcomm_run` is not called (`l2cap.c:208`) |

Some properties that do hold are stated with an exception for these, and fail
without it: `SessionHasChannel` and `PortIsServed` for the stranded state,
`LinksSettle` for what was left behind late and for an answer that found no room,
`BusResultsMatch` and `BusesFinish` for what happens after a stale or an empty
request, `BoardHearsHost` for an I2C write that does not fit.
`CloseReturns` excepts a reset that took away OC interrupts that a close still
counts on (`sequencer.c:554`).

## 7. Seen and not covered

Read in the code while modelling; no property is about these.

- Host: `FlowControlledPacketSender.java:82` close does not notify a writer that
  waits for room; `SequencerImpl.java:63` remoteState_ starts as CLOSED;
  `SpiMasterImpl.java:88-96` the request is queued and sent in two steps, so two
  clients may be queued in one order and sent in the other; `TwiMasterImpl.java:84-91`
  a writer that waits at a full queue (256 packets) holds the lock that `close()`
  and `disconnected()` need, so a connection lost then hangs them, and with them
  the thread that tells the other resources.
- I2C: a write of more than 124 bytes may never get its credit, one of more than
  252 never does (`i2c.c:202`, 256 bytes, 4 of them header); a read of more than
  127 overflows the receive queue, and one of 255 looks like a failure.
- Protocol: `protocol.c:243` a `tx_queue` with room for a header but not for what
  follows it puts the stream to the host out of step; `BoardToHost` reaches this
  (`bCut`) and follows it no further.
- Connection layer: `accessory_connection.c:100` the callback of a channel is never
  taken back, which matters with phones that offer ADB and accessory mode together
  (`CleanStart` would not hold, section 5); `accessory_connection.c:81` a failed read is not
  reported; `main.c:141` ConnectionCloseChannel(-1); `adb.c:219` a second channel of
  the same name; `cdc_connection.c:74` the port's state is polled, so a short close
  is missed; `cdc_connection.c:100` bytes of the last session in the endpoint;
  `sync.h:48` PRIORITY sets the level instead of raising it.
- Bluetooth: one slot for a DM frame and for a reason to decline; `rfcomm.c:944` a
  channel is used after it was freed; `rfcomm.c:986` an ignored failure to send;
  `bt_connection.c:122` a channel id kept too long; a reject sent when the dongle is
  detached meets the assert of `usb_host_bluetooth.c:310`; the loop of `l2cap.c:569-585`; ACL data before
  CONNECTION_COMPLETE; one buffer for all answers of SDP.
- USB host: success is flagged before the status stage (`usb_host.c:5958`, `5994`);
  errors are counted over the whole transfer; `usb_host_android.c:206-232` reads a
  byte count that a failed call has not set; `malloc` may return NULL at
  `usb_host.c:5063-5130`; an ID interrupt starts over before a detach was handled
  (`5795-5800`); bNumConfigurations 0; busy loops in the interrupt.
- USB device: ADR_PENDING survives an abandoned SET_ADDRESS; the acknowledgement of
  its status stage may be lost; a SET_CONFIGURATION while a message is being sent
  over the serial port drops the rest of it (`usb_function_cdc.c:336`);
  SET_LINE_CODING with wLength 0.

## 8. Not modelled

- PWM and timers (`pwm.c`, `timers.c`): register writes without state of their own;
  their messages are in HostToBoard.
- UART receive direction, `flush()`; waitEvent of the sequencer; the bits of ICSP.
- Several client threads on one instance of IOIO, `sync()`, batches, the allocation
  of ids by ResourceManager.
- USB: isochronous transfers, suspend and resume, overcurrent,
  USBOTGRequestSession, USB_INTERRUPT builds, alternate settings: no code of the
  firmware uses them. Bluetooth: outgoing connections, LE, inquiry, the SDP client
  and `sdp_parser.c`, for the same reason.
- Registers, delays, LEDs and the measurement behind the calibration.
- Desktop and Android bindings and tools: discovery of devices and user interfaces.
  IOIODude's protocol is in PcBoot.

## 9. Plan

All components that carry the system's own logic are modelled. To prove next:
the credit and the order of answers in `SpiMaster` and `I2cMaster` for every
queue size, and the credits of `Rfcomm`. To model if more is wanted: the UART's
receive direction with the loss of the connection, and several client threads of
one IOIO instance.
