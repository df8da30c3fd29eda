# QKDNetSim: a verification project in TLA+

QKDNetSim is a module for the ns-3 simulator that adds networks of quantum key
distribution (QKD) links: key buffers that are charged by post-processing and
drained by the packets they protect, a manager that puts protection between
the network devices and the protocol stack, traffic control that looks at the
state of the key material, and routing that can use it.  The tree is a fork of
ns-3; what is QKDNetSim's own is `src/src/qkd`, the `qkd-*` files of
`src/src/traffic-control` and `src/src/applications`, and `src/src/aodvq` and
`src/src/dsdvq`.  The rest is inherited simulator code.  Two programs of the
simulator that users of QKDNetSim run every day, and that are concurrent where
the simulator is not, are modelled as well: the test runner `test.py` and the
visualizer, both in Python with threads.

What is QKDNetSim's own runs inside one discrete-event simulator: a handler
runs to its end before the next event starts.  So one action of its models is
one handler, or one call into a component, and what interleaves is *events*:
packets in flight, TCP reads, timers, messages of post-processing, and
applications that stop.  In the two Python programs threads interleave, and an
action is what a thread does between two points at which another can be seen.

- [Components](#components)
- [Hard behaviours](#hard-behaviours)
- [Plan](#plan)
- [Modules](#modules)
- [Runs](#runs)
- [Proofs](#proofs)
- [Disagreements between comments and code](#disagreements-between-comments-and-code)
- [What is not modelled](#what-is-not-modelled)

## Components

| Component | Source (under `src/src/`) | State | Operations |
|---|---|---|---|
| Key buffer `QKDBuffer` | `qkd/model/qkd-buffer.cc` | amount, threshold, capacity, status READY/WARNING/CHARGING/EMPTY, window of recorded amounts, trend, period counters, key ID | `AddNewContent`, `ProcessOutgoingRequest`, `ProcessIncomingRequest`, `CheckState`, `KeyCalculation`, `SetMthr`, metric timer |
| Packet protection `QKDCrypto` | `qkd/model/qkd-crypto.cc` | cache of fragments per channel | `CheckForResourcesToProcessThePacket`, `ProcessOutgoingPacket`, `ProcessIncomingPacket`, `CheckForFragmentation`, `Decrypt` |
| `QKDManager` | `qkd/model/qkd-manager.cc` | the links of a node: devices, sockets, buffer, crypto object, role master/slave | `AddNewLink`, `VirtualSend`, `ForwardToSocket`, `VirtualReceive`, `ProcessOutgoingRequest`, `ProcessIncomingRequest`, `AddNewKeyMaterial`, `MarkEncrypt` |
| Post-processing `QKDChargingApplication` | `applications/model/qkd-charging-application.cc` | connection flags, packet number of the round, flag "key rate message due", pending event, trains of background packets | `SendData`, `PrepareOutput`, `SendPacket`, `HandleRead`, `ProcessIncomingPacket`, connection callbacks, `StopApplication` |
| Layer 2 queue discs | `traffic-control/model/qkd-l2-*` | three bands of packets, the requeued packet | `DoEnqueue`, `DoDequeue` with the buffer's status, `TransmitL2`, `RequeueL2`, `Run` |
| Layer 4 traffic control | `traffic-control/model/qkd-l4-*` | three bands | the same between TCP and IP, without the status |
| `QKDNetDevice` | `qkd/model/qkd-net-device.cc` | addresses, callback to the manager | `Send`, `Receive` |
| Key `QKDKey` | `qkd/model/qkd-key.cc` | content, global ID counter | `GetUid`, `KeyToString` |
| Headers, tags, classifier | `qkd-header.cc`, `qkd-internal-tag.cc`, `qkd-packet-filter.cc` | fields | (de)serialisation, TOS to band |
| Graphs | `qkd-graph*.cc`, `qkd-total-graph.cc` | plotted series, network-wide sum | trace callbacks; creating or printing a graph evaluates a buffer's status |
| Traffic `QKDSend`, `QKDSink` | `applications/model/qkd-s*.cc` | byte counters | send loop, receive |
| Routing AODVQ, DSDVQ | `aodvq/`, `dsdvq/` | routing tables | copies of ns-3's AODV and DSDV that mark their packets for protection and read QKD metrics |
| Test runner | `test.py` (in `src/`) | two queues of jobs, worker threads with their job, `thread_exit`, verdicts, the results file | dispatch, `worker_thread.run`, `run_job_synchronously`, collection, `sigint_hook` |
| Visualizer (PyViz) | `visualizer/visualizer/core.py`, `visualizer/model/pyviz.cc` | play button, timer, lock, event `go`, `quit`, `target_time`, pause messages, the simulator's time | `update_view_timeout`, play, pause, speed, `_quit`, `SimulationThread.run`, `SimulatorRunUntil` |
| Helpers | `qkd/helper`, `applications/helper/qkd-*` | none | build a simulation |

How they interact:

- An application's packet gets its encryption and authentication algorithms in
  a `QKDInternalTag` (`QKDManager::MarkEncrypt`).  A queue disc or the device
  hands it to `QKDManager::VirtualSend`, which checks the buffer, lets
  `QKDCrypto` protect it (taking keys from the buffer of this end), checks
  again in `ForwardToSocket`, and writes it to the TCP socket of the overlay or
  to the device below.
- The other end's `VirtualReceive` gets bytes, `CheckForFragmentation` cuts
  them into protected packets, and `Decrypt` takes the same amounts of key
  material from that end's buffer.  Nothing but this symmetry keeps the two
  buffers of a link equal: there is no synchronisation message.
- Two `QKDChargingApplication`s exchange numbered messages; at the end of a
  round the master announces ADDKEY, the slave stores the key material and
  echoes, the master stores it when the echo arrives.
- Every operation that records an amount ends in `KeyCalculation` and
  `CheckState`, whose result the checks of `QKDCrypto` and the queue discs read.

- The main thread of `test.py` puts jobs, then one break job per worker, into
  one queue; the workers run them and put them into another, from which the
  main thread collects as many as there are tests.
- The visualizer's timer updates the view under the lock, sets the time to which
  the simulation may run, and sets the event; the simulation thread clears it
  and runs the simulator with the lock held.  A timer callback that does not get
  the lock runs the main loop meanwhile, so callbacks nest.

What makes each correct:

- *Buffer*: the amount stays between 1 and the capacity and never wraps; the
  status belongs to the amount; the trend says what it is meant to say; seen
  from outside it is a store that moves whole keys.
- *Reassembly*: a stream of bytes cut anywhere comes out as the packets that
  went in, once, in order, as soon as they are whole.
- *Link*: both ends take the same key material for a packet; a packet that is
  sent can be opened; with little key material only the top band is served.
- *Post-processing*: rounds reach both ends in turn; one message at most is
  under way; it goes on while connections are up.
- *Queue disc*: packets of a band stay in order although a stopped device sends
  one back; nothing waits without a reason; no keys are spent on a packet the
  device cannot take.
- *Test runner*: success means that every test ran and passed; the results are
  whole; SIGINT stops it soon, and it always ends.
- *Visualizer*: the simulation stays close to the view and stops when paused; no
  message is lost; it keeps running while it plays and can always be left.

## Hard behaviours

`PROJECT.json` lists the hazards, each at its line.  The ones that shaped the
models:

- the status depends on the previous status and on a trend that is computed
  from a window trimmed *by value* while it is meant to be trimmed by age;
- memory that no constructor writes (status, previous status, trend, the tag
  of an untagged packet, the number of an unreadable message) is a
  nondeterministic value;
- a read of the overlay socket may hold part of a packet, part of a header,
  several packets, or one and a half;
- the amount is checked, then changed by taking keys, then checked again for a
  packet that has lost its tag and grown a header;
- a packet given up between its first and second key, refused by the socket, or
  lost, has cost key material at one end only;
- the two ends take keys for packets in opposite directions in different orders
  while post-processing charges one end before the other;
- the first message of post-processing waits for no one: the answer is dropped
  when the way back is not connected yet, and nothing sends it again;
- the number of messages in a round is an attribute of each application, and
  nothing makes the two equal;
- numbers are unsigned and wrap;
- in `test.py` a job that was never run looks like one that passed, a worker may
  die with its job, and SIGINT is seen by each worker when it next looks;
- in the visualizer an event is cleared after it has woken the thread, `quit` is
  looked at in two places, and callbacks nest in a main loop in which the user
  acts.

## Plan

In the order of importance for the program.  All of it is done.

1. `QKDBufferOps`, `QKDBuffer`, `QKDKeyStore`: one buffer and what its users
   may rely on.
2. `QKDReassembly`, `QKDFrameChannel`: frames out of the overlay's byte stream.
3. `QKDLink`: two managers, their buffers and the packets between them, over
   the abstract key store, for several kinds of traffic.
4. `QKDCharging`, `QKDRounds`: the post-processing that charges a link, with
   equal and unequal attributes at its ends, and the order of charges the link
   module assumes.
5. `QKDPacketKeys`, `QKDQueueDisc`: the layer 2 queue disc with the status
   filter, the requeued packet, the quota of `Run` and the ignored result of
   `VirtualSend`, over the key store.
6. `TestRunner`: the threads, queues and verdicts of `test.py`.
7. `PyViz`: the two threads of the visualizer.
8. Proofs of the safety properties and refinements of 1 to 7.

What could still be added is listed under
[What is not modelled](#what-is-not-modelled), with the reason it was left.

## Modules

Lines of the source for every definition are in `PROJECT.json`, "map".

### One key buffer

`QKDBufferOps` holds the decision state of a buffer as a record and the
operators on it: `CheckState`, `KeyCalculation` (trim the window, insert in
order, derive the trend, evaluate the status), `AddNewContent`, `Take`.
`QKDBuffer` is the state machine: `Charge`, `ProcessOutgoingRequest` (checks,
then creates a key), `ProcessIncomingRequest` (creates a key, then checks, so a
refusal uses up an ID), `GraphCheckState`, `ChangeThreshold`,
`CalculateMetric`.  `Init` lets the status, the previous status and the trend
be anything, since no constructor writes them.  `std::sort` keeps the order of
equal elements only in a window of up to `StableSize` entries, 16 in libstdc++,
which then sorts by insertion alone; in a longer one `SortedInserts` lets a new
entry stand anywhere among those with the same amount.  So `KeyCalculation` is a
set of outcomes, and at a peak that was reached before the trend may come out
falling: `RisingMeansPeak` says that a rising curve always means the peak, and
that a peak always means a rising curve but in that case (`TiedPeak`).  The
value of a key is left out: the code fills it with zeros.

`QKDKeyStore` (with the operators of `QKDKeyStoreOps`) is the same buffer
without its history: an amount, a threshold, a status that fits the amount;
between minimum and threshold either WARNING or CHARGING.  `QKDBuffer`
implements it, and the link uses it in place of the buffer.

### Reassembly

`QKDReassembly` follows `CheckForFragmentation` in one direction of one link.
A byte is its offset in the stream, so a string is an interval and `substr`,
`+=` and `clear` move its ends.  `Receive` puts a read behind the cache and
cuts off the first header; `EmitFrame`, `KeepFragment`, `KeepHalfHeader` and
`Finish` are one round, or an exit, of its loop.  Length fields read where no
header starts hold any of `GarbageLengths`.  The handler is cut into steps only
to make each exit an action of its own; nothing interleaves with it but the
sender's next frame, and only outside it.  `lone` and `firm` are histories:
whether a read has ever left at most one header in the buffer, and what had come
out before.  Up to then every byte is kept and every whole frame released, unchanged
and in order (`NoFrameHeldBack`, `ImplementsChannel`); afterwards the handler cuts at places that
are no boundaries and reads ciphertext as lengths, and what is left to say is that
no byte comes out twice (`NoByteTwice`) and that the loop gets on
(`RoundsAdvance`).  `QKDFrameChannel` is the promise: a FIFO of whole frames.

### One link

`QKDLink` has an amount and status per end (a key store), packets in flight to
each end, and the part of the current round of post-processing the master has
still to get (`due`).  `VirtualSend` follows the code in order: first check
(`FirstNeeds`), encryption key, authentication key (`Protected`), then the
outcomes `NoKey`, `NotForwarded` (second check, `SecondNeeds`), `Refused`
(stopped queue, full socket), `Sent`, and `Abort` (the null key of a debug
build).  An untagged packet is checked with whatever an uninitialised tag holds
(`AnyBits`).  `VirtualReceive` takes the keys in the receiver's order and
accepts that one may be missing.  `causes` collects what has set the two buffers
apart (keys or a packet lost, a round the full slave refused, a key the receiver
did not have), `owed` is what packets in flight will still cost; neither exists
in the code.  `ReceiverNeverShort` looks at one member of `causes` and so also
speaks of links that lost keys, packets or rounds of the master's long ago.

The packets themselves, what is checked for them and the keys they take, are in
`QKDPacketKeys`, which the queue disc uses too.

### Queue disc

`QKDQueueDisc` is the disc of a single TCP/IP network
(`QKDL2SingleTCPIPPfifoFastQueueDisc`) with the device below it and the buffer
of its link.  `Send` queues or drops a packet and begins a Run; `RestartL2` is
one round of the loop: nothing to send, a packet requeued because its
transmission queue is stopped, or a packet given to `VirtualSend`, after which
the loop goes on or ends (`GoOn`).  `Transmitted` and `Wake` are the device's
side: a queue that was stopped schedules a Run for the same moment, so the
queue's next packet is not transmitted before it.  `AddNewKeyMaterial` and `VirtualReceive` change the
buffer and do not look at the disc.  A device with one transmission queue is not
asked while it is stopped, so requeueing needs two.  The number of a packet,
`last`, `ended` and `refused` are histories.  `OnlyHandedOver` follows a packet
between the bands, the place for the requeued packet and the loop: it leaves by
being handed over, alone, and does not come back.  The disc of the overlay
(`QKDL2PfifoFastQueueDisc`) has the same `DoEnqueue` and `DoDequeue`; its device
is not one of a buffer, so the status it sees is always 0, READY.

### Post-processing

`QKDCharging` has the flags, the packet number and the scheduled message of
each of the two applications and the messages on their way.  `HandleRead`
treats a read as the code does: it looks at the first message of what it got;
where `splits` says that TCP cuts messages, a read may end anywhere inside one
(`Shown`).  In the padding nothing is lost; in the label there is no label left.
Behind the label ADDKEY, before or after its colon, `sscanf` leaves `packetValue`
uninitialised (`UninitValues`), and in the number it reads the first digits
(`Truncated`) or runs on into the memory behind the read; such a number is
charged, and echoed by the slave, like any other.  The rest of a cut message is
read as one without label, whose number is uninitialised; but where the cut left
the semicolon, `sscanf` reads nothing, and label and number are what an earlier
call left on the stack, which may be ADDKEY again.  `maxPackets` is chosen for
each application at the start.  `ahead` is what the slave has been charged and
the master has not, `invented` the bits the master was charged beyond what the
message it read announced; both are histories, and `SlaveChargedFirst` relates
them: nothing but such bits can put the master ahead of the slave, whatever is
lost, merged or cut on the way.
`QKDRounds` is the promise `QKDLink` builds on: slave, master, slave, master.

### Test runner

`TestRunner` has the main thread (`Put`, `Collect`, `AllCollected`, `Return`),
the workers (`Get`, `Check`, `Launch`, `Finish`) and SIGINT (`Interrupt`).  A
worker's look at `thread_exit` and the start of its process are two actions, so
SIGINT may come between them.  `Count` is what the main thread makes of a job:
nothing for one with `is_break`, otherwise a verdict and, for a suite whose code
is 0, 1 or 2, the copy of its temporary file, which raises when there is none.
`Leaves` says which file a suite leaves, from the C++ runner
(`core/model/test.cc`): a suite that ends by itself has written it all, each line
flushed.  `LaunchFails` is a `Popen` that raises, which ends the worker with its
job.  Which tests there are, and which are to be skipped, is the constant
`Kinds`.  Both queues are read without a time limit, so a break job too few would
hang a worker and a result too few the main thread: `NobodyStuck` says that some
thread can go on until all have ended or died, and that no verdict is given when
one has died with its job.

### Visualizer

`PyViz` has one action for each thing the user can do (`Play`, `Pause`,
`ChangeSpeed`, `Quit` with `QuitGo` and `Join`), and `update_view_timeout` in two
parts: with the lock (`Expire` and `Retry`, which share `UpdateView`) and after
it (`AfterView`).  `frames` is the stack of calls that wait for the lock and run
the main loop; GLib does not serve a timer that is being served, so a call never
meets itself.  The simulation thread is one action per line of `run` that
another thread can see.  Times are counted from the last view: `ahead` is the
simulator's, `target` the one it may run to.  `late` and `unshown` are
histories.  `QuitWakes` is the safety half of `QuitEnds`: the user interface, once
it joins the thread, has not lost its last `go` to a `clear` of the thread.

`MC...` modules give the constants their values for the runs.

## Runs

All bounds are named in the modules.  Packets, keys and rates are small numbers
chosen so that every comparison of the code goes both ways; the comparisons are
linear, so larger numbers only repeat the cases.

| Run | Question | Distinct states |
|---|---|---|
| `buffer` | Does any order of charges, requests, evaluations, threshold changes and metric timers break the amount, the order of the window, the meaning of the trend, the status or its hysteresis? Does the buffer implement the key store? | 2.4 million |
| `reassembly` | Are frames shorter than, as long as and longer than a header delivered whole, once, in order, without delay, wherever TCP cuts them? After a read that ends within or right behind a header, does no byte come out twice and does the loop end? | 100 thousand |
| `link` | Two senders, losses, refusals and charges: are the buffers equal up to what is on its way until something is lost, and does a lower band never leave an EMPTY buffer? One sender and every combination of algorithms, with losses: can the slave open every packet that reaches it? | 1.2 million |
| `queue` | Three bands, one or two transmission queues that stop and wake, key material that comes and goes: are bands in order, is no packet lost or doubled, does every waiting packet have a reason, are keys spent only on packets the device takes? | 3.6 million |
| `charging` | Connections in any order, applications that stop, equal and unequal maxima: one message at most, charges in turn, progress, or no charge at all with a smaller maximum at the slave? Messages cut anywhere and merged by TCP: is the master ever ahead of the slave, but for bits no message announced? | 766 thousand |
| `test_runner` | Tests that pass, fail, crash, leave any file or cannot be decoded, SIGINT at any time, workers that die: is a success real, are the results whole, does no test start late, is nobody left waiting, is there an end? | 266 thousand |
| `pyviz` | Play, pause, speed and quit at any time, nested callbacks, a simulation that stops early and gives messages: does it stay within a period of the view, stop when paused, lose no message, go on while it plays, never join a thread that nothing will wake, and end? | 585 thousand |
| `doc_*` | Five comments the code does not keep, see below. | stops at the violation |

Bounds and why they suffice:

- `buffer`: capacity 12, minimum 2, threshold 6 (or 4 or 9 after a change), keys
  of 1 and 4, charges of 1 and 3, five recorded amounts.  From 2, 5, 8 and 12
  every status and every pair of statuses is reached, the buffer fills up,
  runs dry and refuses; five entries are enough for a window that is trimmed
  after two charges.  `StableSize` is 3 in place of 16, so that the window
  outgrows a stable sort and the peak is met twice in it.  `MaxKeys` lets every
  recorded amount create a key.
- `reassembly`: header 3, bodies 1, 3 and 5, three frames, and reads from one byte
  to all three.  A length field that is none holds 0, 3, 4 or 15, with 16 in place
  of 2^32: a length below the header's, which wraps, an empty body, a short one,
  and one longer than the stream.
- `link`: capacity 11, amounts 5 and 9 at the start, rounds of 4, keys of 3
  (one-time pad), 2 (AES) and 1 (VMAC), two or three packets in flight: the
  buffers fill, run dry and fail between the first and the second key.
  `MaxFlight` is the only bound on the length of a run.
- `queue`: three places in the disc (1000 in the code), a quota of two (64),
  three places in a transmission queue, six packets: the disc fills and drops,
  a Run ends for each of its four reasons, both transmission queues stop, and a
  requeued packet has others of its band and of other bands behind it.  `MaxArrivals` bounds the packets.
- `charging`: rounds of two and three messages, even and odd, equal at both ends
  or smaller at either.  Without cutting the exchange is finite-state by itself;
  where messages are cut, `MaxMessages` bounds those under way (no more are cut
  from two on) and `MaxAhead` the bits the slave may be ahead, or the master
  have invented, before it reads on: one round, so that a second is charged while
  the first echo is under way.  A round is 10, an uninitialised number 20: more
  than a round, and both have a digit to be cut off.
- `test_runner`: two workers and three tests, so that one worker runs a test
  while the other takes the next and one job still waits in the queue; the five
  lists of `MC_Kinds` put a skipped test first, between and last.
- `pyviz`: three timers, the one of the user interface and two that wait for the
  lock in nested calls; two periods, so that a change of speed makes the target
  larger or smaller; two messages not shown yet, from one run or from two.

Fairness.  `QKDReassembly!FairSpec` has weak fairness of the socket read and of
the loop: TCP delivers what was written, and a handler runs to its end.
`QKDCharging!FairSpec` has weak fairness of each end's `SendPacket` (the
simulator runs every event it has scheduled) and `HandleRead` (TCP delivers).
No fairness is assumed of connections or of stopping: `KeepsCharging` speaks of
the time when both connections are up and a message is under way, because a
first message answered before the way back is connected is dropped for good.
`TestRunner!FairSpec` has weak fairness of the main thread and of each worker:
the operating system schedules threads, and every test ends (`test.py` has no
timeout of its own).  `PyViz!FairSpec` has weak fairness of the user interface's
own steps, of the simulation thread and of each timer, and strong fairness of
`Retry`: the call that waits for the lock tries again and again, and the
simulation holds the lock only for runs that end.  Nothing is assumed of the
user; `KeepsRunning` excepts a user who changes the speed for ever, since each
change starts the timer anew.

`QKDQueueDisc` claims no liveness: a Run that ended for its quota or for want of
key material is not scheduled again (the source has a `\todo` there), so a
packet may wait for ever if no other arrives; `NoIdleWait` says which may.

Deadlock is checked in `buffer` and `queue`. It is off where the system may
stop: a debug build of a link aborts at a null key, the reassembly sender has a
finite number of frames (and a read shorter than a header ends the program),
post-processing ends with its applications, `test.py` ends, and the user leaves
the visualizer.

## Proofs

TLC checks instances; the theorems below hold for every value of the constants
that satisfies the named assumptions of the modules (`BufferAssumption`,
`CallAssumption`, `NoWrapAssumption`, `StreamAssumption`, `StoreAssumption`,
`KeysAssumption`, `LinkAssumption`, `DiscAssumption`, `ChargingAssumption`,
`TestRunnerAssumption`, `PyVizAssumption`). Each is checked by TLAPS with Z3,
Zenon and LS4.

`QKDBuffer_proofs`: `TypeCorrect` (with the amount between 1 and the capacity),
`WindowSorted`, `TrendIsPeak`, `StatusCorrect`, `Hysteresis`, `Refinement`. The
invariant `IInv` adds to the checked ones that the window is sorted, no longer
than the number of entries, bounded above by the peak and headed by it: without
it the trend, which the code derives from a position in the window, cannot be
tied to the amount. `TrendIsPeak` is for windows of any length: beyond
`StableSize` entries a rising curve still means the peak, and the peak a rising
curve unless the two first entries of the window are equal. `HInv` adds what the history knows about EMPTY. The
refinement then only needs that every recorded amount leaves a fitting status.

`QKDReassembly_proofs`: `TypeCorrect`, `NoByteLost`, `FramesReleased`,
`BytesUsedOnce`, `LoopAdvances`, `Refinement`, for every way TCP may cut the
stream and every length a misread header may hold. There are two invariants.
`Loose` holds always: packets emitted lie one behind the other, and the place
the handler has reached is behind them all and within what was received. `WInv` holds until a read is too
short (`~ lone`): the frames lie end to end, what was emitted is a prefix of
them, and the pointer stands relative to the end of the last emitted frame in
each phase of the handler. `IInv` is `LInv /\ (lone \/ WInv)`; the step that
sets `lone` only needs the first. `Refinement` is about what came out before
that (`firm`), since after it the promise is not kept, as the run
`doc_lone_header` shows.

`QKDLink_proofs`: `TypeCorrect` (no end takes more than it has),
`BuffersBalanced`, `OnlyTopBandWhenEmpty`, `ReceiverCanOpen`. `TypeOK /\
Balanced` is inductive: a sent packet takes from one amount what it adds to the
other end's debt, a received one takes the same from amount and debt, a charge
moves between `due` and the master; everything else adds to `causes`.
`ReceiverCanOpen` is the theorem for `ReceiverNeverShort`, where `Balanced` is
of no use, since the buffers may long have been set apart. What is kept is an
inequality (`Ahead`): with one sender, whatever is lost only leaves the slave
with more than the balance asks for, because keys lost before sending and rounds
refused cost the master, and a packet lost on its way frees the slave of its
debt. Each end keeps its last bit (`LastBit`) and the debt of the receiver
covers the packets on their way to it (`Debts`), so the slave holds the keys of
all of them and one bit more. A sum over a sequence would need induction;
`Debts` says instead that some function, which never grows along the queue,
bounds the cost from each place on, and each step shows the function for the
sequence it leaves (`DebtsAppend`, `DebtsTail`, `DebtsDrop`).

`QKDPacketKeys_proofs` has the lemmas on taking keys that this module and the
next one cite.

`QKDQueueDisc_proofs`: `TypeCorrect`, `BandsInOrder`, `WaitsForAReason`,
`NoKeysForNothing`, `NoneLostNorDoubled`, from one invariant: the type invariant
and the three other invariants of the run, that no packet has a number not given
out yet (so that an arriving packet goes behind all others) and that a Run in
progress has quota left. Two lemmas carry the proofs: the packet that leaves,
requeued or head of a band, goes before all of its band that stay (`Dequeued`),
and with those that stay it makes up what the disc held (`DequeueTakesOne`).

`QKDCharging_proofs`: `TypeCorrect` and `SlaveFirst` for every TCP, and, where
TCP does not cut messages (`~ splits`), `OneAtATime`, `Refinement` and
`NeverCharged`. An ADDKEY message is 480 bytes with the default attributes and a
TCP segment 536, so this is the default. The invariant ties the one message
under way to the history: an ADDKEY on its way back is the same thing as a round
the master has not got, and before the master is connected there is no message
at all. `NeverCharged` adds that with a smaller maximum at the slave every
number under way is below the one at which the master would announce a key.
`SlaveFirst` has an invariant of the same form as `Debts`: the echoes the slave
has not sent and those the master has not read announce no more than `Margin`,
which is `ahead` plus `invented` (`EchoesCovered`).  That holds wherever TCP cuts
and merges messages and whatever an uninitialised label or number then holds: the
slave echoes the number it was charged, and a master that misreads an echo takes
no more from the margin than the echo announced (`MasterReads`).

`TestRunner_proofs`: `TypeCorrect`, `SuccessReal`, `ResultsAreComplete`,
`NoVerdict`, `NoneStartsLater`, `NobodyWaits`, for any number of tests and
workers. The invariant says where each job is (still to be put, in one of the
queues, with one worker, or collected; never in two places), what a job that has
come back has been through, and that the verdicts add up: the counts of PASS and
SKIP are those of collected jobs, so that they reach the total only if every job
has one of the two. `NobodyWaits` counts: no job that was taken is forgotten,
and as many workers have ended as break jobs were taken (`Accounted`); so no
worker waits at a queue that stays empty, and if all have ended every result is
there. If one has died, `NoVerdict` keeps the main thread where it waits for the
lost job.

`PyViz_proofs`: `TypeCorrect`, `OnePeriodAhead`, `NoneLost`,
`TwoRunsAfterPause`, `TimerIsThere`, `NoHangOnQuit`, for any timers, periods and
messages. The invariant adds that the target itself is at most a period away,
that only the simulation thread clears the event, that the runs begun since a
pause and those still owed (`Due`) are two together, and that a thread is joined
only with `quit` set (`Leaving`), which it sees before it waits again.

Every invariant, every action property and every refinement that the runs check
is proved. Only model-checked are the liveness properties
(`EveryFrameDelivered`, `KeepsCharging`, `Terminates`, `KeepsRunning`,
`QuitEnds`), which need fairness and ENABLED, out of the prover's reach, and the
five violations. Of `QuitEnds`, `Terminates` and the end of the reassembly loop
the safety part, that nobody is stuck and that the loop gets on, is proved.
`WindowSorted`, `NoByteLost` and `NoVerdict` are steps on the way to
`TrendIsPeak`, `Refinement` and `NobodyWaits` that say something by themselves;
no run checks them on their own.

## Disagreements between comments and code

Runs with a counterexample (`PROJECT.json`, "findings", quotes the lines):

- `doc_charging`: a buffer enters CHARGING from WARNING, though it was never
  EMPTY.
- `doc_falling`: after a first charge the period is 0 and taking a key counts
  as a rising curve.
- `doc_lone_header`: a read that ends with a header loses the header, and the
  body that follows is read as the next header.
- `doc_discard`: a packet is discarded after its keys were taken.
- `doc_null_key`: a packet that needs no key for its authentication calls
  through a null pointer to get the key's ID, which a debug build stops at.

Read in the code, one line each, and not worth a run: `AddNewContent` returns
true for material it did not store (`qkd-buffer.cc:302`); `SetMthr` leaves the
status as it was (`:547`, no caller in the repository); the metric `m_c` is
computed from unsigned differences that wrap (`:170`); the vector of charging
times holds one value more than its maximum (`:279`); `GetMCurrentPrevious`
returns the current amount (`:194`, plotted only); a read shorter than a header makes
`substr` throw (`qkd-crypto.cc:1882`); a packet encrypted without
authentication leaves without a tag where assertions are off (`:480`);
`QKDKey::GetUid` returns the global counter (`qkd-key.cc:81`); at a peak reached
before, in a window of more than 16 amounts, `m_isRisingCurve` may come out false
(`qkd-buffer.cc:206`, `:220`); a post-processing read that ends right behind ADDKEY
or its colon charges and echoes an uninitialised number
(`qkd-charging-application.cc:1637`, `:1658`, `:1665`), and one that starts with
the semicolon looks at an uninitialised label as well (`:1639`).

## What is not modelled

- Ciphers, authentication tags, hashes, compression, serialisation: pure
  functions of a packet, with no state the properties depend on.
- Real key storage in `QKDBuffer`, which the source marks as under
  construction and every caller leaves off.
- The sifting, authentication and temporary packet trains of post-processing:
  background load whose content no receiver looks at.
- `QKDManager::AddNewLink` and the topology helpers, which build a link before
  the simulation starts, and the link threshold exchange, whose functions in the
  manager are empty.
- The layer 4 queue disc: the bands of the layer 2 disc without the status of
  key material, and without a device that sends packets back.
- `QKDSend` and `QKDSink`: a loop that sends at a fixed rate and does not look at
  the result, and a byte counter.
- Graphs as output.  What a graph does to a buffer, evaluating its status, is
  `GraphCheckState`; the network-wide sum is only plotted.
- The two routing protocols, which are copies of ns-3's AODV and DSDV with other
  metrics.
- In the test runner: command line options, the commands of `waf`, the
  translation of the results into text and HTML.  In the visualizer: drawing,
  plugins, statistics of the links, and the IPython window; an exception in
  drawing, which would lose the messages `update_view` has taken, is left out
  with it.
- Hazards without a property are noted in `PROJECT.json` with the reason: mostly
  values nothing in the program reads again, such as the metric `m_c`, and in
  the visualizer a message that is shown only when the user plays on.
- ns-3 itself and the `virtual-*` copies of its Internet stack.  What the models
  take from ns-3 is: one event at a time, events that are scheduled run, and TCP
  delivers bytes in order.
- The Python bindings (`modulegen__*.py`): two generated registration scripts for
  each ns-3 module, some hundreds of thousands of lines and by far most of the
  Python in the tree, which list the classes of the C++ code and hold no
  behaviour of their own.
