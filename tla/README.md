# OCUDU channel broker: TLA+ models and proofs

The program relays IQ samples between radios (gNBs and UEs that speak ZeroMQ
request/reply) through a channel emulator. The samples a radio transmits are
pulled into a ring; the receiver of a radio is served the superposition of the
links that lead to it, each link shaped by a channel model on a CPU or CUDA
backend. Channel parameters can be changed while the relay runs.

This directory holds TLA+ modules translated from the source, TLC
configurations that check them on small instances, and TLAPS proofs.

    tlc -config relay_loop.cfg MCRelayLoop      # any run; PROJECT.json names the module of each cfg
    tlapm RelayProofs.tla                       # any *Proofs module

## 1. The system

| component | state | operations | interacts by |
|---|---|---|---|
| Broker relay (`src/src/broker.cpp`) | per device a ring, a puller and a server thread; per link a cursor; fault counters; stop flag | pull, scan and discard, land, accept, join, fit, read, reply, stop, join threads | ring mutexes, ZMQ sockets, atomics |
| IqRing (`src/src/ring.cpp`) | circular buffer, start, size, next sequence | push, read, discard_before, reset | called under the ring's mutex |
| Runtime control protocol (`runtime_control.h`) | per link a shadow, atomic seqno, take_effect_at_slot, current_slot, telemetry seqlock | write shadow, bump, snap, publish, read telemetry | memory shared by the control and serving threads, without a lock |
| Control server (`control_server.cpp`) | open batches, counters, two threads | scalar update, profile swap, batch begin / commit / abort, telemetry frames, start, stop | REP and PUB sockets; the shadows |
| CPU backend (`cpu_backend.cpp`) | per link live parameters, live profile, warm-up, per step state | apply_chain_to_link, process_superposition | called by server threads |
| TDL step (`delay.h`, `mutable_params.cpp`) | delay line, fading state | prepare, convolve, roll | called by both backends |
| CUDA backend (`cuda_backend.cu`, `device_channel.cu`) | per link the same, on the host and in device memory; per destination buffers, stream and events | prepare, choose the path, refresh link states, channel and superposition kernels, stage on the host, free | called by server threads |
| Configuration (`config.cpp`) | while loading: the topology so far, pointers into it; none after | read a line, fold a link, validate | read by all |
| Processor factory (`processing.cpp`) | none | ask the backend, create or refuse | after the load |
| Hardware probe, applications | none | device queries, wiring | - |

What is hard, and what makes each part correct:

* **Relay.** Pullers and servers of all devices interleave; cursors are read by
  a puller while servers advance them; links join late; a message may not fit;
  radios are lock-step, so a broker that waits for one sample too many stops
  everybody. Correct: no sample is lost, repeated or dropped; the links into a
  device stay aligned; a measured window is still there when it is read; REQ and
  REP sockets never get out of step; stop ends every thread.
* **Ring.** Wrap-around. Correct: it is a bounded window of the stream.
* **Control.** A client's update crosses from one thread to another through
  plain memory and one atomic counter; updates carry gates and come in batches.
  Correct: no update is lost, a reply's promise is kept, a scheduled update is
  never early, profiles are whole, artefacts of a swap are flagged.
* **Telemetry.** A thread reads what the serving threads write, without a lock,
  and is started and stopped beside a second one. Correct: an accepted snapshot
  is whole and the last; stop returns, and leaves nobody reading control blocks
  that are about to be freed.
* **Configuration.** A line belongs where pointers of the lines before say; links
  share models that the fold rewrites. Correct: a file is read as it is nested; a
  link's delay is in its model once; what is accepted is what relay and backend
  rely on.
* **TDL.** The stream is cut into serves of any size and the taps change between
  them. Correct: the cut leaves no trace, nothing of the time before a swap
  is heard after it, the fading process runs in stream time.
* **CUDA.** The state of a link is split between host and device, edges share
  source windows and step arrays, and a dozen allocations may fail one by one.
  Correct: an edge is the step the CPU backend runs; nothing leaks.

## 2. Modules

| module | models | state and actions against the code |
|---|---|---|
| `IqWindow` | the ring as a window `[next, size]` | operators of `ring.cpp` without the data |
| `IqRing` | `IqRing` | `buffer`, `start`, `size`, `next_sequence`; `Push`, `Read`, `DiscardBefore` |
| `IqStream` | what the ring promises: the last samples of a stream | refined by `IqRing` (`IsStream`) |
| `IqRingProofs` | theorem of `IqRing` | |
| `Relay` | `Broker::run` | one action per critical section of a ring mutex, or per stretch between two: `Scan`, `Land`, `SendRequest`, `RecvReply`, ... of a puller; `AcceptRequest`, `AlignLink`, `FitLink`, `ReadLink`, `AdvanceCursor`, `SendReply` of a server; `Main` |
| `MCRelayLoop`, `MCRelayEcho` | instances | a radio that hears itself; a gNB and a UE, and the gNB hears itself too |
| `RelayProofs` | theorems of `Relay` | |
| `LinkControl` | `ControlServer` handlers, `runtime_control.h`, the head of `apply_chain_to_link` | control thread: `HandleUpdate`, `HandleStagedUpdate`, `HandleBatch...`, `Reject`, then `WriteData` / `WriteForce` / `WritePending` / `WriteTakeEffect`, `BumpSeqno`, replies; serving thread of a link: `StoreSlot`, `DrainSlot`, `LoadSeqno`, `CheckGate`, `CopyField`, `FinishSnap`, `Run` |
| `MCLinkControl` | instances | links with and without a leading tdl step |
| `LinkControlProofs` | theorems of `LinkControl`: no update is lost | |
| `HandoverProofs` | theorems of `LinkControl`: the books, the closed loop, the warm-ups | |
| `TdlTaps` | what every implementation of a tdl does with a delay | `Aperture`, `ReadIndex`, `LongestDelay` |
| `TdlStep` | `apply_tdl_step(_fading)`, their preparation and their use in `apply_chain_to_link` | `Serve`, `ServeTap0`, `ServeProfile` |
| `MCTdlStep` | instances | |
| `TdlStepProofs` | theorems of `TdlStep` | |
| `CudaNode` | one destination of `CudaChannelProcessor`, with the kernels of `device_channel.cu` | `Allocate`, `PrepareReturns`, `PrepareThrows`, `Destroy`; `Serve`: updates, the refresh of the states on the device (`Snapped`), `OnDevice` or `OnHost`, `SuperposeKernel`. Refines `TdlStep`, once per edge (`EdgeIsCpuStep`) |
| `MCCudaNode` | instances | a node on the device, one staged on the host, one with a link too long for the device |
| `CudaNodeProofs` | theorems of `CudaNode` | |
| `Telemetry` | the seqlock of `runtime_control.h`, `run_telemetry_loop`, `run_loop` without its requests but for the last reply, `start`, `stop` | serving thread: `BeginPublish`, `WriteWord`, `EndPublish`; telemetry thread: `Tick`, `BeginRead`, `LoadPre`, `CopyWord`, `LoadPost`, `GiveUp`, `Close`, `Terminate`; REP thread: `RepBinds`, `RepNotices`, `RepBreaks`, `ReplyTaken`; owner: `Start`, `Stop`, `JoinRep`, `JoinTelemetry`, `Free` |
| `TelemetryFeed` | what the feed promises: a frame shows the last published snapshot, whole | refined by `Telemetry` (`AcceptedIsLatest`) |
| `MCTelemetry` | instance | |
| `TelemetryProofs` | theorems of `Telemetry` | |
| `ConfigReader` | the loop of `load_config_file` and the `apply_` functions | one action per kind of line: `ReadSection`, `ReadDevice`, `ReadStep`, `ReadTapKey`, ...; `ReadFails` where the code throws |
| `TopologyConfig` | `fold_link_leading_delays`, `validate_config`, `create_channel_processor`; extends `ConfigReader` | `FoldNothing`, `FoldCached`, `FoldClone` for the next link, `ValidateConfig`, `CreateProcessor` |
| `MCTopologyConfig` | the files | |
| `ConfigProofs` | theorems of `TopologyConfig` | |

Definitions whose comment calls them a mutated form are plausible slips of the
code. No action uses them; put in place of the definition they follow, each
makes the property that guards against it fail.

### What the models leave out, and why it is sound

*Relay.* A sample is its sequence number; the channel is not applied. `Scan`
reads all cursors of a ring at one instant where the code reads them one by one:
cursors only grow, so a stale minimum discards less. A device's first link pins
its ring until all have joined, as in the code. Exceptions of the processor,
unaligned payloads and ZMQ errors other than `EAGAIN` end a thread by the one
path that is modelled (`report_thread_error`). The heartbeat and the diagnostic
counters are left out; non-blocking sends succeed or time out. Radios are
external, after `tests/test_broker.cpp:186-260`: lock-step, at most `Lead`
samples ahead. As `validate_config` demands, rings hold two batches
(`config.cpp:484`) and every device is a source and a destination. A serve has
any size up to the batch (`broker.cpp:499`).

*LinkControl.* A value is named by the seqno its update bumps to. Every plain
write and every plain read is a step: the shadow is a data race, and any order of
the writes of one update is possible before the releasing bump. The memory model is
that of the x86-64 builds, total store order. The serving thread stores `current_slot`
(relaxed, `runtime_control.h:157`) and then loads `seqno` (160): the store may reach
memory after the load, so it waits in `slot_buffer` until `DrainSlot`. It is the only
store that this can be seen of. Stores reach memory in order, so the telemetry that ends
the serve, and the next store of the slot, come after it; `Run` waits for the
buffer, which is the same to everyone else as telemetry waiting behind the slot. The
control thread bumps `seqno` with a locked addition (`control_server.cpp:260`, 751),
which waits for its earlier stores, and reads `current_slot` after it (287, 305).
A processor with a weaker order, which could also let the load of the gate or the
fields pass others, is not modelled. `profile_pending`
and `force` are read in one step (pending never falls back). Every link has a
serving thread of its own, which allows more interleavings than one thread per
destination. `next_slot` is private, its increment is part of the last step.
Telemetry is published in one step, as the seqlock is shown to do. `Reject` stands for
every rejection that does not depend on state (JSON, field types, ranges). Wrap of the
32-bit seqno is not modelled. A profile is its tap count and its taps. A commit's reply is a promise
only for links whose current slot is before the gate.

*TdlStep.* A sample is its position in the stream, 0 is silence. A delay is in
half samples: even integer, odd fractional. Coefficients, gains, phases and draws
are left out: an output sample is the list of inputs each filter reads. The step
has fading; one without it is the same without the grid. Float rounding is not
modelled. Only the first tdl step of a chain is, and its profiles have at most as
many taps as its YAML.

*CudaNode.* A sample is its source and its place in that source's stream. Kernels
of one serve run in the order of their stream, so the serve is one step; what is
left out of it is arithmetic. Updates arrive whole: their race with the snap is
`LinkControl`'s. Allocations are names, and any call of `prepare` may fail; a call
that fails in the middle of a serve ends the program and is not modelled. The
processor is prepared once, for one destination: two destinations share no state,
since a link has one destination and, as assumed, a key of its own. Of the
device's fixed arrays the model has the tap count, the length of the delay line
and the number of grid points.

*Telemetry.* A snapshot is a few words that the copy writes, and reads, in any
order; a word is the number of the publish that wrote it. Stores and loads of
different words are otherwise seen in program order: that is what the x86-64
builds give; the code has no fences around the plain copies, so by the C++
standard it is a data race. `GiveUp` sends whatever the last attempt copied, and
`AcceptedIsLatest` speaks of accepted snapshots only. A PUB socket drops what is
over its high-water mark, and `zmq_ctx_term` waits for what it keeps; so it does for
a last reply that the REP socket keeps (*closing*, `control_server.cpp:970-971`), whether
there is one being left open. That is libzmq's, taken from how the code uses it.
One thread calls `start` and `stop`.
`Free` waits for the serving threads, which `Broker::run` has joined.

*ConfigReader, TopologyConfig.* A file is a sequence of lines, each an indent, a
dash, a key and a value; quotes, comments, blank lines and the text after a
heading's colon are lexed away. Numbers are integers (delays in hundredths of a
sample), so `nan` is not one. Keys that no property tells apart are read and
dropped. The list of validation errors is whether there is one. A clone's name is
its base with its two delays as printed, a delay of zero included where the code
leaves it out; a name written in the file has one part and a clone's three, so that
no written model takes the name of a clone, as one could on purpose. `WellFormed` wants
a name of every model, since the reader takes the empty one for none. `SaidBy(n)` is
what the first n lines say, without a pointer: a line's role and the line it is nested
in come from indents alone (`Role`, `Parent`), a key has the value of its last line in
the block (`LastOf`), and blocks stand in the order of their first lines (`Rank`). It
follows the code in two choices that YAML leaves open: a model id given twice goes on
with one chain, and keys of a step come before its `taps` and `fading`.

## 3. Runs

| run | instance and bounds | checks | shows |
|---|---|---|---|
| `iq_ring` | capacity 3, two sample values, 7 pushed | `IsStream` | wrap-around in every position, empty, full, partial and whole discards |
| `relay_loop` | one radio that hears itself (links from a device to itself are valid), batch 2, ring 4, messages of 1, 2, 3 and 5, 7 samples, 2 late waits, stop at any moment | `TypeOK`, `NothingDropped`, `SocketDiscipline`, `ShutdownCompletes` | a message that fits, waits for room or never fits; time-outs; stop in every state |
| `relay_fan` | three links, batch 2, ring 4, single-sample messages, 3 samples, the gNB one sample ahead | `CursorInWindow`, `WindowHolds`, `CommonEpoch`, `ExactlyOnce`, `NoFaults`, `AllDelivered` | one ring with two readers, one server with two sources, late join, a last batch that is partial |
| `control_race` | one link, two parameters, 2 requests, gates 0 and 2, 3 serves | `TypeOK`, `NoLostUpdate`, `NoLostProfile`, `EventuallyLive` | every interleaving of the writes of two updates with the reads of a serve |
| `control_closed` | two links, one batch id, 4 requests, four serves of one link and two of the other, clients that wait for telemetry | `Accounted`, `WholeProfile`, `KeepsPromise`, `NeverEarly`, `WarmupFlagged`, `WarmupCapped` | under that client discipline the protocol does what its documents say, but that a reply's slot may be two off and not one (section 6) |
| `control_torn` | violation: any client | `WholeProfile` | section 6 |
| `tdl_stream` | YAML delays 0 and 1.5, delay line of 10, serves of 1, 3, 4 and 12, stride 3, 24 samples | `TypeOK`, `HistoryKept`, `EchoesExact`, `CutLeavesNoTrace`, `FadingInTime` | serves shorter and longer than the delay line in any order, updates between them |
| `tdl_behind` | violation | `EchoesConfigured` | section 6 |
| `config_load` | two radios, three links, four models: 436 choices of delays, models, rates, queue and backend, delays that print alike among them; one file with every kind of line, and that file with a line lost, doubled, swapped with the next, re-indented, dashed or given another value; a file that repeats every block that may be, with a line lost or a block once more | `TypeOK`, `ReadsAsNested`, `EachDelayOnce`, `DelaysWithinCap`, `AcceptedIsRelayable` | the whole of a load, accepted and refused at every stage |
| `cuda_node` | three nodes: three edges of two sources on the device; two edges of one source, one with a delay line of 18 where the device has room for 12; two edges staged. Delay lines of 10 to 12, serves of 3, 12 and 15, the last with a grid point more than there is room for, one update per serve, 18 samples | `TypeOK`, `NothingLeaks`, `ChainsContinuous`, `EdgeIsCpuStep` | every allocation failing; shared windows, refresh between serves, chains of different lengths, a link that does not fit beside one that does |
| `cuda_staged` | violation: the node staged on the host | `BackendsAgree` | section 6 |
| `telemetry` | two links, two words, one published twice, two attempts per read, one frame kept | `TypeOK`, `StopLeavesNoThread`, `AcceptedIsLatest`, `StopReturns` | reads between, across and around publishes; stop at every point of a tick, after failed binds, with a frame or a reply still to be taken |

The bounds are the least at which the cases named occur: a ring must fill and
wrap, a link must join when another is already reading, an update must be
written while another is being copied, a stream must be longer than two delay
lines. What is proved (section 5) holds without bounds. Deadlock is not checked:
clients may fall silent, streams are bounded, and a run may have stopped.

`control_closed` constrains the clients, not the program: one operation per link
and batch, none before telemetry shows the last. `KeepsPromise`, `NeverEarly` and
`WholeProfile` are false without it (section 6), and the discipline is what the telemetry
feed is for (`docs/index.html`, 17). `WarmupFlagged` and `WarmupCapped` are
for full serves: short ones end the warm-up early (`cpu_backend.cpp:208`
counts in serves of the size of the first).

## 4. Fairness

`Relay`: weak fairness of each thread (`Puller`, `Server`, `Main`): operating
system threads that poll with bounded sleeps or time-outs. Radios are fair only
in `FairSpec` (delivery needs peers that go on); `ShutdownCompletes` is checked
under `BrokerSpec`, whatever the radios do. `LinkControl`: weak fairness of the
serving thread of each link, since lock-step radios keep requesting, and of
`Finish`, the control thread at work on a request it has accepted. Clients are
never fair. `Telemetry`: weak fairness of the telemetry thread, of the REP thread,
whose receive times out, and of the owner while it joins them. `start`, `stop` and
the serving threads are not fair, and a read gives up after a bounded number of
attempts, so nothing is asked of the writers. The subscriber is fair in `FairSpec`
only, and only in receiving what is kept for it, as is the client of the last reply
in taking it or going: without that `StopReturns` is false (section 6). `TdlStep` and
`CudaNode` have safety properties only.

## 5. Proofs

All for any value of the constants that meets the named assumptions.

* `RelayProofs` (assumptions: `TopologyAssumption`, `RuntimeAssumption`,
  `RadioAssumption`). `TypeCorrect`, `NoUnreadSampleLost` (`CursorInWindow`),
  `NoWindowVanishes` (`WindowHolds`), `EdgesStayAligned` (`CommonEpoch`).
  `CursorInWindow` is not inductive: a puller about to discard has measured a
  minimum and a server about to read has measured a window. The invariant
  `RelayInvariant` adds that an unjoined link pins its ring, that measured
  windows are still inside the ring, and that all links into a device have
  the same offset to the device's count. A server's own cursors are the only
  ones it advances, which carries the windows over the steps of other threads.

  What is delivered: `SocketsAlternate` (`SocketDiscipline`), `NoMessageDropped`
  (`NothingDropped`), `FaultFree` (`NoFaults`) and `EachSampleOnce` (`ExactlyOnce`): every
  property of the relay's runs but the two of liveness. They hold together or not at
  all, so `DeliveryInv` joins them with `WireInv`, which says what is between the sockets: an answer is there
  only in the state *answered*, and a puller asks only when nothing it pulled is
  still to land. `NothingDropped` has no proviso: what is sent is somewhere, in the
  middle of a stop and beside a refused message too (`DropInv`). A sample is served once
  because a window is measured and read at the cursor, and the cursor moves by what was read before the next window is measured;
  a message is not dropped because it lands whole or waits.
* `IqRingProofs` (`RingAssumption`). `RingIsStream` (`IsStream`): the circular buffer
  refines the window of a stream, for any capacity, samples and messages. The
  invariant is only that the buffer, the start and the size stay in range; the
  argument is about slots: the i-th sample kept is at most one wrap from the start
  (`SlotInRing`), the slots a push writes are those behind the last one kept
  (`PushRefines`), and moving the start leaves every other slot where it was
  (`DiscardRefines`).
* `LinkControlProofs` (`LinkAssumption`, `InputAssumption`). `TypeCorrect`,
  `NoUpdateLost`, `NoProfileLost`, for any client. `NoLostUpdate` speaks of serves at
  rest; the invariant `ControlLinkInv` follows an update through the hand-over: the log
  of a link is one ahead of its seqno exactly while it is written
  (`ControlInv`), a field an update has written holds it or a later one
  (`ShadowInv`), and so does each field a serve has already copied
  (`CopyInv`). This is where the order of the code matters: seqno
  before the copy, writes before the bump.
* `HandoverProofs` (the same, and `BatchAssumption`: no batch id is the model's mark
  for *no batch*). All properties of `control_closed`.
  - For any client: `BooksBalance` (`Accounted`). `Accounts` adds the request in
    progress to the sum, and that a commit under way names an open batch.
  - If the clients close the loop (`ClosedLoop`, the constant that `control_closed`
    sets): `ProfilesWhole`, `PromisesKept`, `GateHolds`. `control_torn` and section 6
    show that all three are false without it. `HandoverInv` is what holds for
    any client: seqnos only fall on their way from log to telemetry
    (`ServerOrder`), the shared gate is that of the last update (`LatestGate`), between
    updates the shared profile is of one swap (`WholeShadow`), a promise is not below
    the gate, and a serve that began before the update was published is covered by it,
    by the slot in memory or the one before it if its own is still buffered
    (`PromiseInv`). `ClosedInv` is what closing the loop adds: a link is at
    most one update ahead of its telemetry (`OneAhead`), so whatever the gate let
    through is the one update that is being copied, and nobody writes beside
    the copy (`SnapInv`).
  - The warm-up of a swap: `WarmupExact` (`WarmupFlagged`) if all serves are of one size
    (`UniformServes`; with others the code's count in slots is wrong, section 6), and
    `WarmupsCapped` (`WarmupCapped`), for any client, if the cap is on, no serve is
    shorter than the one the check counts with, and the links the check skips have no
    delay line (`CapCovers`). The latter needs `CapInv`: whatever is staged, in a batch or
    in a shadow has passed the check.
* `TdlStepProofs` (`StepAssumption`). `TypeCorrect`, `HistoryIsKept`,
  `EchoesAreExact`, `CutsLeaveNoTrace`, `FadingIsInTime`: every property of
  `tdl_stream`. The invariant `TdlInv` is that the delay line is the tail of the
  stream and that the fading process and the stream have one time; a serve
  then reads, by cases on the read position, what one long convolution would.

* `ConfigProofs` (`FilesAssumption`, `BuildAssumption`), for any set of files.
  `ConfigTypes` (`TypeOK`): every pointer of the reader is null or inside what it
  points into, under every line and every refusal. `LoadedIsRelayable`
  (`AcceptedIsRelayable`): the assumptions of `RelayProofs` on topology and queue hold of
  every configuration that loads. `EachDelayFoldedOnce` (`EachDelayOnce`): in any
  file, each link gets its model as written, later by its delay and its source's offset
  once, up to what the six printed digits of a delay do not tell apart (`StandsFor`). That
  the delay is exactly the link's own (`EachDelayExact`) is false as the code
  stands (section 6), and is proved, as `ShortDelaysFoldedOnce`, where a user
  can read off the file that it holds: no delay reaches ten thousand samples.
  `DelaysCapped` (`DelaysWithinCap`) is under `PrintsApart`: links of one model
  whose delays print alike have the same delays.
  The invariant `LoadInv` is typing (`FileInv`, `ConfigInv`, `PointersInv`, with
  `ReadingInv` while the file is read), that what is loaded is valid as it is now and
  not as it was before the fold (`ValidInv`), and the fold (`FoldInv`): links keep their
  ends and written models their chains, every clone is a written model shifted by the
  delay it was made for (`ClonesMade`), the cache tells which links have one
  (`CacheTold`), and the links before the next to fold have theirs (`LinksFolded`).
  `NoneRefused` (`WellFormedIsRead`, the second half of `ReadsAsNested`): no line of a file whose
  nesting, keys and values are good makes the reader throw. Its invariant `NestInv`
  relates the reader's pointers to the roles that the indents alone give the lines: for
  every line that the next one may still be nested in (`Open`), the section is that of
  the line and the pointers are on what it opened (`Known`). From its role the next line
  then passes the test meant for it (`Expected`), and the action that reads it tells
  its role (`ReadTells`).

  `ReadAsNested` (`ReadsAsNested`): what such a file is read as is what its nesting says.
  `ReadsAsNested` speaks of whole files only; the invariant `SaidInv` is that after each
  line the configuration is what the lines read so far say (`config = SaidBy(at)`).
  That is not inductive without `Placed`, of the lines that the next one may be nested
  in: a device or link is the last one, a model is the one pointed to, and the
  pointers of a step and of a tap are the places of their first lines among those of
  the same model, or step. Every role of the next line then has two sides that must
  agree. What the file says changes in one place: nothing, one value of one block
  (`ItemPut`, `StepPut`, `ChainPut`), or one more block at the end (`ItemsOpened`,
  `ChainAppends`, `ModelAdded`); it does so because a new line is the last of its key
  (`SettledGrows`) and of its list (`LastRank`), and leaves the ranks of the others
  (`RankKept`). What the reader changes is where its pointers are (`TopLinesSaid`,
  `ModelLinesSaid`), which `Placed` says is the same place. Blocks are listed by rank, not
  by recursion: that the ranks of a finite set of lines are the places of a sequence,
  without gaps, is the pigeonhole principle of the library (`RankIsPlace`), and the
  proof has no fold to unroll.

* `CudaNodeProofs` (`NodeAssumption`). `TypeCorrect`, `NoLeaks`, `ChainsGoOn`
  (`ChainsContinuous`), and the refinement `EdgesAreCpuSteps` (`EdgeIsCpuStep`):
  whatever the node, each edge that leads with a tdl takes the steps of `TdlStep` in the
  serves within reach of its path (`WithinReach`): on the device, if the link fits it
  and the grid of the serve has no more points than the device keeps, and staged, while
  the live parameters are those of the model. Nothing is asked of the other links of the
  node, or of other serves: a link takes up the CPU's steps again after a serve too long
  for the grid. Outside the reach the same statement (`BackendsAgree`) is false (section
  6). The invariant `MatchInv` is that the taps on the device, of a link that fits it,
  are those of the live profile, which has at most 32 (`control_server.cpp:647`, part of
  `NodeAssumption`), or the YAML's with the live tap 0, and that nothing shortens a
  delay line. That an edge reads the window of its own source, though the window belongs
  to another edge, is `SourceOfSlot`. For the chains, the invariant `ChainInv` is that
  every counter stands at the samples fed; the rest is about packing: a sequence put
  behind others is found at the sum of their lengths (`FoundInPlace`), for any number of
  edges. That is an induction on the number of edges, and so are the first edge of a
  radio (`FirstEdgeExists`), the longest delay of a tdl (`LongestExists`) and the
  existence of the recursive functions (`Iterated`): by the least number at which a set
  of numbers fails (`UpTo`), which follows from `WFMin` of the library.
* `TelemetryProofs` (`TelemetryAssumption`). `TypeCorrect`, `NoThreadIsLeft`
  (`StopLeavesNoThread`) and `AcceptedAreLatest` (`AcceptedIsLatest`): the seqlock
  refines the feed for any number of words, links, attempts and publishes. The
  invariant has the two halves of a seqlock, `BoardInv` (the sequence number tells
  which words a publish has written) and `CopyInv` (as long as it is what it was
  when the attempt began, every word copied is of that publish), and `LifeInv`,
  which ties each thread to the flag that makes stop join it.

Only model-checked: liveness (`AllDelivered`, `ShutdownCompletes`, `EventuallyLive`,
`StopReturns`), which is out of the prover's reach. Every other property of the passing
runs is stated by a theorem; those proved under a condition name it, and say why above.

## 6. Where the code and its documents part

Each of these is a violation run with its finding in `PROJECT.json`:

1. a profile can be copied while the next is written: tap count of one, taps of another (`control_torn`);
2. tap 0 of a tdl step that does not lead its chain is replaced by defaults (`tdl_behind`);
3. on a CUDA node with one link that does not lead with a tdl, all links are staged from the YAML taps: updates of tap 0 and profile swaps are answered, shown by telemetry, and never heard, while the CPU backend runs them (`cuda_staged`).

`BackendsAgree` has two more counterexamples, which `cuda_node` steps over by
`WithinReach` and which show when the nodes and serves of `cuda_node.cfg` are given to
`cuda_staged`:
a link with more taps, or a longer delay line, than the device has runs on CUDA without
any channel, since the refusal of `build_device_link_state` is ignored
(`cuda_backend.cu:557` against `device_channel.h:126-128`), and a serve with
more grid points than 32 freezes the fading of its tail (`device_channel.cu:89`; the
header speaks of a slight loss of accuracy).

Seen while modelling, and left outside the runs by the inputs they are given:

*Control.* A later update overwrites the gate of a scheduled one, which takes
effect early (`control_server.cpp:583` against `runtime_control.h:140` and
`docs/index.html:2828`), and an immediate update is put off by a later scheduled
one. The operations of one commit can land in two serves (`control_server.cpp:833`
against `docs/plans/runtime-mutable-channel-v2.md:236`). The slot of a reply may be two
before the one that runs the update, against the comment that it *may differ by ±1*
(`control_server.cpp:281-283`): the store of `current_slot` is still in the store
buffer of a serve that has loaded `seqno` just before the bump, and the reply names the
slot before. `KeepsPromise` says two, and fails with one. `NeverEarly` fails with
the constants of `control_race.cfg`, whose clients do not wait.

*Telemetry and life cycle.* The telemetry socket keeps the default linger
(`control_server.cpp:983`; the broker sets it to 0, `broker.cpp:102`), so with a
subscriber that is connected and has stopped reading `zmq_ctx_term` waits for
ever, and `stop` with it, against the comment at 1038; so does the REP socket (970)
with a client that neither takes its reply nor goes. `StopReturns` fails under
`Spec`. A PUB socket never answers `EAGAIN`, so `telemetry_drops` stays 0
(`control_server.cpp:1033`). After eight torn attempts a torn or default snapshot
is sent as a frame (`runtime_control.h:227`). A second thread in `stop` returns
before the first has joined (`control_server.cpp:350` against `control_server.h:89`),
and a start that meets a stop clears its request. A failed bind ends the REP
thread while `running_` stays true.

*Backends.* The steps of a receiver model read live parameters that
nothing fills on CUDA (`cuda_backend.cu:479`), so its path loss and CFO are the
defaults.

*Configuration.* Two links on one model whose delays agree in the six digits that
a stream prints, as 10000.01 and 10000.04 samples do, get one clone, and the second the
delay of the first (`config.cpp:696-728` against `docs/index.html:754`). The files
of `config_load` have such pairs; `EachDelayOnce` says what the code keeps of the promise
there, and `EachDelayExact` of `ConfigProofs`, the promise itself, fails on them.

Also: after a swap every scalar update empties the
delay line and opens a warm-up (`cpu_backend.cpp:167`); a live delay longer than
the YAML delay line is accepted and reads silence at the start of every serve
(`control_server.cpp:672` against `docs/index.html:2320`); a tdl step in a
receiver model is accepted and run by the CPU backend, while `docs/index.html:781`
says the validator rejects it; two links with the same ends and model share one
link state (`config.cpp:807`); a delay of `nan` passes validation (`config.cpp:593`);
indented lines before the first section are ignored (`config.cpp:338-374`); a wait is not counted as a starvation if
it is the first after the throttle rebased (`broker.cpp:533`, 606); a swap on a link that is not eligible is acknowledged
(`cpu_backend.cpp:183` against `docs/index.html:2968`); a forced profile that the
log calls inert is used by a tdl step that does not lead (`cpu_backend.cpp:172`
against 321); short serves end a warm-up early (`cpu_backend.cpp:208`); the cap is
checked against a full serve (`control_server.cpp:626`); the fading arrays are
sized by the YAML taps and indexed by the live ones (`delay.h:320`); only the
first tdl delay line is emptied by a swap (`cpu_backend.cpp:195`); fractional
delays below three samples read zeroes for the samples after the serve
(`delay.h:118`, the code says so).

## 7. Not modelled, and what is left

* *Arithmetic.* Gains, phases, filter coefficients, noise and fading draws, float
  rounding, and the time arithmetic of the throttle (`broker.cpp:576-613`), which
  only delays replies that the relay model lets be late anyway.
* *Width of integers.* The 32-bit wrap of seqno, and the 64-bit wrap of `2 * batch`
  where validation asks for room for two batches (`config.cpp:488`): a batch of
  2^63 samples or more would pass it.
* *ZMQ.* A radio that restarts while a pull is outstanding needs a model of
  reconnection, which is not in the repository.
* *CUDA.* Errors in the middle of a serve, timings, the hardware probe.
* *Applications.* Argument parsing, start-up checks and printing; test radios and
  the benchmark.
* *Composition of links.* Two links of one key on one link state: the models number
  links by their place.
