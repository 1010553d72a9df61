------------------------------ MODULE CudaNode ------------------------------
(***************************************************************************)
(* A destination node on the GPU: what CudaChannelProcessor prepares for   *)
(* it, and how process_superposition shapes, serve by serve, the streams   *)
(* of its incoming edges and sums them.                                    *)
(*                                                                         *)
(* A node whose edges all lead with a tdl step runs them in the channel    *)
(* kernel, from the state of each link in device memory; a node with any   *)
(* other edge stages its links on the host.  A sample is <<source, pos>>,  *)
(* its place in the stream of the radio it comes from; gains, phases and   *)
(* draws are left out.  The race of an update with the snap is in module   *)
(* LinkControl: here a serve snaps whole updates.                          *)
(***************************************************************************)
EXTENDS TdlTaps, SequencesExt

CONSTANTS
  Radios,        \* the ids of the radios of a topology
  Nodes,         \* configured nodes: [edges |-> <<[from, chain, taps], ...>>, rx]
  MaxTaps,       \* kDeviceMaxTaps
  MaxDelayLine,  \* kDeviceMaxDelayLine
  MaxGridPoints, \* kDeviceMaxGridPoints
  Tap0Delays,    \* values that updates of tap0_delay_samples carry
  Profiles,      \* delays of the taps that profile swaps carry
  ServeSizes,    \* samples a serve may carry, at most the prepared capacity
  GridStride,    \* samples between two points of the fading grid
  MaxUpdated,    \* bound: links updated in one serve
  MaxFed         \* bound: samples fed

StepKinds == {"tdl", "path_loss", "cfo", "awgn"}

\* What a sample comes from.
Origin == {"silence"} \cup Radios

EdgeConfigs ==
  [from : Radios, chain : Seq(StepKinds), taps : Seq(Nat)]

Leads(edge) == edge.chain # <<>> /\ edge.chain[1] = "tdl"

\* Edge f is the first that brings the stream of a radio.
IsFirstEdge(edges, f, from) ==
  edges[f].from = from /\ \A j \in 1..(f - 1) : edges[j].from # from

ASSUME NodeAssumption ==
  /\ "silence" \notin Radios
  /\ \A n \in Nodes :
      /\ n.edges \in Seq(EdgeConfigs)
      /\ n.edges # <<>> /\ n.rx \in Seq(StepKinds)
      /\ \A k \in DOMAIN n.edges : Leads(n.edges[k]) => n.edges[k].taps # <<>>
  /\ MaxTaps \in Nat \ {0} /\ MaxDelayLine \in Nat /\ MaxGridPoints \in Nat \ {0}
  /\ Tap0Delays \subseteq Nat
  /\ Profiles \subseteq Seq(Nat) \ {<<>>}
  /\ \A p \in Profiles : Len(p) <= MaxTaps
  /\ ServeSizes \subseteq Nat \ {0}
  /\ GridStride \in Nat \ {0}
  /\ MaxUpdated \in Nat /\ MaxFed \in Nat

VARIABLES
  node,          \* the configured node
  phase,         \* "preparing", "ready", "thrown" or "gone"
  owned,         \* allocations of the CudaSuperposeState
  live_tap0,     \* LinkModelState::live.tap0_delay_samples of each edge
  live_profile,  \* the delays of its live profile, <<>> until a swap
  host_link_states,    \* DeviceLinkState of each edge, as the host last saw it
  device_link_states,  \* the same in device memory
  delay_line,    \* LinkModelState::delay_line of each edge, for staging on the host
  fading_time,   \* LinkModelState::tdl_fading.slot_start_samples
  counters,      \* phase and noise counters of the steps of each edge
  rx_counters,   \* and of the receiver model
  device_staged, \* what the last serve read for each edge, output sample and tap
  grid,          \* times of the two grid points around each output sample
  applied,       \* the steps the superposition kernel ran on each edge
  rx_applied,    \* the steps run on the sum
  count,         \* history: samples of the last serve
  fed,           \* history: samples fed to every edge
  origin         \* history: samples fed when a link's delay line was last silenced

resources == <<node, phase, owned>>
links     == <<live_tap0, live_profile, host_link_states, device_link_states, delay_line,
               fading_time, origin>>
steps     == <<counters, rx_counters, applied, rx_applied>>
signal    == <<device_staged, grid, count, fed>>
vars      == <<resources, links, steps, signal>>

Edges     == node.edges
EdgeIndex == DOMAIN Edges

Silent == <<"silence", 0>>

RingOf(taps) == Ceil(LongestDelay(taps)) + FilterTaps
SilentRing(size) == [j \in 0..(size - 1) |-> Silent]
RingOfEdge(edge) == SilentRing(IF Leads(edge) THEN RingOf(edge.taps) ELSE 0)

(***************************************************************************)
(* prepare: the sources of the node, the state of its links, and the       *)
(* allocations, any of which may fail.                                     *)
(***************************************************************************)

\* The edges that are the first of their source: their windows are uploaded.
FirstEdges == {f \in EdgeIndex : IsFirstEdge(Edges, f, Edges[f].from)}
SlotOf(first) == Cardinality({f \in FirstEdges : f < first})

\* A mutated form of src_index: left as the struct was cleared.
SrcIndexUnassigned(k) == 0

src_index(k) == SlotOf(CHOOSE f \in EdgeIndex : IsFirstEdge(Edges, f, Edges[k].from))

source_first_edge(slot) == CHOOSE f \in FirstEdges : SlotOf(f) = slot

use_device_channel == \A k \in EdgeIndex : Leads(Edges[k])

FitsDevice(edge) ==
  Leads(edge) /\ Len(edge.taps) <= MaxTaps /\ RingOf(edge.taps) <= MaxDelayLine

\* build_device_link_state, whose answer the caller ignores: a link that does not
\* fit is left without its tdl.
build_device_link_state(k) ==
  IF FitsDevice(Edges[k])
  THEN [has_tdl |-> TRUE, taps |-> Edges[k].taps,
        delay_line_size |-> RingOf(Edges[k].taps),
        delay_line |-> SilentRing(RingOf(Edges[k].taps)),
        slot_start_samples |-> 0, src_index |-> src_index(k)]
  ELSE [has_tdl |-> FALSE, taps |-> <<>>, delay_line_size |-> 0,
        delay_line |-> SilentRing(0), slot_start_samples |-> 0, src_index |-> src_index(k)]

StepCount(k) == Len(Edges[k].chain)

Allocations ==
  <<"host_staged", "host_output", "device_staged", "device_output", "device_steps",
    "device_step_meta", "stream", "h2d_start", "h2d_done", "kernel_done", "d2h_done">>
  \o (IF node.rx # <<>> THEN <<"device_rx_steps">> ELSE <<>>)
  \o <<"device_link_states", "host_source_iq", "device_source_iq">>

\* A mutated form of Freed: the steps of the receiver model are forgotten.
FreedButRx ==
  {"d2h_done", "kernel_done", "h2d_done", "h2d_start", "stream", "device_source_iq",
   "host_source_iq", "device_link_states", "device_step_meta", "device_steps",
   "device_output", "device_staged", "host_output", "host_staged"}

Freed ==
  {"d2h_done", "kernel_done", "h2d_done", "h2d_start", "stream", "device_source_iq",
   "host_source_iq", "device_link_states", "device_rx_steps", "device_step_meta",
   "device_steps", "device_output", "device_staged", "host_output", "host_staged"}

\* The states of the links need no allocation; the copy that ends prepare makes
\* those on the device equal to them.
Init ==
  /\ node \in Nodes
  /\ phase = "preparing"
  /\ owned = {}
  /\ live_tap0 = [k \in EdgeIndex |-> IF Leads(Edges[k]) THEN Edges[k].taps[1] ELSE 0]
  /\ live_profile = [k \in EdgeIndex |-> <<>>]
  /\ host_link_states = [k \in EdgeIndex |-> build_device_link_state(k)]
  /\ device_link_states = [k \in EdgeIndex |-> build_device_link_state(k)]
  /\ delay_line = [k \in EdgeIndex |-> RingOfEdge(Edges[k])]
  /\ fading_time = [k \in EdgeIndex |-> 0]
  /\ counters = [k \in EdgeIndex |-> [i \in 1..StepCount(k) |-> 0]]
  /\ rx_counters = [i \in 1..Len(node.rx) |-> 0]
  /\ device_staged = [k \in EdgeIndex |-> <<>>]
  /\ grid = [k \in EdgeIndex |-> <<>>]
  /\ applied = [k \in EdgeIndex |-> <<>>]
  /\ rx_applied = <<>>
  /\ count = 0
  /\ fed = 0
  /\ origin = [k \in EdgeIndex |-> 0]

Allocate ==
  /\ phase = "preparing"
  /\ \E i \in DOMAIN Allocations :
      /\ owned = {Allocations[j] : j \in 1..(i - 1)}
      /\ owned' = owned \cup {Allocations[i]}
  /\ UNCHANGED <<node, phase, links, steps, signal>>

\* The link states reach the device.
PrepareReturns ==
  /\ phase = "preparing"
  /\ owned = Range(Allocations)
  /\ phase' = "ready"
  /\ UNCHANGED <<node, owned, links, steps, signal>>

\* A call of the CUDA runtime fails, the last copy included: the entry is freed
\* and erased, and the exception goes on to the broker.
PrepareThrows ==
  /\ phase = "preparing"
  /\ owned' = owned \ Freed
  /\ phase' = "thrown"
  /\ UNCHANGED <<node, links, steps, signal>>

Destroy ==
  /\ phase = "ready"
  /\ owned' = owned \ Freed
  /\ phase' = "gone"
  /\ UNCHANGED <<node, links, steps, signal>>

(***************************************************************************)
(* process_superposition: an update of every link, the snap.               *)
(***************************************************************************)

Updates ==
  [kind : {"none"}, delay : {0}, taps : {<<>>}]
    \cup [kind : {"tap0"}, delay : Tap0Delays, taps : {<<>>}]
    \cup [kind : {"profile"}, delay : {0}, taps : Profiles]

Tap0After(k, u) == IF u.kind = "tap0" THEN u.delay ELSE live_tap0[k]

\* A swap on a chain that does not lead with a tdl is not eligible: it is left in the
\* shadow, or stored without effect if it is forced.
ProfileAfter(k, u) ==
  IF u.kind = "profile" /\ Leads(Edges[k]) THEN u.taps ELSE live_profile[k]

\* A pending swap stays pending: a later scalar update copies the profile again.
profile_just_activated(k, u) == u.kind # "none" /\ ProfileAfter(k, u) # <<>>

\* refresh_all_taps_from_live and refresh_tap0_from_live.
RefreshedTaps(taps, k, u) ==
  IF ProfileAfter(k, u) # <<>>
  THEN SubSeq(ProfileAfter(k, u), 1, Min({Len(ProfileAfter(k, u)), MaxTaps}))
  ELSE [taps EXCEPT ![1] = Tap0After(k, u)]

Refresh(state, k, u) ==
  [state EXCEPT
    !.taps = RefreshedTaps(@, k, u),
    !.delay_line = IF profile_just_activated(k, u) THEN SilentRing(state.delay_line_size)
                   ELSE @]

IsRefreshed(k, u) == u.kind # "none" /\ use_device_channel /\ host_link_states[k].has_tdl

\* A mutated form of Snapped: the host copies its own state back, which the
\* device has left behind.
SnappedFromHost(k, u) ==
  IF IsRefreshed(k, u) THEN Refresh(host_link_states[k], k, u) ELSE device_link_states[k]

\* The state of a link that the channel kernel of this serve reads.
Snapped(k, u) ==
  IF IsRefreshed(k, u) THEN Refresh(device_link_states[k], k, u) ELSE device_link_states[k]

(***************************************************************************)
(* The channel of each edge, on the device or staged on the host, for a    *)
(* serve of n samples.                                                     *)
(***************************************************************************)

\* Sample idx of the window of an edge.
Input(edge, idx) == <<Edges[edge].from, fed + 1 + idx>>

\* The read of apply_channel_kernel and of apply_tdl_step: the window that starts
\* the source's slot, or what the delay line has of the samples before it.
ReadSample(edge, line, size, n, idx) ==
  CASE idx >= n                     -> Silent
    [] idx \in 0..(n - 1)           -> Input(edge, idx)
    [] idx < 0 /\ size + idx >= 0   -> line[size + idx]
    [] idx < 0 /\ size + idx < 0    -> Silent

Shaped(edge, taps, line, size, n) ==
  [j \in 0..(n - 1) |->
    [t \in 1..Len(taps) |->
      [i \in Aperture(taps[t]) |->
        ReadSample(edge, line, size, n, ReadIndex(j, taps[t], i))]]]

\* A link without a tdl: the sample itself, as a tap of delay 0 reads it.
PassedThrough(edge, n) == Shaped(edge, <<0>>, <<>>, 0, n)

\* A mutated form of Rolled: the tail copied one sample late.
RolledOneLate(edge, line, size, n) ==
  [j \in 0..(size - 1) |->
    IF n >= size THEN Input(edge, n - size + j + 1)
    ELSE IF j < size - n THEN line[j + n]
    ELSE Input(edge, j - (size - n) + 1)]

Rolled(edge, line, size, n) ==
  [j \in 0..(size - 1) |->
    IF n >= size THEN Input(edge, n - size + j)
    ELSE IF j < size - n THEN line[j + n]
    ELSE Input(edge, j - (size - n))]

GridCount(n) == (n + GridStride - 1) \div GridStride + 1

\* The fading grid of a serve from time start, with a number of points.
GridTimes(start, n, points) ==
  [j \in 0..(n - 1) |->
    [floor |-> start + Min({j \div GridStride, points - 1}) * GridStride,
     ceil  |-> start + Min({j \div GridStride + 1, points - 1}) * GridStride]]

GridPoints(n) == Min({GridCount(n), MaxGridPoints})

\* launch_apply_channel_kernel_static and launch_update_delay_line_kernel.
ChannelKernel(k, state, n) ==
  LET edge == source_first_edge(state.src_index) IN
  IF state.has_tdl
  THEN Shaped(edge, state.taps, state.delay_line, state.delay_line_size, n)
  ELSE PassedThrough(edge, n)

UpdateDelayLineKernel(state, n) ==
  IF ~state.has_tdl THEN state
  ELSE [state EXCEPT
    !.delay_line = Rolled(source_first_edge(state.src_index), @, state.delay_line_size, n),
    !.slot_start_samples = @ + n]

OnDevice(n, upd) ==
  /\ use_device_channel
  /\ device_staged' = [k \in EdgeIndex |-> ChannelKernel(k, Snapped(k, upd[k]), n)]
  /\ grid' = [k \in EdgeIndex |->
      GridTimes(device_link_states[k].slot_start_samples, n, GridPoints(n))]
  /\ device_link_states' =
      [k \in EdgeIndex |-> UpdateDelayLineKernel(Snapped(k, upd[k]), n)]
  /\ host_link_states' =
      [k \in EdgeIndex |->
        IF IsRefreshed(k, upd[k]) THEN Snapped(k, upd[k]) ELSE host_link_states[k]]
  /\ origin' = [k \in EdgeIndex |->
      IF profile_just_activated(k, upd[k]) THEN fed ELSE origin[k]]
  /\ UNCHANGED <<delay_line, fading_time>>

\* stage_link: the taps of the YAML model, borrowed from the topology.
OnHost(n) ==
  /\ ~use_device_channel
  /\ device_staged' = [k \in EdgeIndex |->
      IF Leads(Edges[k])
      THEN Shaped(k, Edges[k].taps, delay_line[k], RingOf(Edges[k].taps), n)
      ELSE PassedThrough(k, n)]
  /\ grid' = [k \in EdgeIndex |-> GridTimes(fading_time[k], n, GridCount(n))]
  /\ delay_line' = [k \in EdgeIndex |->
      IF Leads(Edges[k]) THEN Rolled(k, delay_line[k], RingOf(Edges[k].taps), n)
      ELSE delay_line[k]]
  /\ fading_time' = [k \in EdgeIndex |->
      IF Leads(Edges[k]) THEN fading_time[k] + n ELSE fading_time[k]]
  /\ UNCHANGED <<host_link_states, device_link_states, origin>>

(***************************************************************************)
(* The rest of each chain: build_steps packs the steps of all edges into   *)
(* one array, which the superposition kernel walks by offset and count.    *)
(***************************************************************************)

\* The steps whose phase or noise goes on from serve to serve.
Counting == {"cfo", "awgn"}

Advanced(chain, counter, n) ==
  [i \in DOMAIN chain |-> IF chain[i] \in Counting THEN counter[i] + n ELSE counter[i]]

\* What a kernel knows of a step: whose it is, and where it starts.
GpuSteps(owner, chain, counter) ==
  [i \in DOMAIN chain |-> [of |-> owner, step |-> i, start |-> counter[i]]]

host_steps == FlattenSeq([k \in EdgeIndex |-> GpuSteps(k, Edges[k].chain, counters[k])])

\* A mutated form of StepOffset: the steps of the edge before, not of all before.
StepOffsetOfLast(k) == IF k = 1 THEN 0 ELSE StepCount(k - 1)

\* The running count when edge k has been packed.
total_steps[k \in 0..Len(Edges)] ==
  IF k = 0 THEN 0 ELSE total_steps[k - 1] + StepCount(k)

StepOffset(k) == total_steps[k - 1]

SuperposeKernel(n) ==
  /\ applied' = [k \in EdgeIndex |->
      SubSeq(host_steps, StepOffset(k) + 1, StepOffset(k) + StepCount(k))]
  /\ counters' = [k \in EdgeIndex |-> Advanced(Edges[k].chain, counters[k], n)]
  /\ rx_applied' = GpuSteps(0, node.rx, rx_counters)
  /\ rx_counters' = Advanced(node.rx, rx_counters, n)

Serve(n, upd) ==
  /\ phase = "ready"
  /\ fed + n <= MaxFed
  /\ live_tap0' = [k \in EdgeIndex |-> Tap0After(k, upd[k])]
  /\ live_profile' = [k \in EdgeIndex |-> ProfileAfter(k, upd[k])]
  /\ OnDevice(n, upd) \/ OnHost(n)
  /\ SuperposeKernel(n)
  /\ count' = n
  /\ fed' = fed + n
  /\ UNCHANGED resources

UpdatesOfServe ==
  {upd \in [EdgeIndex -> Updates] :
    Cardinality({k \in EdgeIndex : upd[k].kind # "none"}) <= MaxUpdated}

Next ==
  \/ Allocate \/ PrepareReturns \/ PrepareThrows \/ Destroy
  \/ \E n \in ServeSizes : \E upd \in UpdatesOfServe : Serve(n, upd)

Spec == Init /\ [][Next]_vars

(***************************************************************************)
(* Properties.                                                             *)
(***************************************************************************)

\* The states of a link with a delay line of a size, when top samples have been fed.
LinkStates(size, top) ==
  [has_tdl : BOOLEAN, taps : Seq(Nat), delay_line_size : {size},
   delay_line : [0..(size - 1) -> Origin \X (0..top)],
   slot_start_samples : Nat, src_index : Nat]

\* The state of a link never outgrows the arrays it has on the device, and its
\* delay line holds no sample that has not been fed.
StateFitsDevice(state, top) ==
  /\ state \in LinkStates(state.delay_line_size, top)
  /\ state.delay_line_size \in 0..MaxDelayLine
  /\ Len(state.taps) <= MaxTaps

TypeOK ==
  /\ node \in Nodes
  /\ phase \in {"preparing", "ready", "thrown", "gone"}
  /\ owned \subseteq Range(Allocations)
  /\ live_tap0 \in [EdgeIndex -> Nat]
  /\ live_profile \in [EdgeIndex -> Seq(Nat)]
  /\ \A k \in EdgeIndex : StateFitsDevice(device_link_states[k], fed)
  /\ \A k \in EdgeIndex : counters[k] \in [1..StepCount(k) -> Nat]
  /\ fed \in Nat /\ count \in 0..fed
  /\ origin \in [EdgeIndex -> 0..fed]

\* Whatever call fails, and when the processor goes, nothing allocated is left.
NothingLeaks == phase \in {"thrown", "gone"} => owned = {}

\* The kernel runs on each edge the steps of its own chain, in their order, with
\* phase and noise going on where the last serve of the node ended; so does the
\* receiver model on the sum.
StepsWithStart(owner, chain, start) ==
  [i \in DOMAIN chain |->
    [of |-> owner, step |-> i, start |-> IF chain[i] \in Counting THEN start ELSE 0]]

ChainsContinuous ==
  count > 0 =>
    /\ \A k \in EdgeIndex : applied[k] = StepsWithStart(k, Edges[k].chain, fed - count)
    /\ rx_applied = StepsWithStart(0, node.rx, fed - count)

\* A sample as the step of edge k names it: its place in the stream of its radio.
AsFed(k, sample) ==
  IF sample = Silent THEN 0 ELSE IF sample[1] = Edges[k].from THEN sample[2] ELSE -1

ReadsAsFed(k, reads) ==
  [j \in DOMAIN reads |->
    [t \in DOMAIN reads[j] |-> [i \in DOMAIN reads[j][t] |-> AsFed(k, reads[j][t][i])]]]
LineAsFed(k, line) == [j \in DOMAIN line |-> AsFed(k, line[j])]

LineOf(k) ==
  IF use_device_channel THEN device_link_states[k].delay_line ELSE delay_line[k]
TimeOf(k) ==
  IF use_device_channel THEN device_link_states[k].slot_start_samples ELSE fading_time[k]

\* Edge k of node m as the tdl step of a CPU link of the same model, with the same
\* updates and swaps.
CpuStep(m, k) == INSTANCE TdlStep WITH
  Leading <- TRUE, Prepared <- m.edges[k].taps,
  live_tap0 <- live_tap0[k], profile <- live_profile[k],
  delay_line <- LineAsFed(k, LineOf(k)), slot_start_samples <- TimeOf(k),
  out <- ReadsAsFed(k, device_staged[k]), grid <- grid[k], origin <- origin[k]

LeadingEdges(m) == {k \in DOMAIN m.edges : Leads(m.edges[k])}

\* The live parameters of a link are those of its model.
AsConfigured(k) == live_tap0[k] = Edges[k].taps[1] /\ live_profile[k] = <<>>

\* What holds of a serve the kernel has the room for, and of a staged serve of a
\* link whose live parameters are those of its model: the rest is BackendsAgree.
WithinReach(k) ==
  IF use_device_channel THEN FitsDevice(Edges[k]) /\ GridCount(count) <= MaxGridPoints
  ELSE AsConfigured(k)

\* In a serve within reach, an edge that leads with a tdl is a tdl step as the CPU
\* backend runs it, with the same history, reads, fading times, updates and swaps,
\* though edges share uploaded windows and the state of a refreshed link goes to
\* the host and back (process_superposition).
EdgeIsCpuStep ==
  /\ \A m \in Nodes : node = m =>
      \A k \in LeadingEdges(m) : WithinReach(k) => CpuStep(m, k)!Init
  /\ [][\A m \in Nodes : node = m =>
        \A k \in LeadingEdges(m) :
          WithinReach(k)' => [CpuStep(m, k)!Next]_(CpuStep(m, k)!vars)]_vars

(***************************************************************************)
(* What the documentation says and the code does not do.                   *)
(***************************************************************************)

\* Both backends read from the live parameters: whichever of its paths the CUDA
\* backend takes for a link, its leading tdl is the step the CPU backend runs.
BackendsAgree ==
  /\ \A m \in Nodes : node = m => \A k \in LeadingEdges(m) : CpuStep(m, k)!Init
  /\ [][\A m \in Nodes : node = m =>
        \A k \in LeadingEdges(m) : [CpuStep(m, k)!Next]_(CpuStep(m, k)!vars)]_vars
=============================================================================
