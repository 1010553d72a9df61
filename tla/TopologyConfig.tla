--------------------------- MODULE TopologyConfig ---------------------------
(***************************************************************************)
(* From a topology file to a channel processor: after the reader,          *)
(* fold_link_leading_delays gives every delayed link a model of its own,   *)
(* validate_config accepts or rejects, and create_channel_processor asks   *)
(* the chosen backend whether it supports the models.                      *)
(***************************************************************************)
EXTENDS ConfigReader

CONSTANT HasCuda  \* whether the build has the CUDA backend

ASSUME BuildAssumption == HasCuda \in BOOLEAN

VARIABLES
  folded,      \* links folded
  synthesized  \* the cache: total delay and base model to the clone's id

vars == <<readerVars, phase, config, parsed, folded, synthesized>>

KMaxTapDelaySamples == 100000000  \* hundredths of a sample
KMaxTdlTaps == 64
KMaxFdMaxHz == 100000

(***************************************************************************)
(* Folding                                                                 *)
(***************************************************************************)

\* How a stream prints a number by default: six significant digits.
Printed(d) ==
  LET unit == CASE d < 1000000                     -> 1
                [] d >= 1000000 /\ d < 10000000    -> 10
                [] d >= 10000000 /\ d < 100000000  -> 100
                [] d >= 100000000                  -> 1000
  IN  ((d + unit \div 2) \div unit) * unit

WithId(items, id) == {i \in DOMAIN items : items[i].id = id}

\* find_device: the first of that id, 0 if there is none.
FindDevice(c, id) == IF WithId(c.devices, id) = {} THEN 0 ELSE Min(WithId(c.devices, id))

TxOffset(c, link) ==
  LET d == FindDevice(c, link.from)
  IN  IF d = 0 THEN 0 ELSE c.devices[d].tx_timing_offset_samples

TotalDelay(c, link) == TxOffset(c, link) + link.propagation_delay_samples

\* A mutated form of EffectiveId: named by the sum, which the cache is keyed on.
EffectiveIdOfSource(c, link) == link.model \o <<Printed(TxOffset(c, link))>>

EffectiveId(c, link) ==
  link.model \o <<Printed(TxOffset(c, link)), Printed(link.propagation_delay_samples)>>

Leads(chain) == chain # <<>> /\ chain[1].type = "tdl"

Later(taps, total) ==
  [k \in DOMAIN taps |-> [taps[k] EXCEPT !.delay_samples = @ + total]]

\* The clone's chain: a leading tdl step shifted, or a new one in front.
Delayed(chain, total) ==
  IF Leads(chain)
  THEN [chain EXCEPT ![1].taps = Later(@, total), ![1].taps_declared = TRUE]
  ELSE <<[DefaultStep EXCEPT !.taps = <<[DefaultTap EXCEPT !.delay_samples = total]>>,
                             !.taps_declared = TRUE]>> \o chain

FoldedLink  == config.links[folded + 1]
FoldedTotal == TotalDelay(config, FoldedLink)
CacheKey    == <<FoldedTotal, FoldedLink.model>>

Folding == phase = "folding" /\ folded < Len(config.links)
NextLink == folded' = folded + 1 /\ UNCHANGED <<readerVars, phase, parsed>>

\* No delay, or no such model, which validate_config will report.
FoldNothing ==
  /\ Folding
  /\ FoldedTotal = 0 \/ (/\ CacheKey \notin DOMAIN synthesized
                         /\ FoldedLink.model \notin DOMAIN config.models)
  /\ UNCHANGED <<config, synthesized>>
  /\ NextLink

FoldCached ==
  /\ Folding
  /\ FoldedTotal # 0 /\ CacheKey \in DOMAIN synthesized
  /\ config' = [config EXCEPT !.links[folded + 1].model = synthesized[CacheKey]]
  /\ UNCHANGED synthesized
  /\ NextLink

\* emplace: a clone that bears the name of an earlier one is dropped.
FoldClone ==
  /\ Folding
  /\ FoldedTotal # 0 /\ CacheKey \notin DOMAIN synthesized
  /\ FoldedLink.model \in DOMAIN config.models
  /\ LET id == EffectiveId(config, FoldedLink)
         clone == [chain |-> Delayed(config.models[FoldedLink.model].chain, FoldedTotal)]
     IN  /\ config' = [config EXCEPT !.models = Emplaced(@, id, clone),
                                     !.links[folded + 1].model = id]
         /\ synthesized' = Assigned(synthesized, CacheKey, id)
  /\ NextLink

FoldsDone ==
  /\ phase = "folding" /\ folded = Len(config.links)
  /\ phase' = "validating"
  /\ UNCHANGED <<readerVars, config, parsed, folded, synthesized>>

(***************************************************************************)
(* Validation                                                              *)
(***************************************************************************)

ResolveBatchSamples(runtime, rate) ==
  IF runtime.batch_samples_auto THEN Max({1, rate \div 1000}) ELSE runtime.batch_samples

RuntimeValid(r) == r.queue_samples > 0 /\ (~r.batch_samples_auto => r.batch_samples > 0)

\* A mutated form of RoomForBatches: a ring that holds one batch.
RoomForOne(r, d) == r.queue_samples >= ResolveBatchSamples(r, d.sample_rate_hz)

RoomForBatches(r, d) == r.queue_samples >= 2 * ResolveBatchSamples(r, d.sample_rate_hz)

DeviceValid(c, i) ==
  LET d == c.devices[i] IN
  /\ NoName \notin {d.id, d.tx_endpoint, d.rx_endpoint}
  /\ \A j \in 1..(i - 1) : c.devices[j].id # d.id
  /\ d.sample_rate_hz > 0
  /\ RoomForBatches(c.runtime, d)
  /\ d.rx_model = NoName \/ d.rx_model \in DOMAIN c.models
  /\ d.tx_timing_offset_samples >= 0

LinkValid(c, link) ==
  LET source == FindDevice(c, link.from)
      destination == FindDevice(c, link.to)
  IN  /\ source # 0 /\ destination # 0
      /\ link.model \in DOMAIN c.models
      /\ c.devices[source].sample_rate_hz = c.devices[destination].sample_rate_hz
      /\ link.propagation_delay_samples >= 0

\* The broker relays both directions of every device.
Relayed(c, d) ==
  /\ \E l \in DOMAIN c.links : c.links[l].from = d.id
  /\ \E l \in DOMAIN c.links : c.links[l].to = d.id

AllowedParams(type) ==
  CASE type = "path_loss" -> {"path_loss_db"}
    [] type = "awgn"      -> {"snr_db", "noise_power"}
    [] type = "phase"     -> {"phase_rad"}
    [] type = "cfo"       -> {"cfo_hz", "phase_rad"}
    [] type = "tdl"       -> {}

TapsValid(step) ==
  /\ Len(step.taps) \in 1..KMaxTdlTaps
  /\ \A k \in DOMAIN step.taps :
       LET tap == step.taps[k] IN
       /\ tap.delay_samples \in 0..KMaxTapDelaySamples
       /\ \A j \in 1..(k - 1) : step.taps[j].delay_samples # tap.delay_samples
       /\ tap.is_los => step.fading_enabled /\ tap.los_k_db > 0

StepValid(step) ==
  /\ DOMAIN step.params \subseteq AllowedParams(step.type)
  /\ \A k \in DOMAIN step.params \cap {"delay_samples", "noise_power"} : step.params[k] >= 0
  /\ step.type = "tdl" =>
       /\ TapsValid(step)
       /\ step.fading_enabled => step.f_d_max_hz \in 0..KMaxFdMaxHz /\ step.grid_us > 0
  /\ step.type # "tdl" => ~step.taps_declared /\ ~step.fading_enabled

ModelValid(model) == model.chain # <<>> /\ \A s \in DOMAIN model.chain : StepValid(model.chain[s])

\* A mutated form of ModelsValid: the models as written, before the fold.
WrittenModelsValid(c) == \A m \in DOMAIN parsed.models : ModelValid(parsed.models[m])

ModelsValid(c) == \A m \in DOMAIN c.models : ModelValid(c.models[m])

Valid(c) ==
  /\ RuntimeValid(c.runtime)
  /\ c.devices # <<>>
  /\ \A i \in DOMAIN c.devices : DeviceValid(c, i) /\ Relayed(c, c.devices[i])
  /\ \A l \in DOMAIN c.links : LinkValid(c, c.links[l])
  /\ ModelsValid(c)

Judge(good, next) ==
  /\ phase' = IF good THEN next ELSE "rejected"
  /\ UNCHANGED <<readerVars, config, parsed, folded, synthesized>>

ValidateConfig == phase = "validating" /\ Judge(Valid(config), "loaded")

(***************************************************************************)
(* The processor                                                           *)
(***************************************************************************)

LinkChains(c) == {c.models[c.links[l].model].chain : l \in DOMAIN c.links}
RxChains(c) ==
  {c.models[c.devices[i].rx_model].chain :
     i \in {j \in DOMAIN c.devices : c.devices[j].rx_model # NoName}}

CpuSupports(c) ==
  \A chain \in LinkChains(c) \cup RxChains(c) : \A s \in DOMAIN chain : chain[s].type \in StepTypes

\* Every step but a tdl runs on the device; a tdl only at the head of a link.
CudaSupports(c) ==
  /\ \A chain \in LinkChains(c) : \A s \in 2..Len(chain) : chain[s].type # "tdl"
  /\ \A chain \in RxChains(c) : \A s \in DOMAIN chain : chain[s].type # "tdl"

CreateProcessor ==
  /\ phase = "loaded"
  /\ Judge(IF config.runtime.backend = "cpu" THEN CpuSupports(config)
           ELSE CudaSupports(config) /\ HasCuda, "ready")

Init ==
  /\ ReaderInit
  /\ folded = 0
  /\ synthesized = <<>>

Next ==
  \/ ReadLine /\ UNCHANGED <<folded, synthesized>>
  \/ FoldNothing \/ FoldCached \/ FoldClone \/ FoldsDone
  \/ ValidateConfig
  \/ CreateProcessor

Spec == Init /\ [][Next]_vars

(***************************************************************************)
(* Properties                                                              *)
(***************************************************************************)

Texts == {NoName} \cup {<<file[i].value.w>> : i \in {j \in Lines : file[j].value # Flow}}
Headings == {<<PlainKey(file[i])>> : i \in {j \in Lines : file[j].value = Empty}}

\* Type correctness; no pointer of the reader is left on a block that is gone.
TypeOK ==
  /\ at \in 0..Len(file)
  /\ phase \in {"reading", "folding", "validating", "loaded", "ready", "rejected"}
  /\ section \in Sections \cup {"none"}
  /\ current.device \in 0..Len(config.devices)
  /\ current.link \in 0..Len(config.links)
  /\ current.model \in {NoName} \cup DOMAIN config.models
  /\ current.step \in 0..(IF current.model = NoName THEN 0 ELSE Len(Chain))
  /\ current.tap \in 0..(IF current.step = 0 THEN 0 ELSE Len(Step.taps))
  /\ ~(current.in_taps /\ current.in_fading)
  /\ \A i \in DOMAIN config.devices :
       /\ {config.devices[i].id, config.devices[i].rx_model} \subseteq Texts
       /\ config.devices[i].sample_rate_hz \in Nat
       /\ config.devices[i].tx_timing_offset_samples \in Int
  /\ \A l \in DOMAIN config.links :
       /\ {config.links[l].from, config.links[l].to} \subseteq Texts
       /\ config.links[l].propagation_delay_samples \in Int
  /\ DOMAIN parsed.models \subseteq Headings
  /\ folded \in 0..Len(config.links)

\* What the documents say of a link: its delay, on its model, as written.
Folded == phase \in {"validating", "loaded", "ready"}
Named  == {l \in DOMAIN parsed.links : parsed.links[l].model \in DOMAIN parsed.models}
Due(l) == TotalDelay(parsed, parsed.links[l])
Asked(l) == parsed.models[parsed.links[l].model].chain
Got(l) == config.models[config.links[l].model].chain

LeadingTaps(chain) == IF Leads(chain) THEN chain[1].taps ELSE <<DefaultTap>>
Behind(chain) == IF Leads(chain) THEN Tail(chain) ELSE chain

\* Two links of one model whose delays are printed with the same digits.
PrintAlike(l, m) ==
  /\ parsed.links[l].model = parsed.links[m].model
  /\ Printed(TxOffset(parsed, parsed.links[l])) = Printed(TxOffset(parsed, parsed.links[m]))
  /\ Printed(parsed.links[l].propagation_delay_samples) =
       Printed(parsed.links[m].propagation_delay_samples)

\* The delays that are printed as that of link l, or of a link of the same model
\* and the same sum: its own only, if they are below ten thousand samples.
StandsFor(l) ==
  {Due(m) : m \in {m \in Named : \E k \in Named :
     /\ parsed.links[k].model = parsed.links[l].model /\ Due(k) = Due(l)
     /\ PrintAlike(k, m)}}

DelayedBy(l, total) ==
  /\ LeadingTaps(Got(l)) =
       [k \in DOMAIN LeadingTaps(Asked(l)) |->
         [LeadingTaps(Asked(l))[k] EXCEPT !.delay_samples = @ + total]]
  /\ Behind(Got(l)) = Behind(Asked(l))

\* After the fold every link has its model as written, with every leading tap
\* later by the sum of its propagation delay and the offset of its source: once,
\* whatever other links share the model or the sum (fold_link_leading_delays).
\* The documents promise just that (docs/index.html:754); the code keeps it up to
\* the six digits it prints into the name of a clone, so that of two delays that
\* are printed alike the link may get the other.
EachDelayOnce ==
  Folded => \A l \in Named : \E total \in StandsFor(l) : DelayedBy(l, total)

\* The cap on tap delays, which bounds every delay line, holds of what a link
\* will run and not just of what is written: validation judges the sum
\* (config.cpp:446-448).
DelaysWithinCap ==
  phase \in {"loaded", "ready"} => \A l \in DOMAIN parsed.links :
    \A k \in DOMAIN LeadingTaps(Asked(l)) :
      LeadingTaps(Asked(l))[k].delay_samples + Due(l) \in 0..KMaxTapDelaySamples

\* A configuration that is loaded meets what the broker relies on without
\* looking (TopologyAssumption and RuntimeAssumption of Relay): every ring has
\* a reader and every server a source, a ring holds two batches, and both ends
\* of a link have the same batch.
AcceptedIsRelayable ==
  phase \in {"loaded", "ready"} =>
    LET Batch(i) == ResolveBatchSamples(config.runtime, config.devices[i].sample_rate_hz)
        Src(l) == FindDevice(config, config.links[l].from)
        Dst(l) == FindDevice(config, config.links[l].to)
    IN  /\ {Src(l) : l \in DOMAIN config.links} = DOMAIN config.devices
        /\ {Dst(l) : l \in DOMAIN config.links} = DOMAIN config.devices
        /\ \A i \in DOMAIN config.devices :
             Batch(i) > 0 /\ config.runtime.queue_samples >= 2 * Batch(i)
        /\ \A l \in DOMAIN config.links : Batch(Src(l)) = Batch(Dst(l))
=============================================================================
