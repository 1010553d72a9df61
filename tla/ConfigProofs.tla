---------------------------- MODULE ConfigProofs ----------------------------
(***************************************************************************)
(* Theorems of TopologyConfig: whatever the file, the reader's pointers    *)
(* stay on what has been read, a well-formed file is read to its end and   *)
(* as its nesting says, every delay is folded once, and a configuration    *)
(* that is loaded meets what the broker relies on.                         *)
(***************************************************************************)
EXTENDS TopologyConfig, FiniteSetTheorems, SequenceTheorems, WellFoundedInduction, TLAPS

(***************************************************************************)
(* The types of what is read.                                              *)
(***************************************************************************)

Clones  == UNION {{id \o parts : parts \in Int \X Int} : id \in Texts}
AnyName == Texts \cup Clones

Runtime ==
  [backend : {"cpu", "cuda"}, batch_samples_auto : BOOLEAN, batch_samples : Nat,
   queue_samples : Nat]

Device ==
  [id : Texts, sample_rate_hz : Nat, tx_endpoint : Texts, rx_endpoint : Texts,
   rx_model : Texts, tx_timing_offset_samples : Int]

LinkTo(names) ==
  [from : Texts, to : Texts, model : names, propagation_delay_samples : Int]

TapRec == [delay_samples : Int, gain_db : Int, is_los : BOOLEAN, los_k_db : Int]

DashKeys == {"- "}
Keys == DashKeys \cup {f[i].key : f \in Files, i \in Nat}

Params == UNION {[K -> Int] : K \in SUBSET Keys}

StepRec ==
  [type : StepTypes, params : Params, taps : Seq(TapRec), taps_declared : BOOLEAN,
   fading_enabled : BOOLEAN, f_d_max_hz : Int, grid_us : Int]

ModelRec == [chain : Seq(StepRec)]

Pointers == {"device", "link", "model", "step", "tap", "in_taps", "in_fading"}

(***************************************************************************)
(* The inductive invariant.  The reader only ever opens blocks at the end  *)
(* of their sequence and puts parsed values into them; the fold adds       *)
(* models and renames links; once validated, the configuration no longer   *)
(* changes.                                                                *)
(***************************************************************************)

FileInv ==
  /\ file \in Files /\ at \in 0..Len(file)
  /\ phase \in {"reading", "folding", "validating", "loaded", "ready", "rejected"}
  /\ section \in Sections \cup {"none"}

ConfigInv ==
  /\ DOMAIN config = {"runtime", "devices", "links", "models"}
  /\ config.runtime \in Runtime
  /\ config.devices \in Seq(Device)
  /\ config.links \in Seq(LinkTo(AnyName))
  /\ \A m \in DOMAIN config.models : config.models[m] \in ModelRec
  /\ folded \in 0..Len(config.links)
  /\ DOMAIN parsed.models \subseteq Headings

PointersInv ==
  /\ DOMAIN current = Pointers
  /\ current.device \in 0..Len(config.devices)
  /\ current.link \in 0..Len(config.links)
  /\ current.model \in {NoName} \cup DOMAIN config.models
  /\ current.step \in Nat /\ current.tap \in Nat
  /\ current.step # 0 => current.model # NoName /\ current.step \in 1..Len(Chain)
  /\ current.tap # 0 => current.step # 0 /\ current.tap \in 1..Len(Step.taps)
  /\ ~(current.in_taps /\ current.in_fading)

ReadingInv ==
  phase = "reading" =>
    /\ config.links \in Seq(LinkTo(Texts))
    /\ DOMAIN config.models \subseteq Headings
    /\ folded = 0 /\ DOMAIN synthesized = {}

\* What is synthesized for a link is named by NameOf.  Every model of the
\* configuration is one that was read, or the clone of one for some link;
\* whatever name a folded link was given, it is that of a clone for its own
\* model and delay.
NameOf(l) == EffectiveId(parsed, parsed.links[l])

LinksKept ==
  /\ parsed.devices = config.devices /\ Len(parsed.links) = Len(config.links)
  /\ parsed.links \in Seq(LinkTo(Texts))
  /\ \A l \in DOMAIN parsed.links :
       /\ config.links[l].from = parsed.links[l].from
       /\ config.links[l].to = parsed.links[l].to
       /\ config.links[l].propagation_delay_samples =
            parsed.links[l].propagation_delay_samples
       /\ l > folded => config.links[l].model = parsed.links[l].model

ModelsKept ==
  \A m \in DOMAIN parsed.models :
    m \in DOMAIN config.models /\ config.models[m] = parsed.models[m]

ClonesMade ==
  \A m \in DOMAIN config.models \ DOMAIN parsed.models :
    \E k \in Named : m = NameOf(k) /\ config.models[m].chain = Delayed(Asked(k), Due(k))

CacheTold ==
  \A key \in DOMAIN synthesized : \E k \in Named :
    /\ key = <<Due(k), parsed.links[k].model>>
    /\ synthesized[key] = NameOf(k) /\ NameOf(k) \in DOMAIN config.models

Shifted(l) ==
  \E k \in Named :
    /\ Due(k) = Due(l) /\ parsed.links[k].model = parsed.links[l].model
    /\ config.links[l].model = NameOf(k) /\ NameOf(k) \in DOMAIN config.models

LinksFolded ==
  \A l \in DOMAIN parsed.links : l <= folded =>
    IF Due(l) # 0 /\ l \in Named THEN Shifted(l)
    ELSE config.links[l].model = parsed.links[l].model

AtEnd == phase \in {"folding", "validating", "loaded", "ready"}

FoldInv ==
  AtEnd =>
    /\ LinksKept /\ ModelsKept /\ ClonesMade /\ CacheTold /\ LinksFolded
    /\ phase # "folding" => folded = Len(config.links)

ValidInv == phase \in {"loaded", "ready"} => Valid(config)

LoadInv == FileInv /\ ConfigInv /\ PointersInv /\ ReadingInv /\ FoldInv /\ ValidInv

(***************************************************************************)
(* What a line is, and what a key puts into a block.                       *)
(***************************************************************************)

\* The types depend on the file only, which stays.
LEMMA SameTypes ==
  ASSUME UNCHANGED file
  PROVE  /\ UNCHANGED <<Texts, Headings>> /\ UNCHANGED <<AnyName, Device>>
         /\ \A names : LinkTo(names)' = LinkTo(names)
BY DEF Texts, Headings, AnyName, Clones, Device, LinkTo, Lines

\* A value of a line, as the reader meets it.
Readable(v) ==
  /\ v.is = "number" => v.n \in Int
  /\ <<v.w>> \in Texts

LEMMA LineIsReadable ==
  ASSUME FileInv, at < Len(file), Line.value # Flow
  PROVE  Readable(Line.value) /\ Line.key \in Keys /\ PlainKey(Line) \in Keys
<1>1. at + 1 \in Lines /\ file \in Files
  BY FilesAssumption DEF FileInv, Lines
<1>2. Line.value.is = "number" => Line.value.n \in Int
  BY <1>1, FilesAssumption DEF Line, Lines
<1>4. <<Line.value.w>> \in Texts
  BY <1>1 DEF Line, Texts
<1>5. Readable(Line.value)
  BY <1>2, <1>4 DEF Readable
<1>6. Line.key \in Keys
  BY <1>1 DEF Line, Lines, Keys
<1>7. PlainKey(Line) \in Keys
  <2>1. "- " \in DashKeys
    BY Zenon DEF DashKeys
  <2>2. DashKeys \subseteq Keys
    BY DEF Keys
  <2> QED
    BY <1>6, <2>1, <2>2, Zenon DEF PlainKey
<1> QED
  BY <1>5, <1>6, <1>7

LEMMA DeviceKeepsType ==
  ASSUME NEW d \in Device, NEW k, NEW v, Readable(v), Applies(DeviceKeys, k, v)
  PROVE  Apply(d, DeviceKeys, k, v) \in Device
<1>1. k \in {"id", "role", "sample_rate_hz", "tx_endpoint", "rx_endpoint", "rx_model",
             "tx_timing_offset_samples"}
  BY DEF Applies, DeviceKeys
<1>2. CASE k = "role"
  BY <1>2 DEF Apply, Device
<1>3. CASE k = "sample_rate_hz"
  <2>1. v.n \in Nat
    BY <1>3 DEF Applies, DeviceKeys, Parses, Readable
  <2>2. Apply(d, DeviceKeys, k, v) = [d EXCEPT !.sample_rate_hz = v.n]
    BY <1>3 DEF Apply, Device, DeviceKeys, Parsed
  <2> QED
    BY <2>1, <2>2 DEF Device
<1>4. CASE k = "tx_timing_offset_samples"
  <2>1. v.n \in Int
    BY <1>4 DEF Applies, DeviceKeys, Parses, Readable
  <2>2. Apply(d, DeviceKeys, k, v) = [d EXCEPT !.tx_timing_offset_samples = v.n]
    BY <1>4 DEF Apply, Device, DeviceKeys, Parsed
  <2> QED
    BY <2>1, <2>2 DEF Device
<1>5. CASE k \in {"id", "tx_endpoint", "rx_endpoint", "rx_model"}
  <2>4. DeviceKeys[k] = "text"
    BY <1>5 DEF DeviceKeys
  <2>5. Parsed("text", v) = <<v.w>>
    BY DEF Parsed
  <2>6. k \in DOMAIN d
    BY <1>5 DEF Device
  <2>1. Apply(d, DeviceKeys, k, v) = [d EXCEPT ![k] = <<v.w>>]
    BY <2>4, <2>5, <2>6 DEF Apply
  <2>2. <<v.w>> \in Texts
    BY DEF Readable
  <2> QED
    BY <1>5, <2>1, <2>2 DEF Device
<1> QED
  BY <1>1, <1>2, <1>3, <1>4, <1>5

LEMMA RuntimeKeepsType ==
  ASSUME NEW r \in Runtime, NEW k, NEW v, Readable(v), Applies(RuntimeKeys, k, v)
  PROVE  ApplyRuntime(r, k, v) \in Runtime
<1>1. k \in {"backend", "gpu_device", "batch_samples", "queue_samples"}
  BY DEF Applies, RuntimeKeys
<1>2. CASE k = "backend"
  <2>1. v.w \in {"cpu", "cuda"}
    BY <1>2 DEF Applies, RuntimeKeys, Parses, Word
  <2>2. ApplyRuntime(r, k, v) = [r EXCEPT !.backend = v.w]
    BY <1>2 DEF ApplyRuntime, Apply, Runtime, RuntimeKeys, Parsed
  <2> QED
    BY <2>1, <2>2 DEF Runtime
<1>3. CASE k = "gpu_device"
  BY <1>3 DEF ApplyRuntime, Apply, Runtime
<1>4. CASE k = "queue_samples"
  <2>1. v.n \in Nat
    BY <1>4 DEF Applies, RuntimeKeys, Parses, Readable
  <2>2. ApplyRuntime(r, k, v) = [r EXCEPT !.queue_samples = v.n]
    BY <1>4 DEF ApplyRuntime, Apply, Runtime, RuntimeKeys, Parsed
  <2> QED
    BY <2>1, <2>2 DEF Runtime
<1>5. CASE k = "batch_samples"
  <2>1. v = Word("auto") \/ v.n \in Nat
    BY <1>5 DEF Applies, RuntimeKeys, Parses, Readable
  <2> QED
    BY <1>5, <2>1 DEF ApplyRuntime, Runtime
<1> QED
  BY <1>1, <1>2, <1>3, <1>4, <1>5

LEMMA LinkKeepsType ==
  ASSUME NEW d \in LinkTo(Texts), NEW k, NEW v, Readable(v), Applies(LinkKeys, k, v)
  PROVE  Apply(d, LinkKeys, k, v) \in LinkTo(Texts)
<1>1. k \in {"from", "to", "model", "propagation_delay_samples"}
  BY DEF Applies, LinkKeys
<1>2. CASE k = "propagation_delay_samples"
  <2>1. v.n \in Int
    BY <1>2 DEF Applies, LinkKeys, Parses, Readable
  <2>2. Apply(d, LinkKeys, k, v) = [d EXCEPT !.propagation_delay_samples = v.n]
    BY <1>2 DEF Apply, LinkTo, LinkKeys, Parsed
  <2> QED
    BY <2>1, <2>2 DEF LinkTo
<1>3. CASE k \in {"from", "to", "model"}
  <2>1. LinkKeys[k] = "text" /\ k \in DOMAIN d
    BY <1>3 DEF LinkKeys, LinkTo
  <2>2. Parsed("text", v) = <<v.w>> /\ <<v.w>> \in Texts
    BY DEF Parsed, Readable
  <2>3. Apply(d, LinkKeys, k, v) = [d EXCEPT ![k] = <<v.w>>]
    BY <2>1, <2>2 DEF Apply
  <2> QED
    BY <1>3, <2>2, <2>3 DEF LinkTo
<1> QED
  BY <1>1, <1>2, <1>3

LEMMA TapKeepsType ==
  ASSUME NEW t \in TapRec, NEW k, NEW v, Readable(v), Applies(TapKeys, k, v)
  PROVE  Apply(t, TapKeys, k, v) \in TapRec
<1>1. k \in {"delay_samples", "gain_db", "phase_rad", "is_los", "los_k_db", "los_angle_rad"}
  BY DEF Applies, TapKeys
<1>2. CASE k \in {"phase_rad", "los_angle_rad"}
  BY <1>2 DEF Apply, TapRec
<1>3. CASE k = "is_los"
  <2>0. TapKeys[k] = "bool" /\ k \in DOMAIN t
    BY <1>3 DEF TapKeys, TapRec
  <2>1. Apply(t, TapKeys, k, v) = [t EXCEPT !.is_los = (v \in {Word("true"), Num(1)})]
    BY <1>3, <2>0 DEF Apply, Parsed
  <2>2. \A b \in BOOLEAN : [t EXCEPT !.is_los = b] \in TapRec
    BY DEF TapRec
  <2>3. CASE v \in {Word("true"), Num(1)}
    <3>1. Apply(t, TapKeys, k, v) = [t EXCEPT !.is_los = TRUE]
      BY <2>1, <2>3, Zenon
    <3> QED
      BY <2>2, <3>1
  <2>4. CASE v \notin {Word("true"), Num(1)}
    <3>0. (v \in {Word("true"), Num(1)}) = FALSE
      BY <2>4
    <3>1. Apply(t, TapKeys, k, v) = [t EXCEPT !.is_los = FALSE]
      BY <2>1, <3>0, Zenon
    <3> QED
      BY <2>2, <3>1
  <2> QED
    BY <2>3, <2>4
<1>4. CASE k \in {"delay_samples", "gain_db", "los_k_db"}
  <2>0. TapKeys[k] = "double" /\ k \in DOMAIN t
    BY <1>4 DEF TapKeys, TapRec
  <2>1. v.n \in Int
    BY <2>0 DEF Applies, Parses, Readable
  <2>2. Apply(t, TapKeys, k, v) = [t EXCEPT ![k] = v.n]
    BY <2>0 DEF Apply, Parsed
  <2> QED
    BY <1>4, <2>1, <2>2 DEF TapRec
<1> QED
  BY <1>1, <1>2, <1>3, <1>4

LEMMA ParamsAssigned ==
  ASSUME NEW p \in Params, NEW k \in Keys, NEW n \in Int
  PROVE  Assigned(p, k, n) \in Params
<1>1. PICK K \in SUBSET Keys : p \in [K -> Int]
  BY DEF Params
<1>2. Assigned(p, k, n) \in [K \cup {k} -> Int]
  BY <1>1 DEF Assigned
<1> HIDE DEF Keys
<1> QED
  BY <1>2 DEF Params

\* What a key of a step, and of its fading block, may change.
LEMMA StepKeepsType ==
  ASSUME NEW s \in StepRec, NEW k \in Keys, NEW v, Readable(v), StepApplies(k, v)
  PROVE  ApplyStep(s, k, v) \in StepRec /\ ApplyStep(s, k, v).taps = s.taps
<1>1. CASE k = "type"
  <2>1. v.w \in StepTypes
    BY <1>1 DEF StepApplies, Word
  <2>2. ApplyStep(s, k, v) = [s EXCEPT !.type = v.w]
    BY <1>1 DEF ApplyStep
  <2> QED
    BY <2>1, <2>2 DEF StepRec
<1>2. CASE k # "type"
  <2>1. v.n \in Int
    BY <1>2 DEF StepApplies, Readable
  <2>2. ApplyStep(s, k, v) = [s EXCEPT !.params = Assigned(s.params, k, v.n)]
    BY <1>2 DEF ApplyStep
  <2>3. s.params \in Params
    BY DEF StepRec
  <2>4. Assigned(s.params, k, v.n) \in Params
    BY <2>1, <2>3, ParamsAssigned
  <2> QED
    BY <2>2, <2>4 DEF StepRec
<1> QED
  BY <1>1, <1>2

LEMMA FadingKeepsType ==
  ASSUME NEW s \in StepRec, NEW k, NEW v, Readable(v), Applies(FadingKeys, k, v)
  PROVE  Apply(s, FadingKeys, k, v) \in StepRec /\ Apply(s, FadingKeys, k, v).taps = s.taps
<1>1. k \in {"f_d_max_hz", "spectrum", "grid_us"}
  BY DEF Applies, FadingKeys
<1>2. CASE k = "spectrum"
  BY <1>2 DEF Apply, StepRec
<1>3. CASE k # "spectrum"
  <2>0. FadingKeys[k] = "double" /\ k \in DOMAIN s
    BY <1>1, <1>3 DEF FadingKeys, StepRec
  <2>1. v.n \in Int
    BY <2>0 DEF Applies, Parses, Readable
  <2>2. Apply(s, FadingKeys, k, v) = [s EXCEPT ![k] = v.n]
    BY <2>0 DEF Apply, Parsed
  <2> QED
    BY <1>1, <1>3, <2>1, <2>2 DEF StepRec
<1> QED
  BY <1>2, <1>3

\* A dash opens a block at the end; without one the last block goes on.
LEMMA ItemsExtend ==
  ASSUME NEW Rec, NEW items \in Seq(Rec), NEW fresh \in Rec, NEW keys,
         Line.dash \/ Len(items) # 0,
         \A r \in Rec : Apply(r, keys, Line.key, Line.value) \in Rec
  PROVE  LET extended == Extended(items, fresh, keys)
         IN  extended \in Seq(Rec) /\ Len(extended) \in Nat \ {0}
<1> DEFINE grown == IF Line.dash THEN Append(items, fresh) ELSE items
           n == Len(grown)
           last == Apply(grown[n], keys, Line.key, Line.value)
<1>1. grown \in Seq(Rec) /\ n \in 1..n /\ n \in Nat
  <2>1. CASE Line.dash
    BY <2>1
  <2>2. CASE ~Line.dash
    BY <2>2
  <2> QED
    BY <2>1, <2>2
<1>2. Extended(items, fresh, keys) = [grown EXCEPT ![n] = last]
  BY <1>1 DEF Extended
<1> HIDE DEF grown
<1>3. last \in Rec
  BY <1>1
<1> HIDE DEF n, last
<1>4. [grown EXCEPT ![n] = last] \in Seq(Rec) /\ Len([grown EXCEPT ![n] = last]) = n
  BY <1>1, <1>3 DEF n
<1> QED
  BY <1>1, <1>2, <1>4

(***************************************************************************)
(* Every line read keeps the invariant.                                    *)
(***************************************************************************)

LEMMA InitHolds == Init => LoadInv
<1> SUFFICES ASSUME Init PROVE LoadInv
  OBVIOUS
<1> USE DEF Init, ReaderInit
<1>1. FileInv
  BY FilesAssumption DEF FileInv
<1>2. ConfigInv
  <2>1. DefaultRuntime \in Runtime
    BY DEF DefaultRuntime, Runtime
  <2>2. config.devices = <<>> /\ config.links = <<>> /\ config.models = <<>>
        /\ parsed.models = <<>> /\ config.runtime = DefaultRuntime
        /\ DOMAIN config = {"runtime", "devices", "links", "models"}
    BY DEF NoConfig
  <2> QED
    BY <2>1, <2>2 DEF ConfigInv
<1>3. PointersInv
  BY DEF PointersInv, NoPointers, Pointers, NoConfig
<1>4. ReadingInv
  BY DEF ReadingInv, NoConfig
<1>5. FoldInv /\ ValidInv
  BY DEF FoldInv, AtEnd, ValidInv
<1> QED
  BY <1>1, <1>2, <1>3, <1>4, <1>5 DEF LoadInv

\* A step that reads a line and goes on.
Consumed ==
  /\ phase = "reading" /\ at < Len(file) /\ at' = at + 1
  /\ UNCHANGED <<file, phase, parsed, folded, synthesized>>

TypedAfter ==
  /\ DOMAIN config' = {"runtime", "devices", "links", "models"}
  /\ config'.runtime \in Runtime
  /\ config'.devices \in Seq(Device)
  /\ config'.links \in Seq(LinkTo(Texts))
  /\ \A m \in DOMAIN config'.models : config'.models[m] \in ModelRec
  /\ DOMAIN config'.models \subseteq Headings

LEMMA ReadingTyped ==
  ASSUME LoadInv, phase = "reading"
  PROVE  /\ DOMAIN config = {"runtime", "devices", "links", "models"}
         /\ config.runtime \in Runtime
         /\ config.devices \in Seq(Device)
         /\ config.links \in Seq(LinkTo(Texts))
         /\ \A m \in DOMAIN config.models : config.models[m] \in ModelRec
         /\ DOMAIN config.models \subseteq Headings
BY DEF LoadInv, ConfigInv, ReadingInv

LEMMA LinksWiden ==
  ASSUME NEW links \in Seq(LinkTo(Texts))
  PROVE  links \in Seq(LinkTo(AnyName))
<1>1. LinkTo(Texts) \subseteq LinkTo(AnyName)
  BY DEF LinkTo, AnyName
<1> HIDE DEF LinkTo
<1> QED
  BY <1>1

LEMMA LineKeepsInv ==
  ASSUME LoadInv, Consumed, TypedAfter, PointersInv', section' \in Sections \cup {"none"}
  PROVE  LoadInv'
<1>1. FileInv'
  BY FilesAssumption DEF LoadInv, FileInv, Consumed
<1>2. /\ Texts' = Texts /\ Headings' = Headings /\ AnyName' = AnyName /\ Device' = Device
      /\ LinkTo(Texts)' = LinkTo(Texts) /\ LinkTo(AnyName)' = LinkTo(AnyName)
  <2>1. UNCHANGED file
    BY DEF Consumed
  <2>2. Texts' = Texts /\ Headings' = Headings /\ AnyName' = AnyName /\ Device' = Device
    BY <2>1, SameTypes
  <2> QED
    BY <2>2 DEF LinkTo
<1>3. config'.links \in Seq(LinkTo(AnyName))
  BY LinksWiden DEF TypedAfter
<1>4. folded' = 0 /\ DOMAIN synthesized' = {} /\ parsed' = parsed
  BY DEF LoadInv, ReadingInv, Consumed
<1> HIDE DEF LinkTo, Device, Runtime, ModelRec
<1>5. ConfigInv'
  BY <1>2, <1>3, <1>4 DEF ConfigInv, TypedAfter, LoadInv
<1>6. ReadingInv'
  BY <1>2, <1>4 DEF ReadingInv, TypedAfter
<1>7. FoldInv' /\ ValidInv'
  BY DEF FoldInv, AtEnd, ValidInv, Consumed
<1> QED
  BY <1>1, <1>5, <1>6, <1>7 DEF LoadInv

\* Pointers into the models stay good when the models stay.
LEMMA PointersKept ==
  ASSUME PointersInv, UNCHANGED <<config.models, current.model, current.step, current.tap,
                                  current.in_taps, current.in_fading>>,
         DOMAIN current' = Pointers,
         current'.device \in 0..Len(config'.devices), current'.link \in 0..Len(config'.links)
  PROVE  PointersInv'
<1>1. Chain' = Chain /\ Step' = Step
  BY DEF Chain, Step
<1> QED
  BY <1>1 DEF PointersInv

LEMMA NoPointersGood ==
  ASSUME LoadInv, current' = NoPointers, UNCHANGED config
  PROVE  PointersInv'
BY DEF LoadInv, ConfigInv, PointersInv, NoPointers, Pointers

\* A device or a link that a line begins or goes on with is the last one.
LEMMA ItemsGrow ==
  ASSUME LoadInv, phase = "reading", NEW devices, NEW links,
         devices = Extended(config.devices, DefaultDevice, DeviceKeys),
         links = Extended(config.links, DefaultLink, LinkKeys)
  PROVE  /\ DeviceLine => devices \in Seq(Device) /\ Len(devices) \in Nat \ {0}
         /\ LinkLine => links \in Seq(LinkTo(Texts)) /\ Len(links) \in Nat \ {0}
<1>1. PointersInv /\ FileInv
  BY DEF LoadInv
<1> HIDE DEF Device, LinkTo
<1>2. config.devices \in Seq(Device) /\ config.links \in Seq(LinkTo(Texts))
  BY ReadingTyped
<1>3. ASSUME DeviceLine
      PROVE  devices \in Seq(Device) /\ Len(devices) \in Nat \ {0}
  <2>1. at < Len(file) /\ Line.value # Flow /\ Applies(DeviceKeys, Line.key, Line.value)
        /\ (Line.dash \/ current.device # 0)
    BY <1>3 DEF DeviceLine, ItemLine, Reading
  <2>2. \A d \in Device : Apply(d, DeviceKeys, Line.key, Line.value) \in Device
    BY <1>1, <2>1, LineIsReadable, DeviceKeepsType
  <2>3. DefaultDevice \in Device
    BY DEF DefaultDevice, Device, Texts
  <2>4. Line.dash \/ Len(config.devices) # 0
    BY <1>1, <2>1 DEF PointersInv
  <2> QED
    BY <1>2, <2>2, <2>3, <2>4, ItemsExtend
<1>4. ASSUME LinkLine
      PROVE  links \in Seq(LinkTo(Texts)) /\ Len(links) \in Nat \ {0}
  <2>1. at < Len(file) /\ Line.value # Flow /\ Applies(LinkKeys, Line.key, Line.value)
        /\ (Line.dash \/ current.link # 0)
    BY <1>4 DEF LinkLine, ItemLine, Reading
  <2>2. \A d \in LinkTo(Texts) : Apply(d, LinkKeys, Line.key, Line.value) \in LinkTo(Texts)
    BY <1>1, <2>1, LineIsReadable, LinkKeepsType
  <2>3. DefaultLink \in LinkTo(Texts)
    BY DEF DefaultLink, LinkTo, Texts
  <2>4. Line.dash \/ Len(config.links) # 0
    BY <1>1, <2>1 DEF PointersInv
  <2> QED
    BY <1>2, <2>2, <2>3, <2>4, ItemsExtend
<1> QED
  BY <1>3, <1>4

LEMMA TopLinesKeepInv ==
  ASSUME LoadInv, ReadSection \/ SkipLine \/ ReadRuntime \/ ReadDevice \/ ReadLink,
         UNCHANGED <<folded, synthesized>>
  PROVE  LoadInv'
<1>1. Consumed
  BY DEF ReadSection, SkipLine, ReadRuntime, ReadDevice, ReadLink, RuntimeLine, DeviceLine,
         LinkLine, ItemLine, Reading, Consume, Consumed
<1>2. /\ DOMAIN config = {"runtime", "devices", "links", "models"}
      /\ config.runtime \in Runtime
      /\ config.devices \in Seq(Device)
      /\ config.links \in Seq(LinkTo(Texts))
      /\ \A m \in DOMAIN config.models : config.models[m] \in ModelRec
      /\ DOMAIN config.models \subseteq Headings
  BY <1>1, ReadingTyped DEF Consumed
<1>3. PointersInv /\ section \in Sections \cup {"none"} /\ FileInv
  BY DEF LoadInv, FileInv
<1> HIDE DEF Runtime, Device, LinkTo, ModelRec, Headings
<1>4. CASE ReadSection
  <2>1. TypedAfter /\ section' \in Sections \cup {"none"}
    BY <1>2, <1>4 DEF ReadSection, TypedAfter, TopLevel, Heading
  <2>2. PointersInv'
    BY <1>4, NoPointersGood DEF ReadSection
  <2> QED
    BY <1>1, <2>1, <2>2, LineKeepsInv
<1>5. CASE SkipLine
  <2>1. TypedAfter
    BY <1>2, <1>5 DEF SkipLine, TypedAfter
  <2>2. PointersInv'
    BY <1>3, <1>5, PointersKept DEF SkipLine, PointersInv
  <2> QED
    BY <1>1, <1>3, <1>5, <2>1, <2>2, LineKeepsInv DEF SkipLine
<1>6. CASE ReadRuntime
  <2>1. Line.key = PlainKey(Line)
    BY <1>6 DEF ReadRuntime, RuntimeLine, PlainKey, Applies, RuntimeKeys
  <2>2. ApplyRuntime(config.runtime, Line.key, Line.value) \in Runtime
    <3>1. at < Len(file) /\ Line.value # Flow /\ Applies(RuntimeKeys, Line.key, Line.value)
      BY <1>6, <2>1 DEF ReadRuntime, RuntimeLine, Reading
    <3> QED
      BY <1>2, <1>3, <3>1, LineIsReadable, RuntimeKeepsType
  <2>3. /\ DOMAIN config' = DOMAIN config /\ config'.devices = config.devices
        /\ config'.links = config.links /\ config'.models = config.models
        /\ config'.runtime \in Runtime
    BY <1>2, <1>6, <2>2 DEF ReadRuntime
  <2>4. TypedAfter
    BY <1>2, <2>3 DEF TypedAfter
  <2>5. UNCHANGED <<current, section>>
    BY <1>6 DEF ReadRuntime
  <2>6. PointersInv'
    BY <1>3, <2>3, <2>5, PointersKept DEF PointersInv
  <2> QED
    BY <1>1, <1>3, <2>4, <2>5, <2>6, LineKeepsInv
<1>7. CASE ReadDevice
  <2> DEFINE devices == Extended(config.devices, DefaultDevice, DeviceKeys)
  <2>1. devices \in Seq(Device) /\ Len(devices) \in Nat
    BY <1>1, <1>7, ItemsGrow DEF ReadDevice, Consumed
  <2>2. /\ config' = [config EXCEPT !.devices = devices]
        /\ current' = [current EXCEPT !.device = Len(devices)]
        /\ UNCHANGED section
    BY <1>7 DEF ReadDevice
  <2> HIDE DEF devices
  <2>3. TypedAfter
    BY <1>2, <2>1, <2>2 DEF TypedAfter
  <2>4. PointersInv'
    BY <1>2, <1>3, <2>1, <2>2, PointersKept DEF PointersInv, Pointers
  <2> QED
    BY <1>1, <1>3, <2>2, <2>3, <2>4, LineKeepsInv
<1>8. CASE ReadLink
  <2> DEFINE links == Extended(config.links, DefaultLink, LinkKeys)
  <2>1. links \in Seq(LinkTo(Texts)) /\ Len(links) \in Nat
    BY <1>1, <1>8, ItemsGrow DEF ReadLink, Consumed
  <2>2. /\ config' = [config EXCEPT !.links = links]
        /\ current' = [current EXCEPT !.link = Len(links)]
        /\ UNCHANGED section
    BY <1>8 DEF ReadLink
  <2> HIDE DEF links
  <2>3. TypedAfter
    BY <1>2, <2>1, <2>2 DEF TypedAfter
  <2>4. PointersInv'
    BY <1>2, <1>3, <2>1, <2>2, PointersKept DEF PointersInv, Pointers
  <2> QED
    BY <1>1, <1>3, <2>2, <2>3, <2>4, LineKeepsInv
<1> QED
  BY <1>4, <1>5, <1>6, <1>7, <1>8

(***************************************************************************)
(* The lines of the models section.                                        *)
(***************************************************************************)

\* Changing one model's chain leaves all else.
ChainSet(m, chain) ==
  /\ DOMAIN config' = DOMAIN config
  /\ UNCHANGED <<config.runtime, config.devices, config.links>>
  /\ DOMAIN config'.models = DOMAIN config.models
  /\ \A k \in DOMAIN config.models : config'.models[k] \in ModelRec
  /\ config'.models[m].chain = chain

LEMMA ChainChanges ==
  ASSUME ConfigInv, NEW m \in DOMAIN config.models, NEW chain \in Seq(StepRec),
         config' = [config EXCEPT !.models[m].chain = chain]
  PROVE  ChainSet(m, chain)
<1> DEFINE model == [config.models[m] EXCEPT !.chain = chain]
           models == [config.models EXCEPT ![m] = model]
<1> HIDE DEF StepRec
<1>1. model \in ModelRec /\ model.chain = chain
  <2>1. config.models[m] \in ModelRec
    BY DEF ConfigInv
  <2> QED
    BY <2>1 DEF ModelRec
<1>2. config' = [config EXCEPT !.models = models]
  OBVIOUS
<1> HIDE DEF model
<1>3. /\ DOMAIN models = DOMAIN config.models /\ models[m] = model
      /\ \A k \in DOMAIN config.models : models[k] \in ModelRec
  BY <1>1 DEF ConfigInv
<1> HIDE DEF models
<1>4. /\ DOMAIN config' = DOMAIN config /\ config'.models = models
      /\ UNCHANGED <<config.runtime, config.devices, config.links>>
  BY <1>2 DEF ConfigInv
<1> QED
  BY <1>1, <1>3, <1>4 DEF ChainSet

\* What the pointers point at.
LEMMA StepIsRead ==
  ASSUME ConfigInv, PointersInv, current.model # NoName
  PROVE  /\ current.model \in DOMAIN config.models
         /\ Chain \in Seq(StepRec) /\ Len(Chain) \in Nat
         /\ current.step # 0 => Step \in StepRec /\ Step.taps \in Seq(TapRec)
<1> HIDE DEF StepRec
<1>1. current.model \in DOMAIN config.models
  BY DEF PointersInv
<1>2. config.models[current.model] \in ModelRec
  BY <1>1 DEF ConfigInv
<1>3. Chain \in Seq(StepRec)
  BY <1>2 DEF ModelRec, Chain
<1>4. Len(Chain) \in Nat
  BY <1>3
<1>5. ASSUME current.step # 0
      PROVE  Step \in StepRec /\ Step.taps \in Seq(TapRec)
  <2>1. current.step \in 1..Len(Chain)
    BY <1>5 DEF PointersInv
  <2>2. Step \in StepRec
    BY <1>3, <2>1 DEF Step
  <2> QED
    BY <2>2 DEF StepRec
<1> QED
  BY <1>1, <1>3, <1>4, <1>5

LEMMA StepChanges ==
  ASSUME ConfigInv, PointersInv, current.step # 0, NEW s \in StepRec, config' = WithStep(s)
  PROVE  /\ \E chain : ChainSet(current.model, chain)
         /\ LET chain == config'.models[current.model].chain
            IN  chain[current.step] = s /\ Len(chain) = Len(Chain)
<1> DEFINE m == current.model
           n == current.step
           chain == [Chain EXCEPT ![n] = s]
<1>1. /\ m \in DOMAIN config.models /\ n \in 1..Len(Chain)
      /\ Chain \in Seq(StepRec) /\ Len(Chain) \in Nat
  BY StepIsRead DEF PointersInv
<1>2. config' = [config EXCEPT !.models[m].chain = chain]
  BY DEF WithStep, Chain
<1> HIDE DEF StepRec, m, n
<1>3. chain \in Seq(StepRec) /\ chain[n] = s /\ Len(chain) = Len(Chain)
  BY <1>1
<1> HIDE DEF chain
<1>4. ChainSet(m, chain)
  BY <1>1, <1>2, <1>3, ChainChanges
<1>5. config'.models[m].chain = chain
  BY <1>4 DEF ChainSet
<1> QED
  BY <1>3, <1>4, <1>5 DEF m, n

LEMMA ChainKeepsTypes ==
  ASSUME LoadInv, phase = "reading", NEW m, NEW chain, ChainSet(m, chain)
  PROVE  TypedAfter
BY ReadingTyped DEF TypedAfter, ChainSet

\* The pointers after a step that leaves device, link and model alone.
LEMMA PointersMove ==
  ASSUME ConfigInv, PointersInv, NEW chain, ChainSet(current.model, chain),
         current.model # NoName,
         DOMAIN current' = Pointers,
         UNCHANGED <<current.device, current.link, current.model>>,
         current'.step \in Nat, current'.tap \in Nat,
         current'.step # 0 => current'.step \in 1..Len(chain),
         current'.tap # 0 =>
           current'.step # 0 /\ current'.tap \in 1..Len(chain[current'.step].taps),
         ~(current'.in_taps /\ current'.in_fading)
  PROVE  PointersInv'
<1>1. Chain' = chain
  BY DEF Chain, ChainSet
<1>2. Step' = chain[current'.step]
  BY <1>1 DEF Step
<1>3. /\ config'.devices = config.devices /\ config'.links = config.links
      /\ DOMAIN config'.models = DOMAIN config.models
  BY DEF ChainSet
<1>4. current.model \in DOMAIN config.models
  BY DEF PointersInv
<1> QED
  BY <1>1, <1>2, <1>3, <1>4 DEF PointersInv

ModelLineRead ==
  \/ ReadModel \/ ReadChain \/ ReadStep \/ ReadTaps \/ ReadFading \/ ReadTap
  \/ ReadTapKey \/ ReadFadingKey \/ ReadStepKey

LEMMA ModelLineConsumes ==
  ASSUME ModelLineRead, UNCHANGED <<folded, synthesized>>
  PROVE  Consumed /\ section' = section /\ Line.value # Flow
BY DEF ModelLineRead, ReadModel, ReadChain, ReadStep, ReadTaps, ReadFading, ReadTap,
   ReadTapKey,
       ReadFadingKey, ReadStepKey, ModelLine, ChainLine, StepLine, TapsLine, FadingLine,
       TapLine, TapKeyLine, FadingKeyLine, StepKeyLine, Reading, Consume, Consumed

LEMMA DefaultsTyped == DefaultStep \in StepRec /\ DefaultTap \in TapRec
<1>1. <<>> \in [{} -> Int]
  OBVIOUS
<1>2. <<>> \in Params
  <2>1. {} \in SUBSET Keys
    OBVIOUS
  <2> HIDE DEF Keys
  <2> QED
    BY <1>1, <2>1 DEF Params
<1>3. <<>> \in Seq(TapRec)
  OBVIOUS
<1>4. DefaultStep \in StepRec
  BY <1>2, <1>3 DEF DefaultStep, StepRec, StepTypes
<1>5. DefaultTap \in TapRec
  BY DEF DefaultTap, TapRec
<1> QED
  BY <1>4, <1>5

\* Opening a model, or its chain again.
LEMMA ModelKeepsInv ==
  ASSUME LoadInv, ReadModel \/ ReadChain, UNCHANGED <<folded, synthesized>>
  PROVE  LoadInv'
<1>1. Consumed /\ section' = section
  BY ModelLineConsumes DEF ModelLineRead
<1>2. /\ DOMAIN config = {"runtime", "devices", "links", "models"}
      /\ config.runtime \in Runtime
      /\ config.devices \in Seq(Device)
      /\ config.links \in Seq(LinkTo(Texts))
      /\ \A m \in DOMAIN config.models : config.models[m] \in ModelRec
      /\ DOMAIN config.models \subseteq Headings
  BY <1>1, ReadingTyped DEF Consumed
<1>3. PointersInv /\ section' \in Sections \cup {"none"} /\ FileInv
  BY <1>1 DEF LoadInv, FileInv
<1> HIDE DEF Runtime, Device, LinkTo, ModelRec, Headings
<1>4. CASE ReadModel
  <2> DEFINE id == <<PlainKey(Line)>>
             empty == [chain |-> <<>>]
             models == Emplaced(config.models, id, empty)
  <2>1. id \in Headings
    <3>1. at + 1 \in Lines /\ Line.value = Empty
      BY <1>1, <1>3, <1>4, FilesAssumption
         DEF ReadModel, ModelLine, AtModel, Consumed, FileInv, Lines
    <3> QED
      BY <3>1 DEF Line, Headings
  <2>2. empty \in ModelRec
    BY DEF ModelRec
  <2>3. config' = [config EXCEPT !.models = models] /\ current' = InModel(id)
    BY <1>4 DEF ReadModel
  <2> HIDE DEF id, empty
  <2>4. /\ DOMAIN models = DOMAIN config.models \cup {id}
        /\ \A m \in DOMAIN models : models[m] \in ModelRec
    BY <1>2, <2>2 DEF Emplaced, Assigned
  <2> HIDE DEF models
  <2>5. TypedAfter
    BY <1>2, <2>1, <2>3, <2>4 DEF TypedAfter
  <2>6. /\ DOMAIN current' = Pointers
        /\ current'.device = current.device /\ current'.link = current.link
        /\ current'.model = id /\ current'.step = 0 /\ current'.tap = 0
        /\ current'.in_taps = FALSE
    BY <1>3, <2>3 DEF InModel, PointersInv, Pointers
  <2>7. config'.devices = config.devices /\ config'.links = config.links
        /\ config'.models = models
    BY <1>2, <2>3
  <2>8. PointersInv'
    BY <1>3, <2>4, <2>6, <2>7 DEF PointersInv
  <2> QED
    BY <1>1, <1>3, <2>5, <2>8, LineKeepsInv
<1>5. CASE ReadChain
  <2>1. config' = config /\ current' = InModel(current.model)
    BY <1>5 DEF ReadChain
  <2>2. /\ DOMAIN current' = Pointers
        /\ current'.device = current.device /\ current'.link = current.link
        /\ current'.model = current.model /\ current'.step = 0 /\ current'.tap = 0
        /\ current'.in_taps = FALSE
    BY <1>3, <2>1 DEF InModel, PointersInv, Pointers
  <2>3. PointersInv'
    BY <1>3, <2>1, <2>2 DEF PointersInv
  <2>4. TypedAfter
    BY <1>2, <2>1 DEF TypedAfter
  <2> QED
    BY <1>1, <1>3, <2>3, <2>4, LineKeepsInv
<1> QED
  BY <1>4, <1>5

\* Opening a step.
LEMMA StepKeepsInv ==
  ASSUME LoadInv, ReadStep, UNCHANGED <<folded, synthesized>>
  PROVE  LoadInv'
<1> DEFINE step == ApplyStep(DefaultStep, Line.key, Line.value)
           chain == Append(Chain, step)
<1>1. Consumed /\ section' = section /\ Line.value # Flow
  BY ModelLineConsumes DEF ModelLineRead
<1>2. ConfigInv /\ PointersInv /\ FileInv /\ section' \in Sections \cup {"none"}
  BY <1>1 DEF LoadInv, FileInv
<1>3. current.model # NoName /\ StepApplies(Line.key, Line.value)
  BY DEF ReadStep, StepLine, AtStep
<1>4. step \in StepRec
  BY <1>1, <1>2, <1>3, LineIsReadable, DefaultsTyped, StepKeepsType DEF Consumed
<1>5. /\ current.model \in DOMAIN config.models
      /\ Chain \in Seq(StepRec) /\ Len(Chain) \in Nat
  BY <1>2, <1>3, StepIsRead
<1>6. config' = [config EXCEPT !.models[current.model].chain = chain]
  BY DEF ReadStep, Chain
<1>7. current' = [current EXCEPT !.step = Len(Chain) + 1, !.tap = 0, !.in_taps = FALSE,
                                 !.in_fading = FALSE]
  BY DEF ReadStep, InStep
<1> HIDE DEF step, StepRec
<1>8. chain \in Seq(StepRec) /\ Len(chain) = Len(Chain) + 1
  BY <1>4, <1>5
<1> HIDE DEF chain
<1>9. ChainSet(current.model, chain)
  BY <1>2, <1>5, <1>6, <1>8, ChainChanges
<1>10. PointersInv'
  <2>1. /\ DOMAIN current' = Pointers
        /\ UNCHANGED <<current.device, current.link, current.model>>
        /\ current'.step = Len(Chain) + 1 /\ current'.tap = 0 /\ current'.in_taps = FALSE
    BY <1>2, <1>7 DEF PointersInv, Pointers
  <2> QED
    BY <1>2, <1>3, <1>5, <1>8, <1>9, <2>1, PointersMove
<1>11. TypedAfter
  BY <1>1, <1>9, ChainKeepsTypes DEF Consumed
<1> QED
  BY <1>1, <1>2, <1>10, <1>11, LineKeepsInv

\* A line within a step: the taps it has, and the pointer to one of them.
LEMMA WithinStep ==
  ASSUME LoadInv, Consumed, section' = section, current.step # 0,
         NEW s \in StepRec, config' = WithStep(s),
         DOMAIN current' = Pointers,
         UNCHANGED <<current.device, current.link, current.model, current.step>>,
         current'.tap \in Nat, current'.tap # 0 => current'.tap \in 1..Len(s.taps),
         ~(current'.in_taps /\ current'.in_fading)
  PROVE  LoadInv'
<1>1. ConfigInv /\ PointersInv /\ section' \in Sections \cup {"none"}
  BY DEF LoadInv, FileInv
<1>2. current.model # NoName /\ current.step \in 1..Len(Chain)
  BY <1>1 DEF PointersInv
<1>3. PICK chain : ChainSet(current.model, chain)
  BY <1>1, StepChanges
<1>4. chain[current.step] = s /\ Len(chain) = Len(Chain)
  <2>1. config'.models[current.model].chain = chain
    BY <1>3 DEF ChainSet
  <2> QED
    BY <1>1, <2>1, StepChanges
<1>5. current.step \in Nat
  BY <1>1 DEF PointersInv
<1>6. PointersInv'
  BY <1>1, <1>2, <1>3, <1>4, <1>5, PointersMove
<1>7. TypedAfter
  BY <1>3, ChainKeepsTypes DEF Consumed
<1> QED
  BY <1>1, <1>6, <1>7, LineKeepsInv

LEMMA InStepKeepsInv ==
  ASSUME LoadInv,
         ReadTaps \/ ReadFading \/ ReadTap \/ ReadTapKey \/ ReadFadingKey \/ ReadStepKey,
         UNCHANGED <<folded, synthesized>>
  PROVE  LoadInv'
<1>1. Consumed /\ section' = section /\ Line.value # Flow
  BY ModelLineConsumes DEF ModelLineRead
<1>2. ConfigInv /\ PointersInv /\ FileInv
  BY DEF LoadInv
<1>3. Readable(Line.value) /\ Line.key \in Keys /\ PlainKey(Line) \in Keys
  BY <1>1, <1>2, LineIsReadable DEF Consumed
<1>4. current.step # 0
  <2>1. current.tap # 0 => current.step # 0
    BY <1>2 DEF PointersInv
  <2> QED
    BY <2>1 DEF ReadTaps, ReadFading, ReadTap, ReadTapKey, ReadFadingKey, ReadStepKey,
                TapsLine, FadingLine, TapLine, TapKeyLine, FadingKeyLine, StepKeyLine, AtTaps,
                AtFading, AtTap, AtTapKey, AtFadingKey, AtStepKey
<1>5. Step \in StepRec /\ Step.taps \in Seq(TapRec)
  BY <1>2, <1>4, StepIsRead DEF PointersInv
<1>6. /\ DOMAIN current = Pointers /\ current.tap \in Nat
      /\ current.tap # 0 => current.tap \in 1..Len(Step.taps)
      /\ ~(current.in_taps /\ current.in_fading)
  BY <1>2 DEF PointersInv
<1>7. CASE ReadTaps
  <2> DEFINE s == [Step EXCEPT !.taps_declared = TRUE]
  <2>1. s \in StepRec
    BY <1>5 DEF StepRec
  <2>3. config' = WithStep(s)
    BY <1>7 DEF ReadTaps
  <2>2. /\ DOMAIN current' = Pointers
        /\ UNCHANGED <<current.device, current.link, current.model, current.step>>
        /\ current'.tap = 0 /\ current'.in_fading = FALSE
    BY <1>6, <1>7 DEF ReadTaps, Pointers
  <2> HIDE DEF s
  <2> QED
    BY <1>1, <1>4, <2>1, <2>2, <2>3, WithinStep
<1>8. CASE ReadFading
  <2> DEFINE s == [Step EXCEPT !.fading_enabled = TRUE]
  <2>1. s \in StepRec
    BY <1>5 DEF StepRec
  <2>3. config' = WithStep(s)
    BY <1>8 DEF ReadFading
  <2>2. /\ DOMAIN current' = Pointers
        /\ UNCHANGED <<current.device, current.link, current.model, current.step>>
        /\ current'.tap = 0 /\ current'.in_taps = FALSE
    BY <1>6, <1>8 DEF ReadFading, Pointers
  <2> HIDE DEF s
  <2> QED
    BY <1>1, <1>4, <2>1, <2>2, <2>3, WithinStep
<1>9. CASE ReadTap
  <2> DEFINE tap == Apply(DefaultTap, TapKeys, Line.key, Line.value)
             taps == Append(Step.taps, tap)
             s == [Step EXCEPT !.taps = taps]
  <2>1. tap \in TapRec
    BY <1>3, <1>9, DefaultsTyped, TapKeepsType DEF ReadTap, TapLine
  <2>2. config' = WithStep(s)
    BY <1>9 DEF ReadTap
  <2> HIDE DEF tap, TapRec
  <2>3. taps \in Seq(TapRec) /\ Len(taps) = Len(Step.taps) + 1 /\ Len(Step.taps) \in Nat
    BY <1>5, <2>1
  <2> HIDE DEF taps
  <2>4. s \in StepRec /\ s.taps = taps
    BY <1>5, <2>3 DEF StepRec
  <2>5. /\ DOMAIN current' = Pointers
        /\ UNCHANGED <<current.device, current.link, current.model, current.step>>
        /\ current'.tap = Len(Step.taps) + 1
        /\ UNCHANGED <<current.in_taps, current.in_fading>>
    BY <1>6, <1>9 DEF ReadTap, Pointers
  <2> HIDE DEF s
  <2> QED
    BY <1>1, <1>4, <1>6, <2>2, <2>3, <2>4, <2>5, WithinStep
<1>10. CASE ReadTapKey
  <2> DEFINE n == current.tap
             tap == Apply(Step.taps[n], TapKeys, Line.key, Line.value)
             taps == [Step.taps EXCEPT ![n] = tap]
             s == [Step EXCEPT !.taps = taps]
  <2>1. n \in 1..Len(Step.taps) /\ Applies(TapKeys, PlainKey(Line), Line.value)
    BY <1>6, <1>10 DEF ReadTapKey, TapKeyLine, AtTapKey
  <2>2. Line.key = PlainKey(Line)
    BY <2>1 DEF PlainKey, Applies, TapKeys
  <2>3. Step.taps[n] \in TapRec
    <3> HIDE DEF TapRec
    <3> QED
      BY <1>5, <2>1
  <2>4. tap \in TapRec
    BY <1>3, <2>1, <2>2, <2>3, TapKeepsType
  <2>5. config' = WithStep(s)
    BY <1>10 DEF ReadTapKey
  <2> HIDE DEF tap, TapRec, n
  <2>6. taps \in Seq(TapRec) /\ Len(taps) = Len(Step.taps)
    BY <1>5, <2>1, <2>4
  <2> HIDE DEF taps
  <2>7. s \in StepRec /\ s.taps = taps
    BY <1>5, <2>6 DEF StepRec
  <2>8. UNCHANGED current
    BY <1>10 DEF ReadTapKey
  <2> HIDE DEF s
  <2> QED
    BY <1>1, <1>4, <1>6, <2>5, <2>6, <2>7, <2>8, WithinStep
<1>11. CASE ReadFadingKey
  <2> DEFINE s == Apply(Step, FadingKeys, Line.key, Line.value)
  <2>1. Applies(FadingKeys, PlainKey(Line), Line.value) /\ config' = WithStep(s)
        /\ UNCHANGED current
    BY <1>11 DEF ReadFadingKey, FadingKeyLine
  <2>2. Line.key = PlainKey(Line)
    BY <2>1 DEF PlainKey, Applies, FadingKeys
  <2>3. s \in StepRec /\ s.taps = Step.taps
    BY <1>3, <1>5, <2>1, <2>2, FadingKeepsType
  <2> HIDE DEF s
  <2> QED
    BY <1>1, <1>4, <1>6, <2>1, <2>3, WithinStep
<1>12. CASE ReadStepKey
  <2> DEFINE s == ApplyStep(Step, PlainKey(Line), Line.value)
  <2>1. StepApplies(PlainKey(Line), Line.value) /\ config' = WithStep(s)
        /\ UNCHANGED current
    BY <1>12 DEF ReadStepKey, StepKeyLine
  <2>2. s \in StepRec /\ s.taps = Step.taps
    BY <1>3, <1>5, <2>1, StepKeepsType
  <2> HIDE DEF s
  <2> QED
    BY <1>1, <1>4, <1>6, <2>1, <2>2, WithinStep
<1> QED
  BY <1>7, <1>8, <1>9, <1>10, <1>11, <1>12

(***************************************************************************)
(* The end of the reading.                                                 *)
(***************************************************************************)

LEMMA ReaderKeepsInv ==
  ASSUME LoadInv, ReadLine, UNCHANGED <<folded, synthesized>>
  PROVE  LoadInv'
<1> USE DEF LoadInv
<1>1. CASE ReadSection \/ SkipLine \/ ReadRuntime \/ ReadDevice \/ ReadLink
  BY <1>1, TopLinesKeepInv
<1>2. CASE ReadModel \/ ReadChain
  BY <1>2, ModelKeepsInv
<1>3. CASE ReadStep
  BY <1>3, StepKeepsInv
<1>4. CASE ReadTaps \/ ReadFading \/ ReadTap \/ ReadTapKey \/ ReadFadingKey \/ ReadStepKey
  BY <1>4, InStepKeepsInv
<1>5. ASSUME UNCHANGED <<readerVars, config>>, ReadFails \/ EndOfFile, ConfigInv', FoldInv'
      PROVE  LoadInv'
  <2>1. phase' \in {"folding", "rejected"}
    BY <1>5 DEF ReadFails, EndOfFile
  <2>2. Chain' = Chain /\ Step' = Step
    BY <1>5 DEF Chain, Step, readerVars
  <2>3. PointersInv'
    BY <1>5, <2>2 DEF PointersInv, readerVars
  <2> QED
    BY <1>5, <2>1, <2>3 DEF FileInv, ReadingInv, ValidInv, readerVars
<1>6. CASE ReadFails
  <2>1. UNCHANGED <<file, at, section, current, config, parsed>> /\ phase' = "rejected"
    BY <1>6 DEF ReadFails, readerVars
  <2>2. UNCHANGED <<Texts, Headings>> /\ UNCHANGED <<AnyName, Device>>
        /\ LinkTo(AnyName)' = LinkTo(AnyName)
    BY <2>1, SameTypes
  <2>3. ConfigInv'
    <3> HIDE DEF Runtime, Device, LinkTo, ModelRec, Headings
    <3> QED
      BY <2>1, <2>2 DEF ConfigInv
  <2>4. FoldInv'
    BY <2>1 DEF FoldInv, AtEnd
  <2> QED
    BY <1>5, <1>6, <2>1, <2>3, <2>4 DEF readerVars
<1>7. CASE EndOfFile
  <2>1. /\ UNCHANGED <<file, at, section, current, config>> /\ parsed' = config
        /\ phase = "reading" /\ phase' = "folding"
    BY <1>7 DEF EndOfFile, readerVars
  <2>2. UNCHANGED <<Texts, Headings>> /\ UNCHANGED <<AnyName, Device>>
        /\ LinkTo(AnyName)' = LinkTo(AnyName) /\ LinkTo(Texts)' = LinkTo(Texts)
    BY <2>1, SameTypes
  <2>3. /\ config.links \in Seq(LinkTo(Texts)) /\ DOMAIN config.models \subseteq Headings
        /\ folded = 0 /\ DOMAIN synthesized = {}
    BY <2>1 DEF ReadingInv
  <2> HIDE DEF Runtime, Device, LinkTo, ModelRec, Headings
  <2>4. ConfigInv'
    BY <2>1, <2>2, <2>3 DEF ConfigInv
  <2>5. LinksKept'
    BY <2>1, <2>2, <2>3 DEF LinksKept
  <2>6. ModelsKept' /\ ClonesMade' /\ CacheTold'
    BY <2>1, <2>3 DEF ModelsKept, ClonesMade, CacheTold
  <2>7. LinksFolded'
    <3>1. \A l \in DOMAIN parsed'.links : ~(l <= folded')
      BY <2>1, <2>3
    <3> QED
      BY <3>1 DEF LinksFolded
  <2>8. FoldInv'
    BY <2>1, <2>5, <2>6, <2>7 DEF FoldInv
  <2> QED
    BY <1>5, <1>7, <2>1, <2>4, <2>8 DEF readerVars
<1> QED
  BY <1>1, <1>2, <1>3, <1>4, <1>6, <1>7 DEF ReadLine

(***************************************************************************)
(* The fold.                                                               *)
(***************************************************************************)

\* A nonempty set of indices has a least one, which is what Min chooses.
LEMMA MinIsLeast ==
  ASSUME NEW S \in SUBSET Nat, S # {}
  PROVE  Min(S) \in S /\ \A y \in S : Min(S) <= y
<1> DEFINE R == {ss \in Nat \X Nat : ss[1] < ss[2]}
<1>1. IsWellFoundedOn(R, Nat)
  BY NatLessThanWellFounded DEF OpToRel
<1>2. \A m, k \in Nat : m < k => <<m, k>> \in R
  OBVIOUS
<1> HIDE DEF R
<1>3. PICK n \in S : \A m \in S : ~(<<m, n>> \in R)
  BY <1>1, WFMin
<1>4. ASSUME NEW m \in S
      PROVE  n <= m
  <2>1. n \in Nat /\ m \in Nat /\ ~(<<m, n>> \in R)
    BY <1>3
  <2> QED
    BY <1>2, <2>1
<1>5. \E x \in S : \A y \in S : x <= y
  BY <1>4
<1> QED
  BY <1>5 DEF Min

LEMMA FoundIsIndex ==
  ASSUME NEW c, c.devices \in Seq(Device), NEW id, FindDevice(c, id) # 0
  PROVE  FindDevice(c, id) \in DOMAIN c.devices
<1>1. WithId(c.devices, id) \subseteq DOMAIN c.devices /\ DOMAIN c.devices \subseteq Nat
  BY DEF WithId
<1>2. WithId(c.devices, id) # {}
  BY DEF FindDevice
<1>3. Min(WithId(c.devices, id)) \in WithId(c.devices, id)
  BY <1>1, <1>2, MinIsLeast
<1> QED
  BY <1>1, <1>2, <1>3 DEF FindDevice

LEMMA DelaysAreInt ==
  ASSUME ConfigInv, FoldInv, AtEnd, NEW l \in DOMAIN parsed.links
  PROVE  /\ TxOffset(parsed, parsed.links[l]) \in Int
         /\ parsed.links[l].propagation_delay_samples \in Int
         /\ Due(l) \in Int
<1> DEFINE link == parsed.links[l]
           d == FindDevice(parsed, link.from)
<1>1. parsed.devices \in Seq(Device) /\ parsed.links \in Seq(LinkTo(Texts))
  BY DEF ConfigInv, FoldInv, LinksKept
<1>2. link.propagation_delay_samples \in Int
  <2>1. link \in LinkTo(Texts)
    <3> HIDE DEF LinkTo
    <3> QED
      BY <1>1
  <2> QED
    BY <2>1 DEF LinkTo
<1>3. TxOffset(parsed, link) \in Int
  <2>1. CASE d = 0
    BY <2>1 DEF TxOffset
  <2>2. CASE d # 0
    <3>1. d \in DOMAIN parsed.devices
      BY <1>1, <2>2, FoundIsIndex
    <3>2. parsed.devices[d] \in Device
      <4> HIDE DEF d, Device
      <4> QED
        BY <1>1, <3>1
    <3>3. parsed.devices[d].tx_timing_offset_samples \in Int
      BY <3>2 DEF Device
    <3> QED
      BY <2>2, <3>3 DEF TxOffset
  <2> QED
    BY <2>1, <2>2
<1> QED
  BY <1>2, <1>3 DEF Due, TotalDelay

LEMMA LaterTyped ==
  ASSUME NEW taps \in Seq(TapRec), NEW total \in Int
  PROVE  /\ Later(taps, total) \in Seq(TapRec)
         /\ DOMAIN Later(taps, total) = DOMAIN taps
<1>1. \A k \in DOMAIN taps : taps[k] \in TapRec
  <2> HIDE DEF TapRec
  <2> QED
    OBVIOUS
<1>2. \A t \in TapRec : [t EXCEPT !.delay_samples = @ + total] \in TapRec
  <2>1. \A t \in TapRec, n \in Int : [t EXCEPT !.delay_samples = n] \in TapRec
    BY DEF TapRec
  <2>2. \A t \in TapRec : t.delay_samples + total \in Int
    BY DEF TapRec
  <2> HIDE DEF TapRec
  <2> QED
    BY <2>1, <2>2
<1>3. DOMAIN taps = 1..Len(taps) /\ Len(taps) \in Nat
  OBVIOUS
<1> HIDE DEF TapRec
<1> QED
  BY <1>1, <1>2, <1>3 DEF Later

\* The clone of a chain is a chain.
LEMMA DelayedTyped ==
  ASSUME NEW chain \in Seq(StepRec), NEW total \in Int
  PROVE  Delayed(chain, total) \in Seq(StepRec)
<1>1. CASE Leads(chain)
  <2> DEFINE taps == Later(chain[1].taps, total)
             first == [chain[1] EXCEPT !.taps = taps, !.taps_declared = TRUE]
  <2>1. chain[1] \in StepRec /\ 1 \in DOMAIN chain
    <3> HIDE DEF StepRec
    <3> QED
      BY <1>1 DEF Leads
  <2>2. chain[1].taps \in Seq(TapRec)
    BY <2>1 DEF StepRec
  <2>4. taps \in Seq(TapRec)
    BY <2>2, LaterTyped
  <2>5. first \in StepRec
    <3> HIDE DEF taps
    <3> QED
      BY <2>1, <2>4 DEF StepRec
  <2>6. Delayed(chain, total) = [chain EXCEPT ![1].taps = taps, ![1].taps_declared = TRUE]
    BY <1>1 DEF Delayed
  <2> HIDE DEF taps, StepRec
  <2>7. Delayed(chain, total) = [chain EXCEPT ![1] = first]
    BY <2>1, <2>6
  <2> HIDE DEF first
  <2> QED
    BY <2>1, <2>5, <2>7
<1>2. CASE ~Leads(chain)
  <2> DEFINE tap == [DefaultTap EXCEPT !.delay_samples = total]
             step == [DefaultStep EXCEPT !.taps = <<tap>>, !.taps_declared = TRUE]
  <2>1. tap \in TapRec
    BY DefaultsTyped DEF TapRec
  <2>2. <<tap>> \in Seq(TapRec)
    <3> HIDE DEF tap, TapRec
    <3> QED
      BY <2>1
  <2>3. step \in StepRec
    <3> HIDE DEF tap
    <3> QED
      BY <2>2, DefaultsTyped DEF StepRec
  <2> HIDE DEF StepRec, step
  <2>4. <<step>> \o chain \in Seq(StepRec)
    BY <2>3
  <2> QED
    BY <1>2, <2>4 DEF Delayed, step
<1> QED
  BY <1>1, <1>2

LEMMA PrintedIsInt == \A d \in Int : Printed(d) \in Int
<1>1. \A d \in Int, unit \in {1, 10, 100, 1000} :
        ((d + unit \div 2) \div unit) * unit \in Int
  BY SMT
<1>2. ASSUME NEW d \in Int
      PROVE  Printed(d) \in Int
  <2> DEFINE unit == CASE d < 1000000                     -> 1
                       [] d >= 1000000 /\ d < 10000000    -> 10
                       [] d >= 10000000 /\ d < 100000000  -> 100
                       [] d >= 100000000                  -> 1000
  <2>1. unit \in {1, 10, 100, 1000}
    BY SMT
  <2>2. Printed(d) = ((d + unit \div 2) \div unit) * unit
    BY SMT DEF Printed
  <2> HIDE DEF unit
  <2> QED
    BY <1>1, <2>1, <2>2, SMT
<1> QED
  BY <1>2

\* The name of a clone has three parts, which say what it is a clone of.
LEMMA CloneName ==
  ASSUME NEW w, NEW a, NEW b
  PROVE  LET id == <<w>> \o <<a, b>>
         IN  Len(id) = 3 /\ id[1] = w /\ id[2] = a /\ id[3] = b
<1> DEFINE S == {w, a, b}
           p == <<w>>
           q == <<a, b>>
<1>1. p \in Seq(S) /\ q \in Seq(S) /\ Len(p) = 1 /\ Len(q) = 2
      /\ p[1] = w /\ q[1] = a /\ q[2] = b
  OBVIOUS
<1> HIDE DEF S, p, q
<1>2. Len(p \o q) = 3 /\ \A i \in 1..3 : (p \o q)[i] = IF i <= 1 THEN p[i] ELSE q[i - 1]
  BY <1>1, ConcatProperties
<1>3. (p \o q)[1] = w /\ (p \o q)[2] = a /\ (p \o q)[3] = b
  BY <1>1, <1>2
<1> QED
  BY <1>2, <1>3 DEF p, q

LEMMA WrittenName ==
  ASSUME ConfigInv, FoldInv, AtEnd, NEW l \in DOMAIN parsed.links
  PROVE  /\ parsed.links[l].model \in Texts
         /\ \E w : parsed.links[l].model = <<w>>
<1>1. parsed.links[l] \in LinkTo(Texts)
  <2> HIDE DEF LinkTo
  <2> QED
    BY DEF FoldInv, LinksKept
<1>2. parsed.links[l].model \in Texts
  BY <1>1 DEF LinkTo
<1>3. CASE parsed.links[l].model = NoName
  <2>1. NoName = <<"">>
    BY DEF NoName
  <2>2. \E w : NoName = <<w>>
    BY <2>1, Zenon
  <2> QED
    BY <1>2, <1>3, <2>2
<1>4. CASE parsed.links[l].model # NoName
  <2>1. PICK i \in Lines : parsed.links[l].model = <<file[i].value.w>>
    BY <1>2, <1>4 DEF Texts
  <2> QED
    BY <1>2, <2>1
<1> QED
  BY <1>3, <1>4

LEMMA NameTells ==
  ASSUME ConfigInv, FoldInv, AtEnd, NEW l \in DOMAIN parsed.links
  PROVE  /\ NameOf(l) \in AnyName
         /\ NameOf(l) \notin Texts /\ NameOf(l) \notin Headings
         /\ \A k \in DOMAIN parsed.links :
              NameOf(k) = NameOf(l) => parsed.links[k].model = parsed.links[l].model
<1> DEFINE A(k) == Printed(TxOffset(parsed, parsed.links[k]))
           B(k) == Printed(parsed.links[k].propagation_delay_samples)
<1>1. \A k : NameOf(k) = parsed.links[k].model \o <<A(k), B(k)>>
  BY DEF NameOf, EffectiveId
<1>2. A(l) \in Int /\ B(l) \in Int
  BY DelaysAreInt, PrintedIsInt
<1> HIDE DEF A, B
<1>3. NameOf(l) \in AnyName
  <2>1. parsed.links[l].model \in Texts
    BY WrittenName
  <2> HIDE DEF Texts
  <2>2. parsed.links[l].model \o <<A(l), B(l)>> \in Clones
    <3>1. <<A(l), B(l)>> \in Int \X Int
      BY <1>2
    <3> HIDE DEF A, B
    <3>2. ASSUME NEW id \in Texts, NEW parts \in Int \X Int
          PROVE  id \o parts \in Clones
      <4>1. id \o parts \in {id \o p : p \in Int \X Int}
        OBVIOUS
      <4>2. {id \o p : p \in Int \X Int} \in {{i \o p : p \in Int \X Int} : i \in Texts}
        BY Zenon
      <4> QED
        BY <4>1, <4>2, Zenon DEF Clones
    <3> QED
      BY <2>1, <3>1, <3>2
  <2> QED
    BY <1>1, <2>2 DEF AnyName
<1>4. \A k \in DOMAIN parsed.links :
        Len(NameOf(k)) = 3 /\ <<NameOf(k)[1]>> = parsed.links[k].model
  <2> TAKE k \in DOMAIN parsed.links
  <2>1. PICK w : parsed.links[k].model = <<w>>
    BY WrittenName
  <2>2. NameOf(k) = <<w>> \o <<A(k), B(k)>>
    BY <1>1, <2>1
  <2> QED
    BY <2>1, <2>2, CloneName
<1>5. \A w : Len(<<w>>) = 1
  OBVIOUS
<1>6. \A w : NameOf(l) # <<w>>
  BY <1>4, <1>5
<1>7. NameOf(l) \notin Texts /\ NameOf(l) \notin Headings
  BY <1>6, Zenon DEF Texts, Headings, NoName
<1> QED
  BY <1>3, <1>4, <1>7

\* The link that the fold is at, as it was written.
LEMMA NextToFold ==
  ASSUME LoadInv, Folding
  PROVE  LET l == folded + 1
         IN  /\ l \in DOMAIN parsed.links /\ l \in DOMAIN config.links
             /\ FoldedLink.model = parsed.links[l].model
             /\ FoldedTotal = Due(l) /\ EffectiveId(config, FoldedLink) = NameOf(l)
             /\ CacheKey = <<Due(l), parsed.links[l].model>>
             /\ FoldedLink.model \in DOMAIN config.models <=> l \in Named
<1> DEFINE l == folded + 1
<1>1. ConfigInv /\ FoldInv /\ AtEnd
  BY DEF LoadInv, Folding, AtEnd
<1>2. LinksKept /\ ModelsKept /\ ClonesMade
  BY <1>1 DEF FoldInv
<1>3. l \in DOMAIN parsed.links /\ l \in DOMAIN config.links /\ l > folded
  <2> HIDE DEF LinkTo
  <2>1. folded \in Nat /\ folded < Len(config.links) /\ config.links \in Seq(LinkTo(AnyName))
        /\ parsed.links \in Seq(LinkTo(Texts)) /\ Len(parsed.links) = Len(config.links)
    BY <1>1, <1>2 DEF ConfigInv, Folding, LinksKept
  <2> QED
    BY <2>1
<1> HIDE DEF l
<1>4. /\ config.links[l].from = parsed.links[l].from
      /\ config.links[l].propagation_delay_samples = parsed.links[l].propagation_delay_samples
      /\ config.links[l].model = parsed.links[l].model
  BY <1>2, <1>3 DEF LinksKept
<1>5. FoldedLink = config.links[l]
  BY DEF FoldedLink, l
<1>6. TxOffset(config, FoldedLink) = TxOffset(parsed, parsed.links[l])
  <2>1. parsed.devices = config.devices
    BY <1>2 DEF LinksKept
  <2>2. FindDevice(config, FoldedLink.from) = FindDevice(parsed, parsed.links[l].from)
    BY <1>4, <1>5, <2>1 DEF FindDevice
  <2> QED
    BY <2>1, <2>2 DEF TxOffset
<1>7. FoldedTotal = Due(l) /\ EffectiveId(config, FoldedLink) = NameOf(l)
  BY <1>4, <1>5, <1>6 DEF FoldedTotal, TotalDelay, Due, EffectiveId, NameOf
<1>8. CacheKey = <<Due(l), parsed.links[l].model>>
  BY <1>4, <1>5, <1>7 DEF CacheKey
<1>9. ASSUME parsed.links[l].model \in DOMAIN config.models
      PROVE  parsed.links[l].model \in DOMAIN parsed.models
  <2>1. parsed.links[l].model \in Texts
    BY <1>1, <1>3, WrittenName
  <2>2. \A k \in Named : NameOf(k) \notin Texts
    BY <1>1, NameTells DEF Named
  <2> QED
    BY <1>2, <1>9, <2>1, <2>2 DEF ClonesMade
<1>10. FoldedLink.model \in DOMAIN config.models <=> l \in Named
  BY <1>2, <1>3, <1>4, <1>5, <1>9 DEF ModelsKept, Named
<1> QED
  BY <1>3, <1>4, <1>5, <1>7, <1>8, <1>10 DEF l

\* The next link gets a name; nothing else of the links changes.
LinkNamed(name) ==
  /\ DOMAIN config' = DOMAIN config
  /\ UNCHANGED <<config.runtime, config.devices>>
  /\ config'.links \in Seq(LinkTo(AnyName)) /\ Len(config'.links) = Len(config.links)
  /\ \A k \in DOMAIN config.links :
       /\ config'.links[k].from = config.links[k].from
       /\ config'.links[k].to = config.links[k].to
       /\ config'.links[k].propagation_delay_samples =
            config.links[k].propagation_delay_samples
       /\ config'.links[k].model = IF k = folded + 1 THEN name ELSE config.links[k].model

Renamed(models, name) ==
  [config EXCEPT !.models = models, !.links[folded + 1].model = name]

LEMMA LinkIsNamed ==
  ASSUME ConfigInv, folded + 1 \in DOMAIN config.links, NEW name \in AnyName, NEW models,
         config' = Renamed(models, name)
  PROVE  LinkNamed(name) /\ config'.models = models
<1> DEFINE l == folded + 1
           link == [config.links[l] EXCEPT !.model = name]
           links == [config.links EXCEPT ![l] = link]
<1>1. config.links \in Seq(LinkTo(AnyName))
      /\ DOMAIN config = {"runtime", "devices", "links", "models"}
  BY DEF ConfigInv
<1> HIDE DEF l
<1>2. config' = [config EXCEPT !.models = models, !.links = links]
  BY <1>1 DEF Renamed, l
<1>3. config.links[l] \in LinkTo(AnyName) /\ l \in DOMAIN config.links
  <2> HIDE DEF LinkTo
  <2> QED
    BY <1>1 DEF l
<1>4. /\ link \in LinkTo(AnyName) /\ link.model = name
      /\ link.from = config.links[l].from /\ link.to = config.links[l].to
      /\ link.propagation_delay_samples = config.links[l].propagation_delay_samples
  BY <1>3 DEF LinkTo
<1> HIDE DEF link, LinkTo
<1>5. links \in Seq(LinkTo(AnyName)) /\ Len(links) = Len(config.links)
      /\ \A k \in DOMAIN config.links :
           links[k] = IF k = l THEN link ELSE config.links[k]
  BY <1>1, <1>3, <1>4
<1> HIDE DEF links
<1>6. /\ config'.models = models /\ config'.links = links
      /\ DOMAIN config' = DOMAIN config
      /\ UNCHANGED <<config.runtime, config.devices>>
  BY <1>1, <1>2
<1>7. ASSUME NEW k \in DOMAIN config.links
      PROVE  /\ links[k].from = config.links[k].from
             /\ links[k].to = config.links[k].to
             /\ links[k].propagation_delay_samples =
                  config.links[k].propagation_delay_samples
             /\ links[k].model = IF k = l THEN name ELSE config.links[k].model
  <2>1. CASE k = l
    <3>1. links[k] = link
      BY <1>5, <2>1
    <3> QED
      BY <1>4, <2>1, <3>1
  <2>2. CASE k # l
    <3>1. links[k] = config.links[k]
      BY <1>5, <2>2
    <3> QED
      BY <2>2, <3>1
  <2> QED
    BY <2>1, <2>2
<1> QED
  BY <1>5, <1>6, <1>7 DEF LinkNamed, l

\* What every step of the fold has to show.
LEMMA FoldStepKeepsInv ==
  ASSUME LoadInv, Folding, NextLink,
         NEW name, LinkNamed(name),
         \A m \in DOMAIN config.models :
           m \in DOMAIN config'.models /\ config'.models[m] = config.models[m],
         \A m \in DOMAIN config'.models \ DOMAIN config.models :
           /\ config'.models[m] \in ModelRec
           /\ \E k \in Named :
                m = NameOf(k) /\ config'.models[m].chain = Delayed(Asked(k), Due(k)),
         \A key \in DOMAIN synthesized' : \E k \in Named :
           /\ key = <<Due(k), parsed.links[k].model>>
           /\ synthesized'[key] = NameOf(k) /\ NameOf(k) \in DOMAIN config'.models,
         LET l == folded + 1
         IN  IF Due(l) # 0 /\ l \in Named
             THEN \E k \in Named :
                    /\ Due(k) = Due(l) /\ parsed.links[k].model = parsed.links[l].model
                    /\ name = NameOf(k) /\ NameOf(k) \in DOMAIN config'.models
             ELSE name = parsed.links[l].model
  PROVE  LoadInv'
<1>1. /\ FileInv /\ ConfigInv /\ PointersInv /\ FoldInv
      /\ LinksKept /\ ModelsKept /\ ClonesMade /\ CacheTold /\ LinksFolded
  BY DEF LoadInv, FoldInv, Folding, AtEnd
<1>2. /\ UNCHANGED <<file, at, section, current, phase, parsed>> /\ folded' = folded + 1
      /\ phase = "folding"
  BY DEF NextLink, readerVars, Folding
<1>3. UNCHANGED <<Texts, Headings>> /\ UNCHANGED <<AnyName, Device>>
      /\ LinkTo(AnyName)' = LinkTo(AnyName) /\ LinkTo(Texts)' = LinkTo(Texts)
  BY <1>2, SameTypes
<1>4. /\ Named' = Named /\ \A l : Due(l)' = Due(l) /\ Asked(l)' = Asked(l)
      /\ \A l : NameOf(l)' = NameOf(l)
  BY <1>2 DEF Named, Due, Asked, NameOf
<1>5. FileInv'
  BY <1>1, <1>2 DEF FileInv
<1> HIDE DEF Runtime, Device, LinkTo, ModelRec, Texts, Headings, AnyName
<1>6. ConfigInv'
  <2>1. /\ DOMAIN config' = {"runtime", "devices", "links", "models"}
        /\ config'.runtime \in Runtime /\ config'.devices \in Seq(Device)
        /\ config'.links \in Seq(LinkTo(AnyName))
    BY <1>1 DEF ConfigInv, LinkNamed
  <2>2. \A m \in DOMAIN config'.models : config'.models[m] \in ModelRec
    BY <1>1 DEF ConfigInv
  <2>3. folded' \in 0..Len(config'.links)
    BY <1>1, <1>2 DEF ConfigInv, LinkNamed, Folding
  <2> QED
    BY <1>1, <1>2, <1>3, <2>1, <2>2, <2>3 DEF ConfigInv
<1>7. PointersInv'
  <2>1. /\ config'.devices = config.devices /\ Len(config'.links) = Len(config.links)
    BY DEF LinkNamed
  <2>2. CASE current.model = NoName
    BY <1>1, <1>2, <2>1, <2>2 DEF PointersInv
  <2>3. CASE current.model # NoName
    <3>1. current.model \in DOMAIN config.models
      BY <1>1, <2>3 DEF PointersInv
    <3>2. Chain' = Chain /\ Step' = Step
      BY <1>2, <3>1 DEF Chain, Step
    <3> QED
      BY <1>1, <1>2, <2>1, <3>1, <3>2 DEF PointersInv
  <2> QED
    BY <2>2, <2>3
<1>8. DOMAIN parsed.links = DOMAIN config.links /\ DOMAIN config.links \subseteq Nat
      /\ folded \in Nat
  BY <1>1 DEF LinksKept, ConfigInv
<1>9. LinksKept'
  <2>1. parsed.devices = config'.devices /\ Len(parsed.links) = Len(config'.links)
        /\ parsed.links \in Seq(LinkTo(Texts))
    BY <1>1 DEF LinksKept, LinkNamed
  <2>2. ASSUME NEW l \in DOMAIN parsed.links
        PROVE  /\ config'.links[l].from = parsed.links[l].from
               /\ config'.links[l].to = parsed.links[l].to
               /\ config'.links[l].propagation_delay_samples =
                    parsed.links[l].propagation_delay_samples
               /\ l > folded + 1 => config'.links[l].model = parsed.links[l].model
    BY <1>1, <1>8 DEF LinksKept, LinkNamed
  <2> QED
    BY <1>2, <1>3, <2>1, <2>2 DEF LinksKept
<1>10. ModelsKept'
  BY <1>1, <1>2 DEF ModelsKept
<1>11. ClonesMade'
  <2>1. ASSUME NEW m \in DOMAIN config'.models \ DOMAIN parsed.models
        PROVE  \E k \in Named :
                 m = NameOf(k) /\ config'.models[m].chain = Delayed(Asked(k), Due(k))
    <3>1. CASE m \in DOMAIN config.models
      BY <1>1, <3>1 DEF ClonesMade
    <3> QED
      BY <3>1
  <2> QED
    BY <1>2, <1>4, <2>1 DEF ClonesMade
<1>12. CacheTold'
  BY <1>2, <1>4 DEF CacheTold
<1>13. LinksFolded'
  <2>1. ASSUME NEW l \in DOMAIN parsed.links, l <= folded + 1
        PROVE  IF Due(l) # 0 /\ l \in Named THEN Shifted(l)'
               ELSE config'.links[l].model = parsed.links[l].model
    <3>1. CASE l = folded + 1
      <4>1. config'.links[l].model = name
        BY <1>8, <3>1 DEF LinkNamed
      <4> QED
        BY <1>2, <1>4, <3>1, <4>1 DEF Shifted
    <3>2. CASE l # folded + 1
      <4>1. l <= folded
        BY <1>8, <2>1, <3>2
      <4>2. config'.links[l].model = config.links[l].model
        BY <1>8, <3>2 DEF LinkNamed
      <4>3. IF Due(l) # 0 /\ l \in Named THEN Shifted(l)
            ELSE config.links[l].model = parsed.links[l].model
        BY <1>1, <4>1 DEF LinksFolded
      <4> QED
        BY <1>2, <1>4, <4>2, <4>3 DEF Shifted
    <3> QED
      BY <3>1, <3>2
  <2> QED
    BY <1>2, <1>4, <2>1 DEF LinksFolded
<1>14. FoldInv'
  BY <1>2, <1>9, <1>10, <1>11, <1>12, <1>13 DEF FoldInv
<1>15. ReadingInv' /\ ValidInv'
  BY <1>2 DEF ReadingInv, ValidInv
<1> QED
  BY <1>5, <1>6, <1>7, <1>14, <1>15 DEF LoadInv

\* The fold only adds clones and names links after them; the steps after it
\* leave everything as it is.
LEMMA FoldKeepsInv ==
  ASSUME LoadInv, FoldNothing \/ FoldCached \/ FoldClone
  PROVE  LoadInv'
<1> DEFINE l == folded + 1
<1>1. Folding /\ NextLink
  BY DEF FoldNothing, FoldCached, FoldClone
<1>2. /\ l \in DOMAIN parsed.links /\ l \in DOMAIN config.links
      /\ FoldedLink.model = parsed.links[l].model
      /\ FoldedTotal = Due(l) /\ EffectiveId(config, FoldedLink) = NameOf(l)
      /\ CacheKey = <<Due(l), parsed.links[l].model>>
      /\ FoldedLink.model \in DOMAIN config.models <=> l \in Named
  BY <1>1, NextToFold
<1>3. ConfigInv /\ FoldInv /\ AtEnd /\ CacheTold
  BY <1>1 DEF LoadInv, FoldInv, Folding, AtEnd
<1> HIDE DEF l
<1>4. CASE FoldNothing
  <2>1. config' = config /\ synthesized' = synthesized
    BY <1>4 DEF FoldNothing
  <2>2. config.links[l].model = parsed.links[l].model
    BY <1>2 DEF FoldedLink, l
  <2>3. LinkNamed(parsed.links[l].model)
    BY <1>3, <2>1, <2>2 DEF LinkNamed, ConfigInv, l
  <2>4. Due(l) = 0 \/ l \notin Named
    BY <1>2, <1>4 DEF FoldNothing
  <2> QED
    BY <1>1, <1>3, <2>1, <2>3, <2>4, FoldStepKeepsInv DEF CacheTold, l
<1>5. CASE FoldCached
  <2> DEFINE name == synthesized[CacheKey]
  <2>1. FoldedTotal # 0 /\ CacheKey \in DOMAIN synthesized /\ synthesized' = synthesized
        /\ config' = [config EXCEPT !.links[folded + 1].model = name]
    BY <1>5 DEF FoldCached
  <2>2. PICK k \in Named : /\ CacheKey = <<Due(k), parsed.links[k].model>>
                           /\ name = NameOf(k) /\ NameOf(k) \in DOMAIN config.models
    BY <1>3, <2>1 DEF CacheTold
  <2>3. Due(k) = Due(l) /\ parsed.links[k].model = parsed.links[l].model
    BY <1>2, <2>2
  <2>4. name \in AnyName
    BY <1>3, <2>2, NameTells DEF Named
  <2> HIDE DEF name
  <2>5. config' = Renamed(config.models, name)
    BY <1>3, <2>1 DEF ConfigInv, Renamed
  <2>6. LinkNamed(name) /\ config'.models = config.models
    <3>1. folded + 1 \in DOMAIN config.links
      BY <1>2 DEF l
    <3> QED
      BY <1>3, <2>4, <2>5, <3>1, LinkIsNamed
  <2>7. l \in Named
    BY <1>2, <2>2, <2>3 DEF Named
  <2> QED
    BY <1>1, <1>2, <1>3, <2>1, <2>2, <2>3, <2>6, <2>7, FoldStepKeepsInv DEF CacheTold, l
<1>6. CASE FoldClone
  <2> DEFINE id == NameOf(l)
             chain == Delayed(config.models[FoldedLink.model].chain, FoldedTotal)
             models == Emplaced(config.models, id, [chain |-> chain])
  <2>1. /\ FoldedTotal # 0 /\ CacheKey \notin DOMAIN synthesized
        /\ FoldedLink.model \in DOMAIN config.models
        /\ config' = Renamed(models, id)
        /\ synthesized' = Assigned(synthesized, CacheKey, id)
    BY <1>2, <1>6 DEF FoldClone, Renamed
  <2>2. l \in Named
    BY <1>2, <2>1
  <2>3. chain = Delayed(Asked(l), Due(l))
    BY <1>2, <1>3, <2>1, <2>2 DEF Asked, Named, FoldInv, ModelsKept
  <2>4. chain \in Seq(StepRec)
    <3>1. config.models[FoldedLink.model].chain \in Seq(StepRec)
      BY <1>3, <2>1 DEF ConfigInv, ModelRec
    <3>2. FoldedTotal \in Int
      BY <1>2, <1>3, DelaysAreInt
    <3> HIDE DEF StepRec
    <3> QED
      BY <3>1, <3>2, DelayedTyped
  <2>5. id \in AnyName
    BY <1>2, <1>3, NameTells
  <2> HIDE DEF id, chain, StepRec
  <2>6. [chain |-> chain] \in ModelRec
    BY <2>4 DEF ModelRec
  <2>7. /\ DOMAIN models = DOMAIN config.models \cup {id}
        /\ \A m \in DOMAIN config.models : models[m] = config.models[m]
        /\ \A m \in DOMAIN models \ DOMAIN config.models :
             m = id /\ models[m] = [chain |-> chain]
    BY DEF Emplaced, Assigned
  <2> HIDE DEF models
  <2>8. LinkNamed(id) /\ config'.models = models
    <3>1. folded + 1 \in DOMAIN config.links
      BY <1>2 DEF l
    <3> QED
      BY <1>3, <2>1, <2>5, <3>1, LinkIsNamed
  <2>9. ASSUME NEW m \in DOMAIN models \ DOMAIN config.models
        PROVE  /\ models[m] \in ModelRec
               /\ \E k \in Named : m = NameOf(k) /\ models[m].chain = Delayed(Asked(k), Due(k))
    <3>1. models[m].chain = chain /\ m = NameOf(l) /\ models[m] \in ModelRec
      BY <2>6, <2>7 DEF id
    <3> QED
      BY <2>2, <2>3, <3>1
  <2>12. /\ DOMAIN synthesized' = DOMAIN synthesized \cup {CacheKey}
         /\ synthesized'[CacheKey] = id
         /\ \A key \in DOMAIN synthesized : synthesized'[key] = synthesized[key]
    BY <2>1 DEF Assigned
  <2>10. ASSUME NEW key \in DOMAIN synthesized'
         PROVE  \E k \in Named :
                  /\ key = <<Due(k), parsed.links[k].model>>
                  /\ synthesized'[key] = NameOf(k) /\ NameOf(k) \in DOMAIN models
    <3>1. CASE key = CacheKey
      <4>1. synthesized'[key] = id
        BY <2>12, <3>1
      <4> QED
        BY <1>2, <2>2, <2>7, <3>1, <4>1 DEF id
    <3>2. CASE key # CacheKey
      <4>1. key \in DOMAIN synthesized /\ synthesized'[key] = synthesized[key]
        BY <2>12, <3>2
      <4> QED
        BY <1>3, <2>7, <4>1 DEF CacheTold
    <3> QED
      BY <3>1, <3>2
  <2>11. id = NameOf(l) /\ NameOf(l) \in DOMAIN models /\ Due(l) # 0
    BY <1>2, <2>1, <2>7 DEF id
  <2> QED
    BY <1>1, <2>2, <2>7, <2>8, <2>9, <2>10, <2>11, FoldStepKeepsInv DEF l
<1> QED
  BY <1>4, <1>5, <1>6

LEMMA LaterStepsKeepInv ==
  ASSUME LoadInv, FoldsDone \/ ValidateConfig \/ CreateProcessor \/ UNCHANGED vars
  PROVE  LoadInv'
<1>1. UNCHANGED <<file, at, section, current, config, parsed, folded, synthesized>>
  BY DEF FoldsDone, ValidateConfig, CreateProcessor, Judge, vars, readerVars
<1>2. /\ phase' = phase
         \/ /\ phase \in {"folding", "validating", "loaded"}
            /\ phase' \in {"validating", "loaded", "ready", "rejected"}
            /\ phase = "folding" => folded = Len(config.links)
  BY DEF FoldsDone, ValidateConfig, CreateProcessor, Judge, vars
<1>3. UNCHANGED <<Texts, Headings>> /\ UNCHANGED <<AnyName, Device>>
      /\ LinkTo(AnyName)' = LinkTo(AnyName) /\ LinkTo(Texts)' = LinkTo(Texts)
  BY <1>1, SameTypes
<1>4. FileInv'
  BY <1>1, <1>2 DEF LoadInv, FileInv
<1> HIDE DEF Runtime, Device, LinkTo, ModelRec, Texts, Headings, AnyName
<1>5. ConfigInv'
  BY <1>1, <1>3 DEF LoadInv, ConfigInv
<1>6. PointersInv'
  <2>1. Chain' = Chain /\ Step' = Step
    BY <1>1 DEF Chain, Step
  <2> QED
    BY <1>1, <2>1 DEF LoadInv, PointersInv
<1>7. ReadingInv'
  BY <1>1, <1>2, <1>3 DEF LoadInv, ReadingInv
<1>8. FoldInv'
  <2>1. /\ Named' = Named /\ \A l : Due(l)' = Due(l) /\ Asked(l)' = Asked(l)
        /\ \A l : NameOf(l)' = NameOf(l)
    BY <1>1 DEF Named, Due, Asked, NameOf
  <2>2. /\ LinksKept' = LinksKept /\ ModelsKept' = ModelsKept /\ ClonesMade' = ClonesMade
        /\ CacheTold' = CacheTold /\ LinksFolded' = LinksFolded
    <3>1. LinksKept' = LinksKept /\ ModelsKept' = ModelsKept
      BY <1>1, <1>3 DEF LinksKept, ModelsKept
    <3>2. ClonesMade' = ClonesMade /\ CacheTold' = CacheTold
      BY <1>1, <2>1 DEF ClonesMade, CacheTold
    <3>3. LinksFolded' = LinksFolded
      BY <1>1, <2>1 DEF LinksFolded, Shifted
    <3> QED
      BY <3>1, <3>2, <3>3
  <2> QED
    BY <1>1, <1>2, <2>2 DEF LoadInv, FoldInv, AtEnd
<1>9. ValidInv'
  <2>1. CASE ValidateConfig
    BY <1>1, <2>1 DEF ValidateConfig, Judge, ValidInv
  <2>2. CASE CreateProcessor
    BY <1>1, <2>2 DEF CreateProcessor, Judge, ValidInv, LoadInv
  <2>3. CASE FoldsDone \/ UNCHANGED vars
    BY <1>1, <2>3 DEF FoldsDone, vars, ValidInv, LoadInv
  <2> QED
    BY <2>1, <2>2, <2>3
<1> QED
  BY <1>4, <1>5, <1>6, <1>7, <1>8, <1>9 DEF LoadInv

\* Whatever the file, the invariant holds: of the reader's pointers, of the fold,
\* and of what is loaded, which has passed validation as it stands after the fold.
THEOREM LoadInvariant == Spec => []LoadInv
<1>1. LoadInv /\ [Next]_vars => LoadInv'
  <2> SUFFICES ASSUME LoadInv, [Next]_vars PROVE LoadInv'
    OBVIOUS
  <2>1. CASE ReadLine /\ UNCHANGED <<folded, synthesized>>
    BY <2>1, ReaderKeepsInv
  <2>2. CASE FoldNothing \/ FoldCached \/ FoldClone
    BY <2>2, FoldKeepsInv
  <2>3. CASE FoldsDone \/ ValidateConfig \/ CreateProcessor \/ UNCHANGED vars
    BY <2>3, LaterStepsKeepInv
  <2> QED
    BY <2>1, <2>2, <2>3 DEF Next
<1> QED
  BY InitHolds, <1>1, PTL DEF Spec

\* Type correctness: whatever the file and wherever it is damaged, no pointer of
\* load_config_file is left on a block that is gone, in any state of a load.
THEOREM ConfigTypes == Spec => []TypeOK
<1>1. LoadInv => TypeOK
  <2> SUFFICES ASSUME LoadInv PROVE TypeOK
    OBVIOUS
  <2>1. FileInv /\ ConfigInv /\ PointersInv
    BY DEF LoadInv
  <2>2. ASSUME NEW i \in DOMAIN config.devices
        PROVE  /\ {config.devices[i].id, config.devices[i].rx_model} \subseteq Texts
               /\ config.devices[i].sample_rate_hz \in Nat
               /\ config.devices[i].tx_timing_offset_samples \in Int
    <3>1. config.devices[i] \in Device
      <4> HIDE DEF Device
      <4> QED
        BY <2>1 DEF ConfigInv
    <3> QED
      BY <3>1 DEF Device
  <2>3. ASSUME NEW l \in DOMAIN config.links
        PROVE  /\ {config.links[l].from, config.links[l].to} \subseteq Texts
               /\ config.links[l].propagation_delay_samples \in Int
    <3>1. config.links[l] \in LinkTo(AnyName)
      <4> HIDE DEF LinkTo
      <4> QED
        BY <2>1 DEF ConfigInv
    <3> QED
      BY <3>1 DEF LinkTo
  <2>4. current.step \in 0..(IF current.model = NoName THEN 0 ELSE Len(Chain))
    BY <2>1 DEF PointersInv
  <2>5. current.tap \in 0..(IF current.step = 0 THEN 0 ELSE Len(Step.taps))
    BY <2>1 DEF PointersInv
  <2>6. /\ at \in 0..Len(file)
        /\ phase \in {"reading", "folding", "validating", "loaded", "ready", "rejected"}
        /\ section \in Sections \cup {"none"}
    BY <2>1 DEF FileInv
  <2>7. /\ current.device \in 0..Len(config.devices)
        /\ current.link \in 0..Len(config.links)
        /\ current.model \in {NoName} \cup DOMAIN config.models
        /\ ~(current.in_taps /\ current.in_fading)
    BY <2>1 DEF PointersInv
  <2>8. DOMAIN parsed.models \subseteq Headings /\ folded \in 0..Len(config.links)
    BY <2>1 DEF ConfigInv
  <2> QED
    BY <2>2, <2>3, <2>4, <2>5, <2>6, <2>7, <2>8, Zenon DEF TypeOK
<1> QED
  BY LoadInvariant, <1>1, PTL

(***************************************************************************)
(* The nesting: a well-formed file is read to its end.  The reader knows   *)
(* each line that the next one may be nested in: its pointers are on the   *)
(* blocks that those lines opened.                                         *)
(***************************************************************************)

\* The numbers at which something holds, up to a bound, are all of them.
LEMMA UpTo ==
  ASSUME NEW N \in Nat, NEW Holds, 0 \in Holds,
         \A n \in 0..(N - 1) : n \in Holds => n + 1 \in Holds
  PROVE  0..N \subseteq Holds
<1> DEFINE Fails == {n \in 0..N : n \notin Holds}
<1> SUFFICES ASSUME Fails # {} PROVE FALSE
  OBVIOUS
<1>1. Fails \in SUBSET Nat
  OBVIOUS
<1>2. PICK m \in Fails : \A n \in Fails : m <= n
  BY <1>1, MinIsLeast
<1>3. m # 0 /\ m - 1 \in 0..(N - 1) /\ m - 1 \notin Fails
  BY <1>2
<1>4. m - 1 \in Holds /\ (m - 1) + 1 = m
  BY <1>3
<1> QED
  BY <1>3, <1>4

\* So has a nonempty set of indices up to a bound a greatest one.
LEMMA MaxIsIn ==
  ASSUME NEW n \in Nat, NEW S \in SUBSET (0..n), S # {}
  PROVE  Max(S) \in S /\ \A y \in S : y <= Max(S)
<1> DEFINE Gaps == {n - x : x \in S}
<1>1. Gaps \in SUBSET Nat /\ Gaps # {}
  <2>1. ASSUME NEW x \in S PROVE n - x \in Nat
    <3>1. x \in 0..n
      OBVIOUS
    <3> QED BY <3>1
  <2>2. PICK x \in S : TRUE
    OBVIOUS
  <2> QED BY <2>1, <2>2
<1>2. PICK g \in Gaps : \A h \in Gaps : g <= h
  BY <1>1, MinIsLeast
<1>3. PICK x \in S : g = n - x
  BY <1>2
<1>4. ASSUME NEW y \in S PROVE x >= y
  <2>1. n - y \in Gaps
    OBVIOUS
  <2>2. n - x <= n - y
    BY <1>2, <1>3, <2>1
  <2> QED BY <2>2
<1>5. \E z \in S : \A y \in S : z >= y
  BY <1>4
<1>6. Max(S) \in S /\ \A y \in S : Max(S) >= y
  BY <1>5 DEF Max
<1> QED BY <1>6

\* The parent of a line is the last one before it that is indented less.
LEMMA ParentIsBefore ==
  ASSUME FileInv, NEW i \in Lines
  PROVE  /\ i \in Nat /\ Parent(i) \in 0..(i - 1)
         /\ Parent(i) # 0 => file[Parent(i)].indent < file[i].indent
         /\ \A j \in (Parent(i) + 1)..(i - 1) : ~(file[j].indent < file[i].indent)
<1> DEFINE S == {0} \cup {j \in 1..(i - 1) : file[j].indent < file[i].indent}
<1>1. i \in Nat /\ i - 1 \in Nat
  BY FilesAssumption DEF FileInv, Lines
<1>2. S \in SUBSET (0..(i - 1)) /\ S # {}
  BY <1>1
<1>3. Parent(i) = Max(S)
  BY DEF Parent
<1>4. Max(S) \in S /\ \A y \in S : y <= Max(S)
  BY <1>1, <1>2, MaxIsIn
<1>5. Parent(i) \in 0..(i - 1) /\ (Parent(i) # 0 => file[Parent(i)].indent < file[i].indent)
  BY <1>1, <1>3, <1>4
<1>6. ASSUME NEW j \in (Parent(i) + 1)..(i - 1), file[j].indent < file[i].indent PROVE FALSE
  <2>1. j \in S /\ j > Parent(i)
    BY <1>1, <1>5, <1>6
  <2> QED BY <1>1, <1>3, <1>4, <1>5, <2>1
<1> QED BY <1>1, <1>5, <1>6

\* The recursion along the parents is well founded.
LEMMA RoleByParent ==
  ASSUME FileInv
  PROVE  Role[0] = "none" /\ \A i \in Lines : Role[i] = RoleIn(i, Role[Parent(i)])
<1> DEFINE N == Len(file)
           Body(f, i) == IF i = 0 THEN "none" ELSE RoleIn(i, f[Parent(i)])
           Tells(f, n) == f = [i \in 0..n |-> f[i]] /\ \A i \in 0..n : f[i] = Body(f, i)
           Holds == {n \in 0..N : \E f : Tells(f, n)}
<1>1. N \in Nat /\ Lines = 1..N
  BY FilesAssumption DEF FileInv, Lines
<1>2. 0 \in Holds
  <2>1. PICK f : f = [i \in 0..0 |-> "none"]
    OBVIOUS
  <2>2. f = [i \in 0..0 |-> f[i]]
    BY <2>1
  <2>3. \A i \in 0..0 : i = 0 /\ f[i] = "none"
    BY <2>1
  <2>4. Tells(f, 0)
    BY <2>2, <2>3
  <2> QED BY <1>1, <2>4
<1>3. ASSUME NEW n \in 0..(N - 1), n \in Holds PROVE n + 1 \in Holds
  <2>1. PICK f : Tells(f, n)
    BY <1>3
  <2>2. n + 1 \in Lines /\ n \in Nat
    BY <1>1
  <2> DEFINE new == RoleIn(n + 1, f[Parent(n + 1)])
             g == [i \in 0..(n + 1) |-> IF i <= n THEN f[i] ELSE new]
  <2>3. ASSUME NEW i \in 0..(n + 1) PROVE g[i] = Body(g, i)
    <3>1. CASE i = 0
      BY <2>1, <2>2, <3>1
    <3>2. CASE i \in 1..n
      <4>1. i \in Lines
        BY <1>1, <3>2
      <4>2. Parent(i) \in 0..(i - 1)
        BY <4>1, ParentIsBefore
      <4>3. Parent(i) \in 0..n /\ i \in 0..n /\ i # 0
        BY <2>2, <3>2, <4>2
      <4>4. g[i] = f[i] /\ g[Parent(i)] = f[Parent(i)]
        BY <2>2, <4>3
      <4> QED BY <2>1, <4>3, <4>4
    <3>3. CASE i = n + 1
      <4>1. Parent(n + 1) \in 0..((n + 1) - 1)
        BY <2>2, ParentIsBefore
      <4>2. Parent(n + 1) \in 0..(n + 1) /\ Parent(n + 1) <= n
        BY <2>2, <4>1
      <4>3. g[Parent(n + 1)] = f[Parent(n + 1)]
        BY <4>2
      <4> HIDE DEF new
      <4>4. g[n + 1] = new
        BY <2>2
      <4> QED BY <2>2, <3>3, <4>3, <4>4 DEF new
    <3> QED BY <2>2, <3>1, <3>2, <3>3
  <2>4. g = [i \in 0..(n + 1) |-> g[i]]
    OBVIOUS
  <2> HIDE DEF g
  <2>5. Tells(g, n + 1) /\ n + 1 \in 0..N
    BY <1>1, <2>2, <2>3, <2>4
  <2> QED BY <2>5
<1> HIDE DEF Holds
<1>4. N \in Holds
  <2>1. 0..N \subseteq Holds
    BY <1>1, <1>2, <1>3, UpTo
  <2> QED BY <1>1, <2>1
<1>5. PICK f : Tells(f, N)
  BY <1>4 DEF Holds
<1> DEFINE IsRole(r) ==
             r = [i \in 0..Len(file) |-> IF i = 0 THEN "none" ELSE RoleIn(i, r[Parent(i)])]
<1>6. IsRole(f)
  BY <1>5
<1>7. IsRole(Role)
  BY <1>6 DEF Role
<1>8. \A i \in 0..N : Role[i] = IF i = 0 THEN "none" ELSE RoleIn(i, Role[Parent(i)])
  BY <1>7
<1> QED BY <1>1, <1>8

SectionOf(role) ==
  CASE role \in {"runtime", "runtime key"}           -> "runtime"
    [] role \in {"devices", "device", "device key"}  -> "devices"
    [] role \in {"links", "link", "link key"}        -> "links"
    [] OTHER                                         -> "models"

\* No line since line p is indented as little: the next line may be nested in p.
Open(p) == \A j \in (p + 1)..at : file[j].indent > file[p].indent

NoneNested(p) ==
  \A j \in (p + 1)..at : file[j].indent <= 8 =>
    ~Heading(file[j], "taps") /\ ~Heading(file[j], "fading")

\* What the reader knows of an open line.
Known(p) ==
  /\ section = SectionOf(Role[p])
  /\ Role[p] = "device" => current.device # 0
  /\ Role[p] = "link" => current.link # 0
  /\ Role[p] \in {"model", "chain"} => current.model # NoName
  /\ Role[p] \in {"step", "taps", "fading", "tap"} => current.step # 0
  /\ Role[p] = "step" /\ NoneNested(p) => ~current.in_taps /\ ~current.in_fading
  /\ Role[p] \in {"taps", "tap"} => current.in_taps
  /\ Role[p] = "tap" => current.tap # 0
  /\ Role[p] = "fading" => current.in_fading

\* While a well-formed file is read, each open line is known to the pointers.
NestInv ==
  /\ phase \notin {"reading", "rejected"} => at = Len(file)
  /\ WellFormed /\ phase = "reading" => \A p \in 1..at : Open(p) => Known(p)
  /\ WellFormedIsRead

(***************************************************************************)
(* Where a line of each role is.                                           *)
(***************************************************************************)

Nests(l, within, role) ==
  \/ within = "none" /\ role = l.key /\ l.indent = 0 /\ \E s \in Sections : Heading(l, s)
  \/ within = "runtime" /\ role = "runtime key" /\ ~l.dash
  \/ within = "devices" /\ role = "device" /\ l.dash
  \/ within = "device" /\ role = "device key" /\ ~l.dash
  \/ within = "links" /\ role = "link" /\ l.dash
  \/ within = "link" /\ role = "link key" /\ ~l.dash
  \/ /\ within = "models" /\ role = "model" /\ l.indent = 2 /\ ~l.dash
     /\ l.value = Empty /\ l.key # ""
  \/ within = "model" /\ role = "chain" /\ l.indent = 4 /\ Heading(l, "chain")
  \/ within = "chain" /\ role = "step" /\ l.indent = 6 /\ l.dash
  \/ within = "step" /\ role = "taps" /\ l.indent = 8 /\ Heading(l, "taps")
  \/ within = "step" /\ role = "fading" /\ l.indent = 8 /\ Heading(l, "fading")
  \/ within = "step" /\ role = "step key" /\ l.indent = 8 /\ ~l.dash /\ l.value # Empty
  \/ within = "taps" /\ role = "tap" /\ l.indent = 10 /\ l.dash
  \/ within = "tap" /\ role = "tap key" /\ l.indent = 12 /\ ~l.dash /\ l.value # Empty
  \/ within = "fading" /\ role = "fading key" /\ l.indent = 10 /\ ~l.dash /\ l.value # Empty

LEMMA LineNests ==
  ASSUME NEW i, NEW within, RoleIn(i, within) # "misplaced"
  PROVE  /\ Nests(file[i], within, RoleIn(i, within))
         /\ RoleIn(i, within) = "step key" => NothingNested(i)
<1>1. CASE within = "none"
  BY <1>1 DEF RoleIn, Nests, Heading, Sections
<1>2. CASE within = "runtime"
  BY <1>2 DEF RoleIn, Nests, Heading, Sections
<1>3. CASE within = "devices"
  BY <1>3 DEF RoleIn, Nests, Heading, Sections
<1>4. CASE within = "device"
  BY <1>4 DEF RoleIn, Nests, Heading, Sections
<1>5. CASE within = "links"
  BY <1>5 DEF RoleIn, Nests, Heading, Sections
<1>6. CASE within = "link"
  BY <1>6 DEF RoleIn, Nests, Heading, Sections
<1>7. CASE within = "models"
  BY <1>7 DEF RoleIn, Nests, Heading, Sections
<1>8. CASE within = "model"
  BY <1>8 DEF RoleIn, Nests, Heading, Sections
<1>9. CASE within = "chain"
  BY <1>9 DEF RoleIn, Nests, Heading, Sections
<1>10. CASE within = "step"
  BY <1>10 DEF RoleIn, Nests, Heading, Sections
<1>11. CASE within = "taps"
  BY <1>11 DEF RoleIn, Nests, Heading, Sections
<1>12. CASE within = "tap"
  BY <1>12 DEF RoleIn, Nests, Heading, Sections
<1>13. CASE within = "fading"
  BY <1>13 DEF RoleIn, Nests, Heading, Sections
<1>14. within \in {"none", "runtime", "devices", "device", "links", "link", "models", "model",
                   "chain", "step", "taps", "tap", "fading"}
  BY DEF RoleIn
<1> QED BY <1>1, <1>2, <1>3, <1>4, <1>5, <1>6, <1>7, <1>8, <1>9, <1>10, <1>11, <1>12,
           <1>13, <1>14

ModelRoles == {"models", "model", "chain", "step", "taps", "fading", "step key", "tap",
               "tap key", "fading key"}

LineRoles ==
  {"runtime", "runtime key", "devices", "device", "device key", "links", "link", "link key"}
    \cup ModelRoles

\* The role of a line fits its section, and in the models its indent.
Sound(i) ==
  /\ Role[i] \in LineRoles
  /\ Role[i] = "models" => file[i].indent = 0
  /\ Role[i] = "model" => file[i].indent = 2
  /\ Role[i] = "chain" => file[i].indent = 4
  /\ Role[i] = "step" => file[i].indent = 6
  /\ Role[i] \in {"taps", "fading", "step key"} => file[i].indent = 8
  /\ Role[i] \in {"tap", "fading key"} => file[i].indent = 10
  /\ Role[i] = "tap key" => file[i].indent = 12

LEMMA NestsSoundly ==
  ASSUME NEW l, NEW within, NEW role, Nests(l, within, role)
  PROVE  /\ role \in LineRoles
         /\ role = "models" => l.indent = 0
         /\ role = "model" => l.indent = 2
         /\ role = "chain" => l.indent = 4
         /\ role = "step" => l.indent = 6
         /\ role \in {"taps", "fading", "step key"} => l.indent = 8
         /\ role \in {"tap", "fading key"} => l.indent = 10
         /\ role = "tap key" => l.indent = 12
         /\ within # "none" => SectionOf(role) = SectionOf(within) /\ role \notin Sections
BY DEF Nests, Sections, Heading, LineRoles, ModelRoles, SectionOf

LEMMA WellFormedLine ==
  ASSUME FileInv, WellFormed, NEW i \in Lines
  PROVE  /\ Nests(file[i], Role[Parent(i)], Role[i]) /\ Sound(i)
         /\ Role[i] = "step key" => NothingNested(i)
         /\ file[i].value # Flow
<1>1. Role[i] # "misplaced" /\ file[i].value # Flow
  BY DEF WellFormed
<1>2. Role[i] = RoleIn(i, Role[Parent(i)])
  BY RoleByParent
<1>3. Nests(file[i], Role[Parent(i)], Role[i]) /\ (Role[i] = "step key" => NothingNested(i))
  BY <1>1, <1>2, LineNests
<1>4. Sound(i)
  BY <1>3, NestsSoundly DEF Sound
<1> QED BY <1>1, <1>3, <1>4

(***************************************************************************)
(* The next line, and the open line it is nested in.                       *)
(***************************************************************************)

NextRole == Role[at + 1]

LEMMA NextLine ==
  ASSUME FileInv, NestInv, WellFormed, phase = "reading", at < Len(file)
  PROVE  \/ Nests(Line, "none", NextRole)
         \/ \E p \in 1..at :
              /\ Open(p) /\ Known(p) /\ file[p].indent < Line.indent
              /\ Role[p] # "none" /\ Nests(Line, Role[p], NextRole)
              /\ NextRole = "step key" => NoneNested(p)
<1> DEFINE i == at + 1
           p == Parent(i)
<1>1. i \in Lines /\ at \in Nat /\ i - 1 = at /\ Lines = 1..Len(file)
  BY FilesAssumption DEF FileInv, Lines
<1>2. /\ p \in 0..at /\ (p # 0 => file[p].indent < file[i].indent)
      /\ \A j \in (p + 1)..at : ~(file[j].indent < file[i].indent)
  BY <1>1, ParentIsBefore
<1>3. Nests(file[i], Role[p], Role[i]) /\ Sound(i) /\ (Role[i] = "step key" => NothingNested(i))
  BY <1>1, WellFormedLine
<1>4. CASE p = 0
  BY <1>3, <1>4, RoleByParent DEF Line, NextRole
<1>5. CASE p # 0
  <2>1. p \in 1..at /\ p \in Lines
    BY <1>1, <1>2, <1>5 DEF FileInv
  <2>2. \A j \in Lines : file[j].indent \in Nat
    BY FilesAssumption DEF FileInv, Lines
  <2>3. Open(p)
    <3>1. ASSUME NEW j \in (p + 1)..at PROVE file[j].indent > file[p].indent
      <4>1. j \in Lines
        BY <1>1, <2>1 DEF FileInv
      <4> QED BY <1>1, <1>2, <1>5, <2>1, <2>2, <4>1
    <3> QED BY <3>1 DEF Open
  <2>4. Known(p)
    BY <2>1, <2>3 DEF NestInv
  <2>5. Role[p] # "none"
    BY <2>1, WellFormedLine DEF Sound, LineRoles, ModelRoles
  <2>6. Role[i] = "step key" => NoneNested(p)
    BY <1>1, <1>3 DEF NothingNested, NoneNested, Sound
  <2> QED BY <1>2, <1>3, <1>5, <2>1, <2>3, <2>4, <2>5, <2>6 DEF Line, NextRole
<1> QED BY <1>4, <1>5

LEMMA KeysApply ==
  ASSUME WellFormed, NEW i \in Lines
  PROVE  /\ Role[i] = "runtime key" => Applies(RuntimeKeys, file[i].key, file[i].value)
         /\ Role[i] \in {"device", "device key"} =>
              Applies(DeviceKeys, file[i].key, file[i].value)
         /\ Role[i] \in {"link", "link key"} =>
              Applies(LinkKeys, file[i].key, file[i].value)
         /\ Role[i] \in {"tap", "tap key"} => Applies(TapKeys, file[i].key, file[i].value)
         /\ Role[i] = "fading key" => Applies(FadingKeys, file[i].key, file[i].value)
         /\ Role[i] \in {"step", "step key"} => StepApplies(file[i].key, file[i].value)
<1>1. /\ KeysOf(Role[i]) # <<>> => Applies(KeysOf(Role[i]), file[i].key, file[i].value)
      /\ Role[i] \in {"step", "step key"} => StepApplies(file[i].key, file[i].value)
  BY DEF WellFormed
<1>2. /\ RuntimeKeys # <<>> /\ DeviceKeys # <<>> /\ LinkKeys # <<>> /\ TapKeys # <<>>
      /\ FadingKeys # <<>>
  BY DEF RuntimeKeys, DeviceKeys, LinkKeys, TapKeys, FadingKeys
<1>3. /\ KeysOf("runtime key") = RuntimeKeys
      /\ KeysOf("device") = DeviceKeys /\ KeysOf("device key") = DeviceKeys
      /\ KeysOf("link") = LinkKeys /\ KeysOf("link key") = LinkKeys
      /\ KeysOf("tap") = TapKeys /\ KeysOf("tap key") = TapKeys
      /\ KeysOf("fading key") = FadingKeys
  BY DEF KeysOf
<1> QED BY <1>1, <1>2, <1>3

\* The parent of a nested line is of the one role it can be.
LEMMA NestedLine ==
  ASSUME NEW l, NEW within, NEW role, Nests(l, within, role), within # "none"
  PROVE  \/ role = "runtime key" /\ within = "runtime"
         \/ role = "device" /\ within = "devices"
         \/ role = "device key" /\ within = "device"
         \/ role = "link" /\ within = "links"
         \/ role = "link key" /\ within = "link"
         \/ role = "model" /\ within = "models"
         \/ role = "chain" /\ within = "model"
         \/ role = "step" /\ within = "chain"
         \/ role = "taps" /\ within = "step"
         \/ role = "fading" /\ within = "step"
         \/ role = "step key" /\ within = "step"
         \/ role = "tap" /\ within = "taps"
         \/ role = "tap key" /\ within = "tap"
         \/ role = "fading key" /\ within = "fading"
<1>1. CASE within = "runtime"
  BY <1>1 DEF Nests
<1>2. CASE within = "devices"
  BY <1>2 DEF Nests
<1>3. CASE within = "device"
  BY <1>3 DEF Nests
<1>4. CASE within = "links"
  BY <1>4 DEF Nests
<1>5. CASE within = "link"
  BY <1>5 DEF Nests
<1>6. CASE within = "models"
  BY <1>6 DEF Nests
<1>7. CASE within = "model"
  BY <1>7 DEF Nests
<1>8. CASE within = "chain"
  BY <1>8 DEF Nests
<1>9. CASE within = "step"
  BY <1>9 DEF Nests
<1>10. CASE within = "taps"
  BY <1>10 DEF Nests
<1>11. CASE within = "tap"
  BY <1>11 DEF Nests
<1>12. CASE within = "fading"
  BY <1>12 DEF Nests
<1>13. within \in {"runtime", "devices", "device", "links", "link", "models", "model", "chain",
                   "step", "taps", "tap", "fading"}
  BY DEF Nests
<1> QED BY <1>1, <1>2, <1>3, <1>4, <1>5, <1>6, <1>7, <1>8, <1>9, <1>10, <1>11, <1>12, <1>13

\* Every line of a well-formed file finds the reader where it has to be.
LEMMA Expected ==
  ASSUME FileInv, NestInv, WellFormed, phase = "reading", at < Len(file)
  PROVE  \/ TopLevel \/ RuntimeLine \/ DeviceLine \/ LinkLine \/ ModelLine
         \/ ChainLine \/ StepLine \/ TapsLine \/ FadingLine \/ TapLine \/ TapKeyLine
         \/ FadingKeyLine \/ StepKeyLine
<1>1. at + 1 \in Lines /\ \A j \in Lines : file[j].indent \in Nat
  BY FilesAssumption DEF FileInv, Lines
<1>2. Line.value # Flow
  BY <1>1, WellFormedLine DEF Line
<1>3. CASE Nests(Line, "none", NextRole)
  BY <1>3 DEF Nests, TopLevel
<1>4. ASSUME NEW p \in 1..at, Open(p), Known(p), file[p].indent < Line.indent,
             Role[p] # "none", Nests(Line, Role[p], NextRole),
             NextRole = "step key" => NoneNested(p)
      PROVE  \/ RuntimeLine \/ DeviceLine \/ LinkLine \/ ModelLine
             \/ ChainLine \/ StepLine \/ TapsLine \/ FadingLine \/ TapLine \/ TapKeyLine
             \/ FadingKeyLine \/ StepKeyLine
  <2>1. Line.indent > 0
    <3>1. p \in Lines
      BY FilesAssumption DEF FileInv, Lines
    <3>2. file[p].indent \in Nat /\ file[at + 1].indent \in Nat
      BY <1>1, <3>1
    <3>3. Line.indent = file[at + 1].indent
      BY DEF Line
    <3>4. file[p].indent < Line.indent
      BY <1>4
    <3> QED BY <3>2, <3>3, <3>4
  <2>2. Reading(SectionOf(Role[p]))
    BY <1>2, <1>4, <2>1 DEF Reading, Known
  <2>3. /\ NextRole = "runtime key" => Applies(RuntimeKeys, Line.key, Line.value)
        /\ NextRole \in {"device", "device key"} => Applies(DeviceKeys, Line.key, Line.value)
        /\ NextRole \in {"link", "link key"} => Applies(LinkKeys, Line.key, Line.value)
        /\ NextRole \in {"tap", "tap key"} => Applies(TapKeys, Line.key, Line.value)
        /\ NextRole = "fading key" => Applies(FadingKeys, Line.key, Line.value)
        /\ NextRole \in {"step", "step key"} => StepApplies(Line.key, Line.value)
    BY <1>1, KeysApply DEF Line, NextRole
  <2>4. CASE NextRole = "runtime key" /\ Role[p] = "runtime"
    BY <1>4, <2>2, <2>3, <2>4 DEF Nests, Known, SectionOf, RuntimeLine, PlainKey
  <2>5. CASE NextRole = "device" /\ Role[p] = "devices"
    BY <1>4, <2>2, <2>3, <2>5 DEF Nests, Known, SectionOf, DeviceLine, ItemLine
  <2>6. CASE NextRole = "device key" /\ Role[p] = "device"
    BY <1>4, <2>2, <2>3, <2>6 DEF Nests, Known, SectionOf, DeviceLine, ItemLine
  <2>7. CASE NextRole = "link" /\ Role[p] = "links"
    BY <1>4, <2>2, <2>3, <2>7 DEF Nests, Known, SectionOf, LinkLine, ItemLine
  <2>8. CASE NextRole = "link key" /\ Role[p] = "link"
    BY <1>4, <2>2, <2>3, <2>8 DEF Nests, Known, SectionOf, LinkLine, ItemLine
  <2>9. CASE NextRole = "model" /\ Role[p] = "models"
    BY <1>4, <2>2, <2>3, <2>9 DEF Nests, Known, SectionOf, ModelLine, AtModel
  <2>10. CASE NextRole = "chain" /\ Role[p] = "model"
    BY <1>4, <2>2, <2>3, <2>10 DEF Nests, Known, SectionOf, ChainLine, AtChain,
       AtModel, Heading
  <2>11. CASE NextRole = "step" /\ Role[p] = "chain"
    BY <1>4, <2>2, <2>3, <2>11 DEF Nests, Known, SectionOf, StepLine, AtStep
  <2>12. CASE NextRole = "taps" /\ Role[p] = "step"
    BY <1>4, <2>2, <2>3, <2>12 DEF Nests, Known, SectionOf, TapsLine, AtTaps
  <2>13. CASE NextRole = "fading" /\ Role[p] = "step"
    BY <1>4, <2>2, <2>3, <2>13 DEF Nests, Known, SectionOf, FadingLine, AtFading
  <2>14. CASE NextRole = "step key" /\ Role[p] = "step"
    BY <1>4, <2>2, <2>3, <2>14 DEF Nests, Known, SectionOf, StepKeyLine, AtStepKey,
       AtChain, AtTaps, AtFading, Heading, PlainKey
  <2>15. CASE NextRole = "tap" /\ Role[p] = "taps"
    BY <1>4, <2>2, <2>3, <2>15 DEF Nests, Known, SectionOf, TapLine, AtTap
  <2>16. CASE NextRole = "tap key" /\ Role[p] = "tap"
    BY <1>4, <2>2, <2>3, <2>16 DEF Nests, Known, SectionOf, TapKeyLine, AtTapKey,
       AtChain, Heading, PlainKey
  <2>17. CASE NextRole = "fading key" /\ Role[p] = "fading"
    BY <1>4, <2>2, <2>3, <2>17 DEF Nests, Known, SectionOf, FadingKeyLine, AtFadingKey,
       AtChain, Heading, PlainKey
  <2>18. \/ NextRole = "runtime key" /\ Role[p] = "runtime"
         \/ NextRole = "device" /\ Role[p] = "devices"
         \/ NextRole = "device key" /\ Role[p] = "device"
         \/ NextRole = "link" /\ Role[p] = "links"
         \/ NextRole = "link key" /\ Role[p] = "link"
         \/ NextRole = "model" /\ Role[p] = "models"
         \/ NextRole = "chain" /\ Role[p] = "model"
         \/ NextRole = "step" /\ Role[p] = "chain"
         \/ NextRole = "taps" /\ Role[p] = "step"
         \/ NextRole = "fading" /\ Role[p] = "step"
         \/ NextRole = "step key" /\ Role[p] = "step"
         \/ NextRole = "tap" /\ Role[p] = "taps"
         \/ NextRole = "tap key" /\ Role[p] = "tap"
         \/ NextRole = "fading key" /\ Role[p] = "fading"
    BY <1>4, NestedLine
  <2> QED BY <2>4, <2>5, <2>6, <2>7, <2>8, <2>9, <2>10, <2>11, <2>12, <2>13, <2>14,
             <2>15, <2>16, <2>17, <2>18, ZenonT(60)
<1> QED BY <1>3, <1>4, NextLine

(***************************************************************************)
(* The step: what is read tells the role of the line.                      *)
(***************************************************************************)

\* What a file says depends on the file only.
LEMMA SameRoles ==
  ASSUME file' = file
  PROVE  Role' = Role /\ WellFormed' = WellFormed
<1>1. Role' = Role
  BY SMT DEF Role, RoleIn, Parent, NothingNested, Heading, Sections, Empty, Word
<1>2. Lines' = Lines
  BY DEF Lines
<1> QED BY <1>1, <1>2 DEF WellFormed

\* A line is indented less than the next one where it may have it nested in it.
LEMMA StillOpen ==
  ASSUME FileInv, Consumed, NEW p \in 1..at, Open(p)'
  PROVE  Open(p) /\ file[p].indent < Line.indent
<1>1. at \in Nat /\ at' = at + 1 /\ file' = file
  BY FilesAssumption DEF FileInv, Consumed
<1>2. \A j \in (p + 1)..(at + 1) : file[j].indent > file[p].indent
  BY <1>1 DEF Open
<1>3. p \in Lines /\ at + 1 \in Lines
  BY FilesAssumption DEF FileInv, Lines, Consumed
<1>4. file[p].indent \in Nat /\ file[at + 1].indent \in Nat
  BY <1>3, FilesAssumption DEF FileInv, Lines
<1>5. at + 1 \in (p + 1)..(at + 1)
  BY <1>1
<1>6. file[at + 1].indent > file[p].indent
  BY <1>2, <1>5
<1>7. file[p].indent < Line.indent
  BY <1>4, <1>6 DEF Line
<1>8. Open(p)
  BY <1>1, <1>2 DEF Open
<1> QED BY <1>7, <1>8

\* What keeps the invariant: the lines still open and the new one are known.
LEMMA KnownKeepsNest ==
  ASSUME FileInv, NestInv, Consumed,
         WellFormed =>
           /\ \A p \in 1..at : Open(p) /\ Known(p) /\ file[p].indent < Line.indent => Known(p)'
           /\ \A n \in {at + 1} : Known(n)'
  PROVE  NestInv'
<1>1. at \in Nat /\ at' = at + 1 /\ file' = file /\ phase = "reading" /\ phase' = "reading"
  BY FilesAssumption DEF FileInv, Consumed
<1>2. WellFormed' = WellFormed
  BY <1>1, SameRoles
<1>3. ASSUME WellFormed, NEW p \in 1..(at + 1), Open(p)' PROVE Known(p)'
  <2>1. CASE p = at + 1
    BY <1>3, <2>1
  <2>2. CASE p # at + 1
    <3>1. p \in 1..at
      BY <1>1, <2>2
    <3>2. Open(p) /\ file[p].indent < Line.indent
      BY <1>3, <3>1, StillOpen
    <3>3. Known(p)
      BY <1>1, <1>3, <3>1, <3>2 DEF NestInv, WellFormedIsRead
    <3> QED BY <1>3, <3>1, <3>2, <3>3
  <2> QED BY <2>1, <2>2
<1> QED BY <1>1, <1>2, <1>3 DEF NestInv, WellFormedIsRead

\* A line nested in another one is in the section that is being read.
LEMMA NextInSection ==
  ASSUME FileInv, NestInv, WellFormed, phase = "reading", at < Len(file), Line.indent # 0
  PROVE  section = SectionOf(NextRole) /\ NextRole \notin Sections /\ section \in Sections
<1>1. ~Nests(Line, "none", NextRole)
  BY DEF Nests
<1>2. PICK p \in 1..at : Known(p) /\ Role[p] # "none" /\ Nests(Line, Role[p], NextRole)
  BY <1>1, NextLine
<1>3. SectionOf(NextRole) = SectionOf(Role[p]) /\ NextRole \notin Sections
  BY <1>2, NestsSoundly
<1> QED BY <1>2, <1>3 DEF Known, SectionOf, Sections

\* What a line of the models section tells of its role.
LEMMA ModelNests ==
  ASSUME NEW l, l.indent \in Nat, NEW within, NEW role, Nests(l, within, role),
         role \in ModelRoles \ Sections
  PROVE  /\ l.indent = 2 => role = "model"
         /\ l.indent = 4 => role = "chain"
         /\ l.indent = 6 => role = "step"
         /\ l.indent = 8 /\ Heading(l, "taps") => role = "taps"
         /\ l.indent = 8 /\ Heading(l, "fading") => role = "fading"
         /\ l.indent = 8 /\ ~Heading(l, "taps") /\ ~Heading(l, "fading") => role = "step key"
         /\ l.indent = 10 /\ l.dash => role = "tap"
         /\ l.indent = 10 => role = "fading key" \/ (role = "tap" /\ within = "taps")
         /\ l.indent = 12 => role = "tap key"
         /\ Heading(l, "chain") => role = "chain" \/ role = "model"
         /\ role = "model" => l.indent = 2 /\ l.value = Empty
<1>1. role \in {"model", "chain", "step", "taps", "fading", "step key", "tap", "tap key",
                "fading key"}
  BY DEF ModelRoles, Sections
<1>2. CASE role = "model"
  <2>1. l.indent = 2 /\ l.value = Empty
    BY <1>2 DEF Nests, Heading, Sections
  <2> QED BY <1>2, <2>1 DEF Heading
<1>3. CASE role = "chain"
  BY <1>3 DEF Nests, Heading, Sections
<1>4. CASE role = "step"
  BY <1>4 DEF Nests, Heading, Sections
<1>5. CASE role = "taps"
  BY <1>5 DEF Nests, Heading, Sections
<1>6. CASE role = "fading"
  BY <1>6 DEF Nests, Heading, Sections
<1>7. CASE role = "step key"
  <2>1. l.indent = 8 /\ ~l.dash /\ l.value # Empty
    BY <1>7 DEF Nests, Heading, Sections
  <2>2. ~Heading(l, "taps") /\ ~Heading(l, "fading") /\ ~Heading(l, "chain")
    BY <2>1 DEF Heading
  <2>3. l.indent # 2 /\ l.indent # 4 /\ l.indent # 6 /\ l.indent # 10 /\ l.indent # 12
    BY <2>1
  <2> QED BY <1>7, <2>1, <2>2, <2>3
<1>8. CASE role = "tap"
  BY <1>8 DEF Nests, Heading, Sections
<1>9. CASE role = "tap key"
  <2>1. l.indent = 12 /\ l.value # Empty
    BY <1>9 DEF Nests, Heading, Sections
  <2>2. ~Heading(l, "taps") /\ ~Heading(l, "fading") /\ ~Heading(l, "chain")
    BY <2>1 DEF Heading
  <2>3. l.indent # 2 /\ l.indent # 4 /\ l.indent # 6 /\ l.indent # 8 /\ l.indent # 10
    BY <2>1
  <2> QED BY <1>9, <2>1, <2>2, <2>3
<1>10. CASE role = "fading key"
  <2>1. l.indent = 10 /\ ~l.dash /\ l.value # Empty
    BY <1>10 DEF Nests, Heading, Sections
  <2>2. ~Heading(l, "taps") /\ ~Heading(l, "fading") /\ ~Heading(l, "chain")
    BY <2>1 DEF Heading
  <2>3. l.indent # 2 /\ l.indent # 4 /\ l.indent # 6 /\ l.indent # 8 /\ l.indent # 12
    BY <2>1
  <2> QED BY <1>10, <2>1, <2>2, <2>3
<1> QED BY <1>1, <1>2, <1>3, <1>4, <1>5, <1>6, <1>7, <1>8, <1>9, <1>10

\* The line that is read is a section, a key of the runtime, or a part of a device,
\* of a link or of a model.
LEMMA ReadTells ==
  ASSUME LoadInv, NestInv, WellFormed
  PROVE  /\ ReadSection => NextRole \in Sections
         /\ ~SkipLine
         /\ ReadRuntime => NextRole = "runtime key"
         /\ ReadDevice => NextRole \in {"device", "device key"}
         /\ ReadLink => NextRole \in {"link", "link key"}
         /\ ReadModel => NextRole = "model"
         /\ ReadChain => NextRole = "chain"
         /\ ReadStep => NextRole = "step"
         /\ ReadTaps => NextRole = "taps"
         /\ ReadFading => NextRole = "fading"
         /\ ReadTap => NextRole = "tap"
         /\ ReadTapKey => NextRole = "tap key"
         /\ ReadFadingKey => NextRole = "fading key"
         /\ ReadStepKey => NextRole = "step key"
<1>1. FileInv /\ PointersInv
  BY DEF LoadInv
<1> SUFFICES ASSUME phase = "reading", at < Len(file)
             PROVE  /\ ReadSection => NextRole \in Sections
                    /\ ~SkipLine
                    /\ ReadRuntime => NextRole = "runtime key"
                    /\ ReadDevice => NextRole \in {"device", "device key"}
                    /\ ReadLink => NextRole \in {"link", "link key"}
                    /\ ReadModel => NextRole = "model"
                    /\ ReadChain => NextRole = "chain"
                    /\ ReadStep => NextRole = "step"
                    /\ ReadTaps => NextRole = "taps"
                    /\ ReadFading => NextRole = "fading"
                    /\ ReadTap => NextRole = "tap"
                    /\ ReadTapKey => NextRole = "tap key"
                    /\ ReadFadingKey => NextRole = "fading key"
                    /\ ReadStepKey => NextRole = "step key"
  BY DEF ReadSection, SkipLine, ReadRuntime, ReadDevice, ReadLink, ReadModel, ReadChain,
         ReadStep, ReadTaps, ReadFading, ReadTap, ReadTapKey, ReadFadingKey, ReadStepKey,
         RuntimeLine, DeviceLine, LinkLine, ItemLine, ModelLine, ChainLine, StepLine,
         TapsLine, FadingLine, TapLine, TapKeyLine, FadingKeyLine, StepKeyLine, Reading
<1>2. Line.indent # 0 =>
        NextRole \notin Sections /\ section \in Sections /\ section = SectionOf(NextRole)
  BY <1>1, NextInSection
<1>0. Line.indent \in Nat
  BY <1>1, FilesAssumption DEF FileInv, Line
<1>3. PICK within : /\ Nests(Line, within, NextRole)
                    /\ within # "none" =>
                         /\ \E p \in 1..at : file[p].indent < Line.indent
                         /\ within = "taps" => current.in_taps
  <2>1. CASE Nests(Line, "none", NextRole)
    BY <2>1
  <2>2. ASSUME NEW p \in 1..at, Known(p), Nests(Line, Role[p], NextRole),
               file[p].indent < Line.indent
        PROVE  \E within : /\ Nests(Line, within, NextRole)
                           /\ within # "none" =>
                                /\ \E q \in 1..at : file[q].indent < Line.indent
                                /\ within = "taps" => current.in_taps
    BY <2>2 DEF Known
  <2> QED BY <1>1, <2>1, <2>2, NextLine
<1>4. within = "none" => Line.indent = 0 /\ NextRole \in Sections
  BY <1>3 DEF Nests, Heading, Sections
<1>5. NextRole \in LineRoles
  BY <1>3, NestsSoundly
<1>6. Line.indent = 0 => NextRole \in Sections
  <2>1. \A p \in 1..at : file[p].indent \in Nat /\ Line.indent \in Nat
    BY <1>1, FilesAssumption DEF FileInv, Line
  <2> QED BY <1>3, <1>4, <2>1
<1>7. ReadSection => NextRole \in Sections
  BY <1>6 DEF ReadSection, TopLevel
<1>8. ~SkipLine
  BY <1>2 DEF SkipLine, Reading, Sections
<1>9. ReadRuntime => NextRole = "runtime key"
  <2>1. ReadRuntime => Line.indent # 0 /\ section = "runtime"
    BY DEF ReadRuntime, RuntimeLine, Reading
  <2> QED BY <1>2, <1>5, <2>1 DEF SectionOf, LineRoles, ModelRoles, Sections
<1>10. ReadDevice => NextRole \in {"device", "device key"}
  <2>1. ReadDevice => Line.indent # 0 /\ section = "devices"
    BY DEF ReadDevice, DeviceLine, ItemLine, Reading
  <2> QED BY <1>2, <1>5, <2>1 DEF SectionOf, LineRoles, ModelRoles, Sections
<1>11. ReadLink => NextRole \in {"link", "link key"}
  <2>1. ReadLink => Line.indent # 0 /\ section = "links"
    BY DEF ReadLink, LinkLine, ItemLine, Reading
  <2> QED BY <1>2, <1>5, <2>1 DEF SectionOf, LineRoles, ModelRoles, Sections
<1>12. Line.indent # 0 /\ section = "models" => NextRole \in ModelRoles \ Sections
  BY <1>2, <1>5 DEF SectionOf, LineRoles, ModelRoles, Sections
<1>13. ReadModel => NextRole = "model"
  <2> SUFFICES ASSUME ReadModel PROVE NextRole = "model"
    OBVIOUS
  <2>1. Line.indent # 0 /\ section = "models" /\ AtModel(Line)
    <3>1. Line.indent > 0 /\ section = "models" /\ AtModel(Line)
      BY DEF ReadModel, ModelLine, Reading
    <3> QED BY <3>1
  <2>2. NextRole \in ModelRoles \ Sections
    BY <1>12, <2>1
  <2> QED BY <1>3, <2>1, <1>0, <2>2, ModelNests DEF AtModel
<1>14. ReadChain => NextRole = "chain"
  <2> SUFFICES ASSUME ReadChain PROVE NextRole = "chain"
    OBVIOUS
  <2>1. Line.indent # 0 /\ section = "models" /\ AtChain(Line)
    <3>1. Line.indent > 0 /\ section = "models" /\ AtChain(Line)
      BY DEF ReadChain, ChainLine, Reading
    <3> QED BY <3>1
  <2>2. NextRole \in ModelRoles \ Sections
    BY <1>12, <2>1
  <2>3. Heading(Line, "chain") /\ ~(Line.indent = 2 /\ Line.value = Empty)
    BY <2>1 DEF AtChain, AtModel
  <2>4. Nests(Line, within, NextRole)
    BY <1>3
  <2> QED BY <2>2, <2>3, <1>0, <2>4, ModelNests
<1>15. ReadStep => NextRole = "step"
  <2> SUFFICES ASSUME ReadStep PROVE NextRole = "step"
    OBVIOUS
  <2>1. Line.indent # 0 /\ section = "models" /\ AtStep(Line)
    <3>1. Line.indent > 0 /\ section = "models" /\ AtStep(Line)
      BY DEF ReadStep, StepLine, Reading
    <3> QED BY <3>1
  <2>2. NextRole \in ModelRoles \ Sections
    BY <1>12, <2>1
  <2>3. Line.indent = 6
    BY <2>1 DEF AtStep
  <2> QED BY <1>0, <1>3, <2>2, <2>3, ModelNests
<1>16. ReadTaps => NextRole = "taps"
  <2> SUFFICES ASSUME ReadTaps PROVE NextRole = "taps"
    OBVIOUS
  <2>1. Line.indent # 0 /\ section = "models" /\ AtTaps(Line)
    <3>1. Line.indent > 0 /\ section = "models" /\ AtTaps(Line)
      BY DEF ReadTaps, TapsLine, Reading
    <3> QED BY <3>1
  <2>2. NextRole \in ModelRoles \ Sections
    BY <1>12, <2>1
  <2> QED BY <1>3, <2>1, <1>0, <2>2, ModelNests DEF AtTaps
<1>17. ReadFading => NextRole = "fading"
  <2> SUFFICES ASSUME ReadFading PROVE NextRole = "fading"
    OBVIOUS
  <2>1. Line.indent # 0 /\ section = "models" /\ AtFading(Line)
    <3>1. Line.indent > 0 /\ section = "models" /\ AtFading(Line)
      BY DEF ReadFading, FadingLine, Reading
    <3> QED BY <3>1
  <2>2. NextRole \in ModelRoles \ Sections
    BY <1>12, <2>1
  <2> QED BY <1>3, <2>1, <1>0, <2>2, ModelNests DEF AtFading
<1>18. ReadTap => NextRole = "tap"
  <2> SUFFICES ASSUME ReadTap PROVE NextRole = "tap"
    OBVIOUS
  <2>1. Line.indent # 0 /\ section = "models" /\ AtTap(Line)
    <3>1. Line.indent > 0 /\ section = "models" /\ AtTap(Line)
      BY DEF ReadTap, TapLine, Reading
    <3> QED BY <3>1
  <2>2. NextRole \in ModelRoles \ Sections
    BY <1>12, <2>1
  <2> QED BY <1>3, <2>1, <1>0, <2>2, ModelNests DEF AtTap
<1>19. ReadTapKey => NextRole = "tap key"
  <2> SUFFICES ASSUME ReadTapKey PROVE NextRole = "tap key"
    OBVIOUS
  <2>1. Line.indent # 0 /\ section = "models" /\ AtTapKey(Line)
    <3>1. Line.indent > 0 /\ section = "models" /\ AtTapKey(Line)
      BY DEF ReadTapKey, TapKeyLine, Reading
    <3> QED BY <3>1
  <2>2. NextRole \in ModelRoles \ Sections
    BY <1>12, <2>1
  <2> QED BY <1>3, <2>1, <1>0, <2>2, ModelNests DEF AtTapKey
<1>20. ReadFadingKey => NextRole = "fading key"
  <2> SUFFICES ASSUME ReadFadingKey PROVE NextRole = "fading key"
    OBVIOUS
  <2>1. Line.indent # 0 /\ section = "models" /\ AtFadingKey(Line)
    <3>1. Line.indent > 0 /\ section = "models" /\ AtFadingKey(Line)
      BY DEF ReadFadingKey, FadingKeyLine, Reading
    <3> QED BY <3>1
  <2>2. NextRole \in ModelRoles \ Sections
    BY <1>12, <2>1
  <2> QED BY <1>1, <1>3, <2>1, <1>0, <2>2, ModelNests DEF AtFadingKey, PointersInv
<1>21. ReadStepKey => NextRole = "step key"
  <2> SUFFICES ASSUME ReadStepKey PROVE NextRole = "step key"
    OBVIOUS
  <2>1. Line.indent # 0 /\ section = "models" /\ AtStepKey(Line)
    <3>1. Line.indent > 0 /\ section = "models" /\ AtStepKey(Line)
      BY DEF ReadStepKey, StepKeyLine, Reading
    <3> QED BY <3>1
  <2>2. NextRole \in ModelRoles \ Sections
    BY <1>12, <2>1
  <2> QED BY <1>3, <2>1, <1>0, <2>2, ModelNests DEF AtStepKey, AtTaps, AtFading
<1> QED BY <1>7, <1>8, <1>9, <1>10, <1>11, <1>13, <1>14, <1>15, <1>16, <1>17, <1>18,
           <1>19, <1>20, <1>21

(***************************************************************************)
(* The step: the open lines stay known to the pointers.                    *)
(***************************************************************************)

\* The lines that are open and indented less than the next one stay known, and the
\* next one is known once it is read.
KnownAfter ==
  /\ \A p \in 1..at : Known(p) /\ file[p].indent < Line.indent => Known(p)'
  /\ \A n \in {at + 1} : Known(n)'

LEMMA NestedStays ==
  ASSUME FileInv, Consumed, NEW p \in 1..at, NoneNested(p)'
  PROVE  /\ NoneNested(p)
         /\ Line.indent = 8 => ~Heading(Line, "taps") /\ ~Heading(Line, "fading")
<1>1. at \in Nat /\ at' = at + 1 /\ file' = file
  BY FilesAssumption DEF FileInv, Consumed
<1>2. \A j \in (p + 1)..(at + 1) : file[j].indent <= 8 =>
        ~Heading(file[j], "taps") /\ ~Heading(file[j], "fading")
  BY <1>1 DEF NoneNested, Heading, Empty, Word
<1>3. at + 1 \in (p + 1)..(at + 1) /\ (p + 1)..at \subseteq (p + 1)..(at + 1)
  BY <1>1
<1>4. NoneNested(p)
  BY <1>2, <1>3 DEF NoneNested
<1> QED BY <1>2, <1>3, <1>4 DEF Line

\* The lines up to the next one have a role that fits their section and indent.
LEMMA RolesFit ==
  ASSUME FileInv, WellFormed, Consumed
  PROVE  /\ \A p \in 1..(at + 1) : p \in Lines /\ Role[p] \in LineRoles /\ Sound(p)
         /\ \A p \in 1..(at + 1) : file[p].indent \in Nat
         /\ Line.indent \in Nat /\ Role' = Role /\ at \in Nat /\ at' = at + 1
         /\ at + 1 \in Lines
         /\ Line = file[at + 1]
<1>1. /\ at \in Nat /\ at' = at + 1 /\ file' = file
      /\ at + 1 \in Lines /\ 1..(at + 1) \subseteq Lines
  BY FilesAssumption DEF FileInv, Consumed, Lines
<1>2. \A p \in Lines : Sound(p)
  BY WellFormedLine
<1>3. \A p \in Lines : file[p].indent \in Nat
  BY FilesAssumption DEF FileInv, Lines
<1> QED BY <1>1, <1>2, <1>3, SameRoles DEF Sound, Line

LEMMA SectionKnown ==
  ASSUME LoadInv, WellFormed, NestInv, Consumed, ReadSection
  PROVE  KnownAfter
<1>1. FileInv
  BY DEF LoadInv
<1>2. section' = Line.key /\ Line.indent = 0
  BY DEF ReadSection, TopLevel
<1>3. ASSUME NEW p \in 1..at PROVE ~(file[p].indent < Line.indent)
  <2>1. p \in 1..(at + 1)
    BY <1>1, RolesFit
  <2>2. file[p].indent \in Nat
    BY <1>1, <2>1, RolesFit
  <2>3. Line.indent = 0
    BY <1>2
  <2> QED BY <2>2, <2>3
<1>4. NextRole \in Sections /\ at + 1 \in Lines
  BY <1>1, ReadTells, RolesFit
<1>5. Nests(Line, Role[Parent(at + 1)], NextRole)
  BY <1>1, <1>4, WellFormedLine DEF Line, NextRole
<1>6. NextRole = Line.key
  BY <1>4, <1>5, NestsSoundly DEF Nests
<1>7. ASSUME NEW n \in {at + 1} PROVE Known(n)'
  <2>1. Role'[n] = Line.key /\ Line.key \in Sections
    BY <1>1, <1>4, <1>6, RolesFit DEF NextRole
  <2> QED BY <1>2, <2>1 DEF Known, SectionOf, Sections
<1> QED BY <1>3, <1>7 DEF KnownAfter

\* Keys leave the pointers alone.
LEMMA KeyKnown ==
  ASSUME LoadInv, WellFormed, NestInv, Consumed, UNCHANGED <<section, current>>,
         section = SectionOf(NextRole),
         NextRole \in {"runtime key", "step key", "tap key", "fading key"}
  PROVE  KnownAfter
<1>1. FileInv
  BY DEF LoadInv
<1>2. Role' = Role
  BY <1>1, RolesFit
<1>3. ASSUME NEW p \in 1..at, Known(p) PROVE Known(p)'
  <2>1. NoneNested(p)' => NoneNested(p)
    BY <1>1, NestedStays
  <2> QED BY <1>2, <1>3, <2>1 DEF Known
<1>4. ASSUME NEW n \in {at + 1} PROVE Known(n)'
  <2>1. Role'[n] = NextRole
    BY <1>2 DEF NextRole
  <2> QED BY <2>1 DEF Known
<1> QED BY <1>3, <1>4 DEF KnownAfter

\* A device or a link that was begun or gone on with is there.
LEMMA ItemKnown ==
  ASSUME LoadInv, WellFormed, NestInv, Consumed, section' = section,
         section = SectionOf(NextRole), ReadDevice \/ ReadLink
  PROVE  KnownAfter
<1> DEFINE devices == Extended(config.devices, DefaultDevice, DeviceKeys)
           links == Extended(config.links, DefaultLink, LinkKeys)
<1>1. FileInv /\ DOMAIN current = Pointers
  BY DEF LoadInv, PointersInv
<1>2. Role' = Role
  BY <1>1, RolesFit
<1>3. ReadDevice => section = "devices" /\ current'.device # 0
  <2>1. ReadDevice => DeviceLine /\ current' = [current EXCEPT !.device = Len(devices)]
    BY DEF ReadDevice
  <2>2. DeviceLine => Len(devices) # 0 /\ section = "devices"
    BY ItemsGrow DEF Consumed, DeviceLine, ItemLine, Reading
  <2> HIDE DEF devices
  <2> QED BY <1>1, <2>1, <2>2 DEF Pointers
<1>4. ReadLink => section = "links" /\ current'.link # 0
  <2>1. ReadLink => LinkLine /\ current' = [current EXCEPT !.link = Len(links)]
    BY DEF ReadLink
  <2>2. LinkLine => Len(links) # 0 /\ section = "links"
    BY ItemsGrow DEF Consumed, LinkLine, ItemLine, Reading
  <2> HIDE DEF links
  <2> QED BY <1>1, <2>1, <2>2 DEF Pointers
<1>5. ASSUME NEW n, section = SectionOf(Role[n]) PROVE Known(n)'
  <2>1. Role'[n] = Role[n] /\ section' = section
    BY <1>2
  <2>2. CASE ReadDevice
    BY <1>3, <1>5, <2>1, <2>2 DEF Known, SectionOf
  <2>3. CASE ReadLink
    BY <1>4, <1>5, <2>1, <2>3 DEF Known, SectionOf
  <2> QED BY <2>2, <2>3
<1> QED BY <1>5 DEF KnownAfter, Known, NextRole

\* What a line of the models section leaves the pointers at.
Moved(role) ==
  /\ role # "model" => current'.model = current.model
  /\ role \in {"model", "chain", "step"} => current'.model # NoName
  /\ role = "step" => ~current'.in_taps /\ ~current'.in_fading
  /\ role \in {"step", "taps", "fading", "tap"} => current'.step # 0
  /\ role = "taps" => current'.in_taps
  /\ role = "fading" => current'.in_fading
  /\ role = "tap" => /\ current'.tap # 0 /\ current'.in_taps
                     /\ UNCHANGED <<current.in_taps, current.in_fading>>

\* The indent of a line of the models section bounds its role.
LEMMA IndentTells ==
  ASSUME NEW p, Sound(p), Role[p] \in ModelRoles, NEW n \in Nat, file[p].indent = n
  PROVE  /\ n < 2 => Role[p] = "models"
         /\ n < 4 => Role[p] \in {"models", "model"}
         /\ n < 6 => Role[p] \in {"models", "model", "chain"}
         /\ n < 8 => Role[p] \in {"models", "model", "chain", "step"}
         /\ n < 10 => Role[p] \in {"models", "model", "chain", "step", "taps", "fading",
                                   "step key"}
<1>1. /\ Role[p] = "model" => n = 2
      /\ Role[p] = "chain" => n = 4
      /\ Role[p] = "step" => n = 6
      /\ Role[p] \in {"taps", "fading", "step key"} => n = 8
      /\ Role[p] \in {"tap", "fading key"} => n = 10
      /\ Role[p] = "tap key" => n = 12
  BY DEF Sound
<1>2. CASE Role[p] = "models"
  BY <1>2
<1>3. CASE Role[p] = "model"
  <2>1. n = 2
    BY <1>1, <1>3
  <2> QED BY <1>3, <2>1
<1>4. CASE Role[p] = "chain"
  <2>1. n = 4
    BY <1>1, <1>4
  <2> QED BY <1>4, <2>1
<1>5. CASE Role[p] = "step"
  <2>1. n = 6
    BY <1>1, <1>5
  <2> QED BY <1>5, <2>1
<1>6. CASE Role[p] \in {"taps", "fading", "step key"}
  <2>1. n = 8
    BY <1>1, <1>6
  <2>2. ~(n < 2) /\ ~(n < 4) /\ ~(n < 6) /\ ~(n < 8)
    BY <2>1
  <2> QED BY <1>6, <2>2
<1>7. CASE Role[p] \in {"tap", "fading key"}
  <2>1. n = 10
    BY <1>1, <1>7
  <2>2. ~(n < 2) /\ ~(n < 4) /\ ~(n < 6) /\ ~(n < 8) /\ ~(n < 10)
    BY <2>1
  <2> QED BY <1>7, <2>2
<1>8. CASE Role[p] = "tap key"
  <2>1. n = 12
    BY <1>1, <1>8
  <2>2. ~(n < 2) /\ ~(n < 4) /\ ~(n < 6) /\ ~(n < 8) /\ ~(n < 10)
    BY <2>1
  <2> QED BY <1>8, <2>2
<1> QED BY <1>2, <1>3, <1>4, <1>5, <1>6, <1>7, <1>8 DEF ModelRoles

\* So is a model, its chain, a step, a list of taps, the fading and a tap.
LEMMA ModelKnown ==
  ASSUME LoadInv, WellFormed, NestInv, Consumed, section' = section, section = "models",
         NextRole \in {"model", "chain", "step", "taps", "fading", "tap"},
         Moved(NextRole)
  PROVE  KnownAfter
<1>1. FileInv
  BY DEF LoadInv
<1>2. /\ Role' = Role /\ at \in Nat /\ Line = file[at + 1] /\ Line.indent \in Nat
      /\ \A p \in 1..(at + 1) : Role[p] \in LineRoles /\ Sound(p) /\ file[p].indent \in Nat
  BY <1>1, RolesFit
<1>3. Sound(at + 1) /\ NextRole = Role[at + 1]
  BY <1>2 DEF NextRole
<1>4. /\ NextRole = "model" => Line.indent = 2
      /\ NextRole = "chain" => Line.indent = 4
      /\ NextRole = "step" => Line.indent = 6
      /\ NextRole \in {"taps", "fading"} => Line.indent = 8 /\ Heading(Line, NextRole)
      /\ NextRole = "tap" => Line.indent = 10
  <2>1. Nests(Line, Role[Parent(at + 1)], NextRole)
    BY <1>1, <1>2, RolesFit, WellFormedLine DEF NextRole
  <2>2. NextRole \in {"taps", "fading"} => Heading(Line, NextRole)
    BY <2>1 DEF Nests, Heading, Sections
  <2> QED BY <1>2, <1>3, <2>2 DEF Sound
<1>5. ASSUME NEW p \in 1..at, Known(p), file[p].indent < Line.indent PROVE Known(p)'
  <2>1. Sound(p) /\ Role[p] \in ModelRoles /\ file[p].indent \in Nat /\ Role'[p] = Role[p]
    <3>1. p \in 1..(at + 1) /\ section = SectionOf(Role[p])
      BY <1>2, <1>5 DEF Known
    <3>2. Role[p] \in LineRoles
      BY <1>2, <3>1
    <3>3. Role[p] \in ModelRoles
      BY <3>1, <3>2 DEF SectionOf, LineRoles, ModelRoles
    <3> QED BY <1>2, <3>1, <3>3
  <2>2. NoneNested(p)' => NoneNested(p) /\ NextRole \notin {"taps", "fading"}
    BY <1>1, <1>4, NestedStays
  <2>3. CASE NextRole = "model"
    <3>1. Role[p] = "models"
      <4>1. file[p].indent < 2
        BY <1>4, <1>5, <2>3
      <4> QED BY <2>1, <4>1, IndentTells
    <3> QED BY <2>1, <3>1 DEF Known, SectionOf
  <2>4. CASE NextRole = "chain"
    <3>1. Role[p] \in {"models", "model"}
      <4>1. file[p].indent < 4
        BY <1>4, <1>5, <2>4
      <4> QED BY <2>1, <4>1, IndentTells
    <3> QED BY <2>1, <2>4, <3>1 DEF Known, SectionOf, Moved
  <2>5. CASE NextRole = "step"
    <3>1. Role[p] \in {"models", "model", "chain"}
      <4>1. file[p].indent < 6
        BY <1>4, <1>5, <2>5
      <4> QED BY <2>1, <4>1, IndentTells
    <3> QED BY <2>1, <2>5, <3>1 DEF Known, SectionOf, Moved
  <2>6. CASE NextRole \in {"taps", "fading"}
    <3>1. Role[p] \in {"models", "model", "chain", "step"}
      <4>1. file[p].indent < 8
        BY <1>4, <1>5, <2>6
      <4> QED BY <2>1, <4>1, IndentTells
    <3> QED BY <1>5, <2>1, <2>2, <2>6, <3>1 DEF Known, SectionOf, Moved
  <2>7. CASE NextRole = "tap"
    <3>1. Role[p] \in {"models", "model", "chain", "step", "taps", "fading", "step key"}
      <4>1. file[p].indent < 10
        BY <1>4, <1>5, <2>7
      <4> QED BY <2>1, <4>1, IndentTells
    <3> QED BY <1>5, <2>1, <2>2, <2>7, <3>1 DEF Known, SectionOf, Moved
  <2> QED BY <2>3, <2>4, <2>5, <2>6, <2>7
<1>6. ASSUME NEW n \in {at + 1} PROVE Known(n)'
  <2>1. Role'[n] = NextRole /\ section' = "models"
    BY <1>2, <1>3
  <2> QED BY <2>1 DEF Known, SectionOf, Moved
<1> QED BY <1>5, <1>6 DEF KnownAfter

(***************************************************************************)
(* Every step keeps the nesting.                                           *)
(***************************************************************************)

LEMMA TopLinesKnown ==
  ASSUME LoadInv, NestInv, WellFormed, UNCHANGED <<folded, synthesized>>,
         ReadSection \/ SkipLine \/ ReadRuntime \/ ReadDevice \/ ReadLink
  PROVE  KnownAfter
<1>1. Consumed
  BY DEF ReadSection, SkipLine, ReadRuntime, ReadDevice, ReadLink, RuntimeLine, DeviceLine,
         LinkLine, ItemLine, Reading, Consume, Consumed
<1>2. FileInv /\ Line.indent \in Nat
  BY <1>1, RolesFit DEF LoadInv
<1>3. CASE ReadSection
  BY <1>1, <1>3, SectionKnown
<1>4. Line.indent # 0 => section = SectionOf(NextRole)
  BY <1>1, <1>2, NextInSection DEF Consumed
<1>5. CASE ReadRuntime
  <2>1. Line.indent # 0 /\ UNCHANGED <<section, current>>
    BY <1>2, <1>5 DEF ReadRuntime, RuntimeLine, Reading
  <2>2. NextRole = "runtime key"
    BY <1>5, ReadTells
  <2> QED BY <1>1, <1>4, <2>1, <2>2, KeyKnown
<1>6. CASE ReadDevice \/ ReadLink
  <2>1. Line.indent # 0 /\ section' = section
    BY <1>2, <1>6 DEF ReadDevice, DeviceLine, ReadLink, LinkLine, ItemLine, Reading
  <2> QED BY <1>1, <1>4, <1>6, <2>1, ItemKnown
<1>7. ~SkipLine
  BY ReadTells
<1> QED BY <1>3, <1>5, <1>6, <1>7

LEMMA ModelLinesKnown ==
  ASSUME LoadInv, NestInv, WellFormed, UNCHANGED <<folded, synthesized>>, ModelLineRead
  PROVE  KnownAfter
<1>1. Consumed /\ section' = section
  BY ModelLineConsumes
<1>2. FileInv /\ PointersInv /\ DOMAIN current = Pointers /\ Line.indent \in Nat
  BY <1>1, RolesFit DEF LoadInv, PointersInv
<1>3. section = "models" /\ Line.indent # 0
  <2>1. Reading("models")
    BY DEF ModelLineRead, ReadModel, ReadChain, ReadStep, ReadTaps, ReadFading, ReadTap,
           ReadTapKey, ReadFadingKey, ReadStepKey, ModelLine, ChainLine, StepLine, TapsLine,
           FadingLine, TapLine, TapKeyLine, FadingKeyLine, StepKeyLine
  <2> QED BY <1>2, <2>1 DEF Reading
<1>4. section = SectionOf(NextRole)
  BY <1>1, <1>2, <1>3, NextInSection DEF Consumed
<1>5. CASE ReadTapKey \/ ReadFadingKey \/ ReadStepKey
  <2>1. UNCHANGED current
    BY <1>5 DEF ReadTapKey, ReadFadingKey, ReadStepKey
  <2>2. NextRole \in {"step key", "tap key", "fading key"}
    BY <1>5, ReadTells
  <2> QED BY <1>1, <1>4, <2>1, <2>2, KeyKnown
<1>6. ASSUME NextRole \in {"model", "chain", "step", "taps", "fading", "tap"},
             Moved(NextRole)
      PROVE  KnownAfter
  BY <1>1, <1>3, <1>6, ModelKnown
<1>7. CASE ReadModel
  <2>1. NextRole = "model"
    BY <1>7, ReadTells
  <2>2. at + 1 \in Lines
    BY <1>1, <1>2, RolesFit
  <2>3. Nests(Line, Role[Parent(at + 1)], NextRole)
    BY <1>2, <2>2, WellFormedLine DEF Line, NextRole
  <2>4. Line.key # "" /\ ~Line.dash
    BY <2>1, <2>3 DEF Nests, Heading, Sections
  <2>5. current'.model = <<Line.key>>
    <3>1. current' = InModel(<<PlainKey(Line)>>)
      BY <1>7 DEF ReadModel
    <3>2. PlainKey(Line) = Line.key
      BY <2>4 DEF PlainKey
    <3> DEFINE id == <<Line.key>>
    <3>3. current' = InModel(id)
      BY <3>1, <3>2
    <3> HIDE DEF id
    <3>4. current'.model = id
      BY <1>2, <3>3 DEF InModel, Pointers
    <3> QED BY <3>4 DEF id
  <2>6. current'.model # NoName
    <3>1. <<Line.key>>[1] = Line.key
      OBVIOUS
    <3>2. NoName[1] = ""
      BY DEF NoName
    <3> QED BY <2>4, <2>5, <3>1, <3>2
  <2>7. Moved("model")
    BY <2>6 DEF Moved
  <2> QED BY <1>6, <2>1, <2>7
<1>8. CASE ReadChain
  <2>1. NextRole = "chain"
    BY <1>8, ReadTells
  <2>2. current'.model = current.model /\ current.model # NoName
    BY <1>2, <1>8 DEF ReadChain, ChainLine, AtChain, InModel, Pointers
  <2>3. Moved("chain")
    BY <2>2 DEF Moved
  <2> QED BY <1>6, <2>1, <2>3
<1>9. CASE ReadStep
  <2>1. NextRole = "step"
    BY <1>9, ReadTells
  <2>2. current.model # NoName /\ current' = InStep(Len(Chain) + 1)
    BY <1>9 DEF ReadStep, StepLine, AtStep
  <2>3. Len(Chain) \in Nat
    BY <1>2, <2>2, StepIsRead DEF LoadInv
  <2>4. /\ current'.model = current.model /\ current'.step = Len(Chain) + 1
        /\ current'.in_taps = FALSE /\ current'.in_fading = FALSE
    BY <1>2, <2>2 DEF InStep, Pointers
  <2>5. Moved("step")
    BY <2>2, <2>3, <2>4 DEF Moved
  <2> QED BY <1>6, <2>1, <2>5
<1>10. CASE ReadTaps
  <2>1. NextRole = "taps"
    BY <1>10, ReadTells
  <2>2. current.step # 0
    BY <1>10 DEF ReadTaps, TapsLine, AtTaps
  <2>3. /\ current'.model = current.model /\ current'.step = current.step
        /\ current'.in_taps = TRUE
    BY <1>2, <1>10 DEF ReadTaps, Pointers
  <2>4. Moved("taps")
    BY <2>2, <2>3 DEF Moved
  <2> QED BY <1>6, <2>1, <2>4
<1>11. CASE ReadFading
  <2>1. NextRole = "fading"
    BY <1>11, ReadTells
  <2>2. current.step # 0
    BY <1>11 DEF ReadFading, FadingLine, AtFading
  <2>3. /\ current'.model = current.model /\ current'.step = current.step
        /\ current'.in_fading = TRUE
    BY <1>2, <1>11 DEF ReadFading, Pointers
  <2>4. Moved("fading")
    BY <2>2, <2>3 DEF Moved
  <2> QED BY <1>6, <2>1, <2>4
<1>12. CASE ReadTap
  <2>1. NextRole = "tap"
    BY <1>12, ReadTells
  <2>2. current.step # 0 /\ current.in_taps
    BY <1>12 DEF ReadTap, TapLine, AtTap
  <2>3. Len(Step.taps) \in Nat
    <3>1. Step.taps \in Seq(TapRec)
      BY <1>2, <2>2, StepIsRead DEF LoadInv, PointersInv
    <3> HIDE DEF TapRec
    <3> QED BY <3>1
  <2>4. /\ current'.model = current.model /\ current'.step = current.step
        /\ current'.tap = Len(Step.taps) + 1
        /\ UNCHANGED <<current.in_taps, current.in_fading>>
    BY <1>2, <1>12 DEF ReadTap, Pointers
  <2>5. Moved("tap")
    BY <2>2, <2>3, <2>4 DEF Moved
  <2> QED BY <1>6, <2>1, <2>5
<1> QED BY <1>5, <1>7, <1>8, <1>9, <1>10, <1>11, <1>12 DEF ModelLineRead

LEMMA ReaderKeepsNest ==
  ASSUME LoadInv, NestInv, ReadLine, UNCHANGED <<folded, synthesized>>
  PROVE  NestInv'
<1>1. FileInv
  BY DEF LoadInv
<1>2. CASE ReadSection \/ SkipLine \/ ReadRuntime \/ ReadDevice \/ ReadLink
  <2>1. Consumed
    BY <1>2 DEF ReadSection, SkipLine, ReadRuntime, ReadDevice, ReadLink, RuntimeLine,
         DeviceLine, LinkLine, ItemLine, Reading, Consume, Consumed
  <2> QED BY <1>1, <1>2, <2>1, TopLinesKnown, KnownKeepsNest DEF KnownAfter
<1>3. CASE ModelLineRead
  BY <1>1, <1>3, ModelLineConsumes, ModelLinesKnown, KnownKeepsNest DEF KnownAfter
<1>4. CASE ReadFails
  <2>1. ~WellFormed /\ file' = file /\ phase' = "rejected"
    BY <1>1, <1>4, Expected DEF ReadFails, readerVars
  <2> QED BY <2>1, SameRoles DEF NestInv, WellFormedIsRead
<1>5. CASE EndOfFile
  BY <1>5, SameRoles DEF EndOfFile, readerVars, NestInv, WellFormedIsRead
<1> QED BY <1>2, <1>3, <1>4, <1>5 DEF ReadLine, ModelLineRead

LEMMA NestInvariant == Spec => []NestInv
<1>1. Init => NestInv
  BY FilesAssumption DEF Init, ReaderInit, NestInv, WellFormedIsRead
<1>2. LoadInv /\ NestInv /\ [Next]_vars => NestInv'
  <2> SUFFICES ASSUME LoadInv, NestInv, [Next]_vars PROVE NestInv'
    OBVIOUS
  <2>1. CASE ReadLine /\ UNCHANGED <<folded, synthesized>>
    BY <2>1, ReaderKeepsNest
  <2>2. CASE FoldNothing \/ FoldCached \/ FoldClone \/ FoldsDone \/ ValidateConfig
             \/ CreateProcessor
    <3>1. UNCHANGED <<file, at>> /\ phase \notin {"reading", "rejected"} /\ phase' # "reading"
      BY <2>2 DEF FoldNothing, FoldCached, FoldClone, FoldsDone, ValidateConfig,
         CreateProcessor,
                  Judge, Folding, NextLink, readerVars
    <3>2. at \in Nat /\ Len(file) \in Nat
      BY FilesAssumption DEF LoadInv, FileInv
    <3> QED BY <3>1, <3>2 DEF NestInv, WellFormedIsRead
  <2>3. CASE UNCHANGED vars
    <3>1. UNCHANGED <<file, at, phase, section, current>>
      BY <2>3 DEF vars, readerVars
    <3>2. \A p : Known(p)' = Known(p) /\ Open(p)' = Open(p)
      BY <3>1, SameRoles DEF Known, NoneNested, Open, Heading, Empty, Word
    <3> QED BY <3>1, <3>2, SameRoles DEF NestInv, WellFormedIsRead
  <2> QED BY <2>1, <2>2, <2>3 DEF Next
<1> QED BY LoadInvariant, <1>1, <1>2, PTL DEF Spec

\* A file whose lines are nested as the documents show, and whose keys and values are
\* known, is read to its end by load_config_file whatever blocks it has and in whatever
\* order: no line of it throws.
THEOREM NoneRefused == Spec => []WellFormedIsRead
<1>1. NestInv => WellFormedIsRead
  BY DEF NestInv, WellFormedIsRead
<1> QED BY NestInvariant, <1>1, PTL

(***************************************************************************)
(* Ranks: the lines of a set, in their order.                              *)
(***************************************************************************)

LEMMA RankSet ==
  ASSUME NEW n \in Nat, NEW S \in SUBSET (1..n), NEW i \in Nat
  PROVE  /\ IsFiniteSet(S) /\ Cardinality(S) \in Nat
         /\ IsFiniteSet({j \in S : j <= i})
         /\ Rank(S, i) \in 0..Cardinality(S)
<1>1. IsFiniteSet(1..n)
  BY FS_Interval
<1>2. IsFiniteSet(S) /\ Cardinality(S) \in Nat
  BY <1>1, FS_Subset, FS_CardinalityType
<1> DEFINE T == {j \in S : j <= i}
<1>3. T \in SUBSET S
  OBVIOUS
<1>4. IsFiniteSet(T) /\ Cardinality(T) <= Cardinality(S) /\ Cardinality(T) \in Nat
  BY <1>2, <1>3, FS_Subset, FS_CardinalityType
<1> QED BY <1>2, <1>4 DEF Rank

LEMMA RankGrows ==
  ASSUME NEW n \in Nat, NEW S \in SUBSET (1..n), NEW i \in Nat, NEW j \in S, i < j
  PROVE  Rank(S, i) < Rank(S, j)
<1> DEFINE T == {k \in S : k <= i}
           U == {k \in S : k <= j}
<1>1. IsFiniteSet(T) /\ IsFiniteSet(U) /\ Cardinality(T) \in Nat /\ j \in Nat
  <2>1. j \in Nat
    OBVIOUS
  <2> QED BY <2>1, RankSet, FS_CardinalityType
<1>2. j \notin T /\ T \cup {j} \in SUBSET U
  <2>1. j \in Nat /\ ~(j <= i) /\ j <= j
    OBVIOUS
  <2>2. ASSUME NEW k \in T PROVE k \in U
    <3>1. k \in Nat /\ k \in S /\ k <= i
      OBVIOUS
    <3> QED BY <2>1, <3>1
  <2> QED BY <2>1, <2>2
<1>3. Cardinality(T \cup {j}) = Cardinality(T) + 1
  BY <1>1, <1>2, FS_AddElement
<1>4. Cardinality(T \cup {j}) <= Cardinality(U) /\ Cardinality(U) \in Nat
  <2> HIDE DEF T, U
  <2> QED BY <1>1, <1>2, FS_Subset, FS_CardinalityType
<1> QED BY <1>1, <1>3, <1>4 DEF Rank

\* Each place is the rank of exactly one line.
LEMMA RankIsPlace ==
  ASSUME NEW n \in Nat, NEW S \in SUBSET (1..n)
  PROVE  /\ \A i \in S : Rank(S, i) \in 1..Cardinality(S)
         /\ \A i, j \in S : Rank(S, i) = Rank(S, j) => i = j
         /\ \A r \in 1..Cardinality(S) : \E i \in S : Rank(S, i) = r
<1> DEFINE C == Cardinality(S)
           f == [i \in S |-> Rank(S, i)]
<1>1. IsFiniteSet(S) /\ C \in Nat
  BY RankSet
<1>2. ASSUME NEW i \in S PROVE Rank(S, i) \in 1..C
  <2>1. i \in Nat /\ 0 \in Nat /\ 0 < i
    OBVIOUS
  <2>2. Rank(S, i) \in 0..C /\ Rank(S, 0) \in 0..C
    BY <2>1, RankSet
  <2>3. Rank(S, 0) < Rank(S, i)
    BY <2>1, RankGrows
  <2> QED BY <1>1, <2>2, <2>3
<1>3. ASSUME NEW i \in S, NEW j \in S, Rank(S, i) = Rank(S, j) PROVE i = j
  <2>1. i \in Nat /\ j \in Nat
    OBVIOUS
  <2>2. Rank(S, i) \in Int /\ Rank(S, j) \in Int
    BY <1>2
  <2>3. i < j => Rank(S, i) < Rank(S, j)
    BY <2>1, RankGrows
  <2>4. j < i => Rank(S, j) < Rank(S, i)
    BY <2>1, RankGrows
  <2> QED BY <1>3, <2>1, <2>2, <2>3, <2>4
<1>4. f \in Injection(S, 1..C)
  <2>1. f \in [S -> 1..C]
    BY <1>2
  <2>2. \A i, j \in S : f[i] = f[j] => i = j
    BY <1>3
  <2> HIDE DEF f
  <2> QED BY <2>1, <2>2 DEF Injection, IsInjective
<1>5. IsFiniteSet(1..C) /\ Cardinality(1..C) = C
  BY <1>1, FS_Interval
<1>6. f \in Surjection(S, 1..C)
  <2> HIDE DEF f
  <2> QED BY <1>1, <1>4, <1>5, FS_Injection
<1>7. ASSUME NEW r \in 1..C PROVE \E i \in S : Rank(S, i) = r
  <2>1. \E i \in S : f[i] = r
    <3> HIDE DEF f
    <3> QED BY <1>6 DEF Surjection
  <2> QED BY <2>1
<1> QED BY <1>2, <1>3, <1>7

\* A later line changes no rank, and comes last.
LEMMA RankKept ==
  ASSUME NEW n \in Nat, NEW S \in SUBSET (1..n)
  PROVE  /\ \A i \in 1..n : Rank(S \cup {n + 1}, i) = Rank(S, i)
         /\ Rank(S \cup {n + 1}, n + 1) = Cardinality(S) + 1
         /\ Cardinality(S \cup {n + 1}) = Cardinality(S) + 1
<1>1. ASSUME NEW i \in 1..n PROVE Rank(S \cup {n + 1}, i) = Rank(S, i)
  <2>1. {j \in S \cup {n + 1} : j <= i} = {j \in S : j <= i}
    OBVIOUS
  <2> QED BY <2>1 DEF Rank
<1>2. {j \in S \cup {n + 1} : j <= n + 1} = S \cup {n + 1}
  <2>1. \A j \in S \cup {n + 1} : j <= n + 1
    OBVIOUS
  <2> QED BY <2>1
<1>3. n + 1 \notin S /\ IsFiniteSet(S)
  <2>1. n + 1 \notin 1..n
    OBVIOUS
  <2>2. IsFiniteSet(S)
    BY RankSet
  <2> QED BY <2>1, <2>2
<1>4. Cardinality(S \cup {n + 1}) = Cardinality(S) + 1
  BY <1>3, FS_AddElement
<1> QED BY <1>1, <1>2, <1>4 DEF Rank

\* The last of the lines has the last place.
LEMMA LastRank ==
  ASSUME NEW n \in Nat, NEW S \in SUBSET (1..n), NEW i \in S, \A j \in S : j <= i
  PROVE  Rank(S, i) = Cardinality(S)
<1>1. {j \in S : j <= i} = S
  OBVIOUS
<1> QED BY <1>1 DEF Rank

(***************************************************************************)
(* Blocks in the order of their lines.                                     *)
(***************************************************************************)

\* What maps the lines of a set, and no other.
Over(f, S) == f = [i \in S |-> f[i]]

LEMMA ListedBlock ==
  ASSUME NEW n \in Nat, NEW S \in SUBSET (1..n), NEW f, Over(f, S)
  PROVE  /\ DOMAIN Listed(f) = 1..Cardinality(S) /\ Cardinality(S) \in Nat
         /\ Over(Listed(f), 1..Cardinality(S))
         /\ \A i \in S : Rank(S, i) \in 1..Cardinality(S) /\ Listed(f)[Rank(S, i)] = f[i]
<1>1. Listed(f) = [r \in 1..Cardinality(S) |-> f[CHOOSE i \in S : Rank(S, i) = r]]
  <2>1. DOMAIN f = S
    BY DEF Over
  <2> QED BY <2>1 DEF Listed
<1>2. Cardinality(S) \in Nat
  BY RankSet
<1>3. ASSUME NEW i \in S
      PROVE  Rank(S, i) \in 1..Cardinality(S) /\ Listed(f)[Rank(S, i)] = f[i]
  <2>1. Rank(S, i) \in 1..Cardinality(S)
    BY RankIsPlace
  <2>2. (CHOOSE j \in S : Rank(S, j) = Rank(S, i)) = i
    BY RankIsPlace
  <2> QED BY <1>1, <2>1, <2>2
<1> QED BY <1>1, <1>2, <1>3 DEF Over

LEMMA ListedIsSeq ==
  ASSUME NEW n \in Nat, NEW S \in SUBSET (1..n), NEW f, Over(f, S), NEW T,
         \A i \in S : f[i] \in T
  PROVE  Listed(f) \in Seq(T) /\ Len(Listed(f)) = Cardinality(S)
<1>1. /\ DOMAIN Listed(f) = 1..Cardinality(S) /\ Cardinality(S) \in Nat
      /\ Over(Listed(f), 1..Cardinality(S))
  BY ListedBlock
<1>2. ASSUME NEW r \in 1..Cardinality(S) PROVE Listed(f)[r] \in T
  <2>1. PICK i \in S : Rank(S, i) = r
    BY RankIsPlace
  <2>2. Listed(f)[Rank(S, i)] = f[i]
    BY ListedBlock
  <2> QED BY <2>1, <2>2
<1> QED BY <1>1, <1>2 DEF Over

\* A list with a block of f at the rank of each line is that of f.
Places(list, f, S) ==
  Over(list, 1..Cardinality(S)) /\ \A i \in S : list[Rank(S, i)] = f[i]

LEMMA ListedBy ==
  ASSUME NEW n \in Nat, NEW S \in SUBSET (1..n), NEW f, Over(f, S), NEW list,
         Places(list, f, S)
  PROVE  list = Listed(f)
<1>1. /\ Over(Listed(f), 1..Cardinality(S))
      /\ \A i \in S : Listed(f)[Rank(S, i)] = f[i]
  BY ListedBlock
<1>2. Over(list, 1..Cardinality(S)) /\ \A i \in S : list[Rank(S, i)] = f[i]
  BY DEF Places
<1>3. ASSUME NEW r \in 1..Cardinality(S) PROVE list[r] = Listed(f)[r]
  <2>1. PICK i \in S : Rank(S, i) = r
    BY RankIsPlace
  <2> QED BY <1>1, <1>2, <2>1
<1> QED BY <1>1, <1>2, <1>3 DEF Over

Agree(f, g, S)       == \A i \in S : g[i] = f[i]
AgreeBut(f, g, S, q) == \A i \in S \ {q} : g[i] = f[i]

\* A block that a later line opens comes at the end.
LEMMA ListedAppends ==
  ASSUME NEW n \in Nat, NEW S \in SUBSET (1..n), NEW f, Over(f, S),
         NEW g, Over(g, S \cup {n + 1}), Agree(f, g, S)
  PROVE  /\ Listed(g) = Append(Listed(f), g[n + 1])
         /\ Len(Listed(f)) = Cardinality(S)
<1> DEFINE s == Listed(f)
           T == {f[i] : i \in S} \cup {g[n + 1]}
           new == Append(s, g[n + 1])
           C == Cardinality(S)
<1>1. PICK U : U = S \cup {n + 1}
  OBVIOUS
<1>2. s \in Seq(T) /\ Len(s) = C /\ C \in Nat
  <2>1. \A i \in S : f[i] \in T
    OBVIOUS
  <2> HIDE DEF T
  <2> QED BY <2>1, ListedIsSeq, ListedBlock
<1>3. U \in SUBSET (1..(n + 1)) /\ n + 1 \in Nat
  BY <1>1
<1>4. Cardinality(U) = C + 1 /\ Rank(U, n + 1) = C + 1 /\ \A i \in S : Rank(U, i) = Rank(S, i)
  BY <1>1, RankKept
<1>5. \A i \in S : Rank(S, i) \in 1..C /\ s[Rank(S, i)] = f[i]
  BY ListedBlock
<1> HIDE DEF s, T, C
<1>6. /\ new = [r \in 1..(C + 1) |-> new[r]] /\ new[C + 1] = g[n + 1]
      /\ \A r \in 1..C : new[r] = s[r]
  BY <1>2
<1> HIDE DEF new
<1>7. ASSUME NEW i \in U PROVE new[Rank(U, i)] = g[i]
  <2>1. CASE i \in S
    <3>1. Rank(U, i) = Rank(S, i) /\ Rank(S, i) \in 1..C /\ s[Rank(S, i)] = f[i]
      BY <1>4, <1>5, <2>1
    <3> QED BY <1>6, <2>1, <3>1 DEF Agree
  <2>2. CASE i = n + 1
    BY <1>4, <1>6, <2>2
  <2> QED BY <1>1, <2>1, <2>2
<1>8. Over(g, U) /\ Places(new, g, U)
  BY <1>1, <1>4, <1>6, <1>7 DEF Over, Places
<1>9. new = Listed(g)
  BY <1>3, <1>8, ListedBy
<1> QED BY <1>2, <1>9 DEF new, s, C

Replaced(list, place, block) == [list EXCEPT ![place] = block]

\* A block that changes does so in its place.
LEMMA ListedExcept ==
  ASSUME NEW n \in Nat, NEW S \in SUBSET (1..n), NEW f, Over(f, S),
         NEW g, Over(g, S)
  PROVE  \A q \in S :
           AgreeBut(f, g, S, q) => Listed(g) = Replaced(Listed(f), Rank(S, q), g[q])
<1> SUFFICES ASSUME NEW q \in S, AgreeBut(f, g, S, q)
             PROVE  Listed(g) = Replaced(Listed(f), Rank(S, q), g[q])
  OBVIOUS
<1> DEFINE s == Listed(f)
           new == [s EXCEPT ![Rank(S, q)] = g[q]]
           C == Cardinality(S)
<1>1. DOMAIN s = 1..C /\ \A i \in S : Rank(S, i) \in 1..C /\ s[Rank(S, i)] = f[i]
  BY ListedBlock
<1>2. \A i \in S \ {q} : Rank(S, i) # Rank(S, q)
  BY RankIsPlace
<1> HIDE DEF s, C
<1>3. new = [r \in 1..C |-> new[r]]
  BY <1>1
<1>4. \A i \in S : new[Rank(S, i)] = g[i]
  BY <1>1, <1>2 DEF AgreeBut
<1> HIDE DEF new
<1>5. Places(new, g, S)
  BY <1>3, <1>4 DEF Over, Places, C
<1>6. new = Listed(g)
  BY <1>5, ListedBy
<1> QED BY <1>6 DEF new, s, Replaced

(***************************************************************************)
(* The last line of a key, and the block it settles.                       *)
(***************************************************************************)

LEMMA LastGrows ==
  ASSUME NEW n \in Nat, NEW S \in SUBSET (1..n), NEW k
  PROVE  /\ LastOf(S, k) \in {0} \cup S
         /\ LastOf(S, k) # 0 => file[LastOf(S, k)].key = k
         /\ LastOf(S, k) = 0 => \A i \in S : file[i].key # k
         /\ LastOf(S \cup {n + 1}, k) = IF file[n + 1].key = k THEN n + 1 ELSE LastOf(S, k)
<1> DEFINE T == {0} \cup {i \in S : file[i].key = k}
           U == {0} \cup {i \in S \cup {n + 1} : file[i].key = k}
<1>1. T \in SUBSET (0..n) /\ T # {} /\ U \in SUBSET (0..(n + 1)) /\ U # {} /\ n + 1 \in Nat
  <2>1. 1..n \subseteq 0..n /\ 0 \in 0..n /\ 0..n \subseteq 0..(n + 1) /\ n + 1 \in 0..(n + 1)
    OBVIOUS
  <2>2. T \in SUBSET (0..n) /\ 0 \in T /\ 0 \in U
    BY <2>1
  <2>3. ASSUME NEW i \in U PROVE i \in 0..(n + 1)
    <3>1. i = 0 \/ i \in S \/ i = n + 1
      OBVIOUS
    <3> QED BY <2>1, <3>1
  <2> QED BY <2>2, <2>3
<1>2. LastOf(S, k) = Max(T) /\ LastOf(S \cup {n + 1}, k) = Max(U)
  BY DEF LastOf
<1>3. Max(T) \in T /\ \A y \in T : y <= Max(T)
  <2> HIDE DEF T
  <2> QED BY <1>1, MaxIsIn
<1>4. Max(U) \in U /\ \A y \in U : y <= Max(U)
  <2> HIDE DEF U
  <2> QED BY <1>1, MaxIsIn
<1>5. ASSUME file[n + 1].key = k PROVE Max(U) = n + 1
  <2>1. n + 1 \in U /\ Max(U) \in 0..(n + 1)
    BY <1>1, <1>4, <1>5
  <2>2. n + 1 <= Max(U)
    BY <1>4, <2>1
  <2> QED BY <2>1, <2>2
<1>6. ASSUME file[n + 1].key # k PROVE Max(U) = Max(T)
  <2>1. U = T
    BY <1>6
  <2> HIDE DEF U, T
  <2> QED BY <2>1
<1>7. Max(T) = 0 => \A i \in S : file[i].key # k
  <2> SUFFICES ASSUME Max(T) = 0, NEW i \in S, file[i].key = k PROVE FALSE
    OBVIOUS
  <2>1. i \in T /\ i \in 1..n
    OBVIOUS
  <2>2. i <= 0
    BY <1>3, <2>1
  <2> QED BY <2>1, <2>2
<1>8. Max(T) \in {0} \cup S /\ (Max(T) # 0 => file[Max(T)].key = k)
  BY <1>3
<1> HIDE DEF T, U
<1> QED BY <1>2, <1>5, <1>6, <1>7, <1>8

LEMMA LastOfNone ==
  ASSUME NEW k
  PROVE  LastOf({}, k) = 0
<1>1. {} \in SUBSET (1..0) /\ 0 \in Nat
  OBVIOUS
<1>2. LastOf({}, k) \in {0} \cup {}
  BY <1>1, LastGrows
<1> QED BY <1>2

LEMMA SettledNone ==
  ASSUME NEW block, Over(block, DOMAIN block), NEW keys
  PROVE  Settled(block, keys, {}) = block
<1>1. Settled(block, keys, {}) = [k \in DOMAIN block |-> block[k]]
  BY LastOfNone DEF Settled
<1> QED BY <1>1 DEF Over

\* One line more puts its value.
LEMMA SettledGrows ==
  ASSUME NEW n \in Nat, NEW S \in SUBSET (1..n), NEW block, NEW keys
  PROVE  Settled(block, keys, S \cup {n + 1})
           = Apply(Settled(block, keys, S), keys, file[n + 1].key, file[n + 1].value)
<1> DEFINE old == Settled(block, keys, S)
           new == Settled(block, keys, S \cup {n + 1})
           key == file[n + 1].key
           v == Parsed(keys[key], file[n + 1].value)
<1>1. /\ DOMAIN old = DOMAIN block /\ new = [k \in DOMAIN block |-> new[k]]
      /\ old = [k \in DOMAIN block |-> old[k]]
  BY DEF Settled
<1>2. ASSUME NEW k \in DOMAIN block PROVE new[k] = IF k = key THEN v ELSE old[k]
  <2>1. LastOf(S \cup {n + 1}, k) = IF key = k THEN n + 1 ELSE LastOf(S, k)
    BY LastGrows
  <2>2. n + 1 # 0
    OBVIOUS
  <2> HIDE DEF v
  <2>3. /\ new[k] = IF LastOf(S \cup {n + 1}, k) = 0 THEN block[k]
                    ELSE Parsed(keys[k], file[LastOf(S \cup {n + 1}, k)].value)
        /\ old[k] = IF LastOf(S, k) = 0 THEN block[k]
                    ELSE Parsed(keys[k], file[LastOf(S, k)].value)
    BY DEF Settled
  <2>4. CASE k = key
    <3>1. new[k] = Parsed(keys[key], file[n + 1].value)
      BY <2>1, <2>2, <2>3, <2>4
    <3> QED BY <2>4, <3>1 DEF v
  <2>5. CASE k # key
    BY <2>1, <2>3, <2>5
  <2> QED BY <2>4, <2>5
<1> HIDE DEF old, new, v, key
<1>3. new = IF key \in DOMAIN old THEN [old EXCEPT ![key] = v] ELSE old
  BY <1>1, <1>2
<1>4. new = Apply(old, keys, file[n + 1].key, file[n + 1].value)
  BY <1>3 DEF Apply, key, v
<1> QED BY <1>4 DEF old, new

(***************************************************************************)
(* The lines of a role, one line further.                                  *)
(***************************************************************************)

LEMMA LinesOf ==
  ASSUME NEW n \in Nat, NEW role
  PROVE  /\ Having(role, n) \in SUBSET (1..n)
         /\ Having(role, n + 1) = IF Role[n + 1] = role THEN Having(role, n) \cup {n + 1}
                                  ELSE Having(role, n)
<1>1. 1..(n + 1) = 1..n \cup {n + 1}
  OBVIOUS
<1> QED BY <1>1 DEF Having

LEMMA LinesUnder ==
  ASSUME NEW n \in Nat, NEW i, NEW role
  PROVE  /\ Under(i, role, n) \in SUBSET (1..n)
         /\ Under(i, role, n + 1) = IF Role[n + 1] = role /\ Parent(n + 1) = i
                                    THEN Under(i, role, n) \cup {n + 1} ELSE Under(i, role, n)
BY LinesOf DEF Under

LEMMA LinesWithin ==
  ASSUME NEW n \in Nat, NEW i, NEW role
  PROVE  /\ Within(i, role, n) \in SUBSET (1..n)
         /\ Within(i, role, n + 1) = IF Role[n + 1] = role /\ Parent(Parent(n + 1)) = i
                                     THEN Within(i, role, n) \cup {n + 1}
                                     ELSE Within(i, role, n)
BY LinesOf DEF Within

ModelOf(i) == <<file[Parent(Parent(i))].key>>

LEMMA LinesOfSteps ==
  ASSUME NEW n \in Nat, NEW model
  PROVE  /\ StepsOf(model, n) \in SUBSET (1..n)
         /\ StepsOf(model, n + 1) = IF Role[n + 1] = "step" /\ ModelOf(n + 1) = model
                                    THEN StepsOf(model, n) \cup {n + 1} ELSE StepsOf(model, n)
BY LinesOf DEF StepsOf, ModelOf

LEMMA NoneAbove == Parent(0) = 0
<1> DEFINE T == {0} \cup {j \in 1..(0 - 1) : file[j].indent < file[0].indent}
<1>1. T \in SUBSET (0..0) /\ T # {} /\ 0 \in Nat
  OBVIOUS
<1>2. Max(T) \in 0..0
  <2> HIDE DEF T
  <2> QED BY <1>1, MaxIsIn
<1> QED BY <1>2 DEF Parent

\* No line is nested in a later one.
LEMMA NoneUnder ==
  ASSUME FileInv, NEW n \in Nat, n <= Len(file), NEW i \in Nat, i >= n, NEW role
  PROVE  Under(i, role, n) = {} /\ Within(i, role, n) = {}
<1>1. Lines = 1..Len(file) /\ Len(file) \in Nat
  BY FilesAssumption DEF FileInv, Lines
<1>2. ASSUME NEW j \in 1..n PROVE Parent(j) # i /\ Parent(Parent(j)) # i
  <2>1. j \in Lines
    BY <1>1
  <2>2. Parent(j) \in 0..(j - 1)
    BY <2>1, ParentIsBefore
  <2>3. CASE Parent(j) = 0
    <3>1. i # 0
      OBVIOUS
    <3> QED BY <2>3, <3>1, NoneAbove
  <2>4. CASE Parent(j) # 0
    <3>1. Parent(j) \in Lines /\ Parent(j) < n /\ Parent(j) \in Nat
      BY <1>1, <2>2, <2>4
    <3>2. Parent(Parent(j)) \in 0..(Parent(j) - 1)
      BY <3>1, ParentIsBefore
    <3> QED BY <3>1, <3>2
  <2> QED BY <2>3, <2>4
<1> QED BY <1>2 DEF Under, Within, Having

(***************************************************************************)
(* Devices, links and taps: a line opens one, or puts a value into one.    *)
(***************************************************************************)

ItemOf(i, key, fresh, keys, n) == Settled(fresh, keys, {i} \cup Under(i, key, n))

\* The function that Items lists.
ItemsOver(f, first, key, fresh, keys, n) ==
  Over(f, first) /\ \A i \in first : f[i] = ItemOf(i, key, fresh, keys, n)

LEMMA ItemsAre ==
  ASSUME NEW first, NEW key, NEW fresh, NEW keys, NEW n
  PROVE  \E f : /\ ItemsOver(f, first, key, fresh, keys, n)
                /\ Items(first, key, fresh, keys, n) = Listed(f)
<1> DEFINE f == [i \in first |-> ItemOf(i, key, fresh, keys, n)]
<1>1. ItemsOver(f, first, key, fresh, keys, n)
  BY DEF ItemsOver, Over
<1>2. Items(first, key, fresh, keys, n) = Listed(f)
  BY DEF Items, ItemOf
<1> HIDE DEF f
<1> QED BY <1>1, <1>2

LEMMA ItemsSame ==
  ASSUME NEW n \in Nat, NEW first, NEW key, NEW fresh, NEW keys,
         Role[n + 1] = key => Parent(n + 1) \notin first
  PROVE  Items(first, key, fresh, keys, n + 1) = Items(first, key, fresh, keys, n)
<1>1. ASSUME NEW i \in first
      PROVE  ItemOf(i, key, fresh, keys, n + 1) = ItemOf(i, key, fresh, keys, n)
  BY LinesUnder DEF ItemOf
<1>2. [i \in first |-> ItemOf(i, key, fresh, keys, n + 1)]
        = [i \in first |-> ItemOf(i, key, fresh, keys, n)]
  BY <1>1
<1> QED BY <1>2 DEF Items, ItemOf

LEMMA ItemsOpened ==
  ASSUME FileInv, NEW n \in Nat, n + 1 <= Len(file), NEW first \in SUBSET (1..n),
         NEW key, NEW fresh, NEW keys, Role[n + 1] # key, Over(fresh, DOMAIN fresh)
  PROVE  LET items == Items(first, key, fresh, keys, n)
             l == file[n + 1]
         IN  /\ Items(first \cup {n + 1}, key, fresh, keys, n + 1)
                  = Append(items, Apply(fresh, keys, l.key, l.value))
             /\ Len(items) = Cardinality(first)
<1> DEFINE item == Apply(fresh, keys, file[n + 1].key, file[n + 1].value)
<1>1. PICK f : /\ ItemsOver(f, first, key, fresh, keys, n)
               /\ Items(first, key, fresh, keys, n) = Listed(f)
  BY ItemsAre
<1>2. PICK U : U = first \cup {n + 1}
  OBVIOUS
<1>3. PICK g : /\ ItemsOver(g, U, key, fresh, keys, n + 1)
               /\ Items(U, key, fresh, keys, n + 1) = Listed(g)
  BY ItemsAre
<1>4. ASSUME NEW i \in first PROVE g[i] = f[i]
  <2>1. Under(i, key, n + 1) = Under(i, key, n)
    BY LinesUnder
  <2> QED BY <1>1, <1>2, <1>3, <2>1 DEF ItemOf, ItemsOver
<1>5. g[n + 1] = item
  <2>1. Under(n + 1, key, n + 1) = {}
    <3>1. n + 1 \in Nat /\ n + 1 >= n + 1
      OBVIOUS
    <3> QED BY <3>1, NoneUnder
  <2>2. {n + 1} \cup Under(n + 1, key, n + 1) = {} \cup {n + 1} /\ {} \in SUBSET (1..n)
    BY <2>1
  <2>3. g[n + 1] = Settled(fresh, keys, {} \cup {n + 1})
    BY <1>2, <1>3, <2>2 DEF ItemOf, ItemsOver
  <2>4. Settled(fresh, keys, {} \cup {n + 1}) =
          Apply(Settled(fresh, keys, {}), keys, file[n + 1].key, file[n + 1].value)
    BY <2>2, SettledGrows
  <2> QED BY <2>3, <2>4, SettledNone
<1>6. Over(f, first) /\ Over(g, first \cup {n + 1})
  BY <1>1, <1>2, <1>3 DEF ItemsOver
<1> HIDE DEF item
<1>7. Listed(g) = Append(Listed(f), g[n + 1]) /\ Len(Listed(f)) = Cardinality(first)
  <2>1. Agree(f, g, first)
    BY <1>4 DEF Agree
  <2> QED BY <1>6, <2>1, ListedAppends
<1> QED BY <1>1, <1>2, <1>3, <1>5, <1>7 DEF item

LEMMA ItemPut ==
  ASSUME NEW n \in Nat, NEW first \in SUBSET (1..n), NEW key, NEW fresh,
         NEW keys, Role[n + 1] = key, Parent(n + 1) \in first
  PROVE  LET items == Items(first, key, fresh, keys, n)
             l == file[n + 1]
         IN  /\ Items(first, key, fresh, keys, n + 1)
                  = [items EXCEPT ![Rank(first, Parent(n + 1))] =
                       Apply(@, keys, l.key, l.value)]
             /\ Rank(first, Parent(n + 1)) \in DOMAIN items
<1>1. PICK q \in first : Parent(n + 1) = q
  OBVIOUS
<1>2. PICK f : /\ ItemsOver(f, first, key, fresh, keys, n)
               /\ Items(first, key, fresh, keys, n) = Listed(f)
  BY ItemsAre
<1>3. PICK g : /\ ItemsOver(g, first, key, fresh, keys, n + 1)
               /\ Items(first, key, fresh, keys, n + 1) = Listed(g)
  BY ItemsAre
<1>4. ASSUME NEW i \in first \ {q} PROVE g[i] = f[i]
  <2>1. Under(i, key, n + 1) = Under(i, key, n)
    BY <1>1, LinesUnder
  <2> QED BY <1>2, <1>3, <2>1 DEF ItemOf, ItemsOver
<1>5. g[q] = Apply(f[q], keys, file[n + 1].key, file[n + 1].value)
  <2>1. /\ Under(q, key, n + 1) = Under(q, key, n) \cup {n + 1}
        /\ Under(q, key, n) \in SUBSET (1..n)
    BY <1>1, LinesUnder
  <2>2. PICK S : S = {q} \cup Under(q, key, n)
    OBVIOUS
  <2>3. S \in SUBSET (1..n) /\ {q} \cup Under(q, key, n + 1) = S \cup {n + 1}
    BY <2>1, <2>2
  <2>4. Settled(fresh, keys, S \cup {n + 1}) =
          Apply(Settled(fresh, keys, S), keys, file[n + 1].key, file[n + 1].value)
    BY <2>3, SettledGrows
  <2> QED BY <1>2, <1>3, <2>2, <2>3, <2>4 DEF ItemOf, ItemsOver
<1>6. Over(f, first) /\ Over(g, first)
  BY <1>2, <1>3 DEF ItemsOver
<1>7. Listed(g) = Replaced(Listed(f), Rank(first, q), g[q])
  <2>1. AgreeBut(f, g, first, q)
    BY <1>4 DEF AgreeBut
  <2>2. \A p \in first :
          AgreeBut(f, g, first, p) => Listed(g) = Replaced(Listed(f), Rank(first, p), g[p])
    BY <1>6, ListedExcept
  <2> QED BY <1>1, <2>1, <2>2
<1>8. /\ Listed(f)[Rank(first, q)] = f[q] /\ Rank(first, q) \in DOMAIN Listed(f)
  <2>1. Over(f, first)
    BY <1>6
  <2>2. /\ \A i \in first : /\ Rank(first, i) \in 1..Cardinality(first)
                           /\ Listed(f)[Rank(first, i)] = f[i]
        /\ DOMAIN Listed(f) = 1..Cardinality(first)
    BY <2>1, ListedBlock
  <2> QED BY <1>1, <2>2
<1> QED BY <1>1, <1>2, <1>3, <1>5, <1>7, <1>8 DEF Replaced

(***************************************************************************)
(* The runtime and the steps, one line further.                            *)
(***************************************************************************)

LEMMA RuntimeSays ==
  ASSUME NEW n \in Nat
  PROVE  /\ Role[n + 1] # "runtime key" => RuntimeSaid(n + 1) = RuntimeSaid(n)
         /\ Role[n + 1] = "runtime key"
              /\ Applies(RuntimeKeys, file[n + 1].key, file[n + 1].value) =>
              RuntimeSaid(n + 1)
                = ApplyRuntime(RuntimeSaid(n), file[n + 1].key, file[n + 1].value)
<1> DEFINE S == Having("runtime key", n)
           T == Having("runtime key", n + 1)
           key == file[n + 1].key
           v == file[n + 1].value
           old == Settled(DefaultRuntime, RuntimeKeys, S)
           new == Settled(DefaultRuntime, RuntimeKeys, T)
           Batch(lines) == LastOf(lines, "batch_samples")
           IsAuto(lines) == Batch(lines) = 0 \/ file[Batch(lines)].value = Word("auto")
           Size(lines) == IF IsAuto(lines) THEN 0 ELSE file[Batch(lines)].value.n
           Fields == {"backend", "batch_samples_auto", "batch_samples", "queue_samples"}
<1>1. S \in SUBSET (1..n)
  BY LinesOf
<1>2. /\ RuntimeSaid(n) = [old EXCEPT !.batch_samples_auto = IsAuto(S),
                                      !.batch_samples = Size(S)]
      /\ RuntimeSaid(n + 1) =
           [new EXCEPT !.batch_samples_auto = IsAuto(T), !.batch_samples = Size(T)]
  BY DEF RuntimeSaid
<1>3. DOMAIN DefaultRuntime = Fields
  BY DEF DefaultRuntime
<1>4. old = [f \in Fields |-> old[f]] /\ new = [f \in Fields |-> new[f]]
  BY <1>3 DEF Settled
<1> DEFINE a == RuntimeSaid(n)
           b == RuntimeSaid(n + 1)
<1>5. /\ a = [f \in Fields |-> a[f]] /\ b = [f \in Fields |-> b[f]]
      /\ a["batch_samples_auto"] = IsAuto(S) /\ a["batch_samples"] = Size(S)
      /\ b["batch_samples_auto"] = IsAuto(T) /\ b["batch_samples"] = Size(T)
      /\ \A f \in {"backend", "queue_samples"} : a[f] = old[f] /\ b[f] = new[f]
  <2> HIDE DEF old, new, IsAuto, Size
  <2> QED BY <1>2, <1>4
<1>6. ASSUME Role[n + 1] # "runtime key" PROVE RuntimeSaid(n + 1) = RuntimeSaid(n)
  <2>1. T = S
    BY <1>6, LinesOf
  <2> QED BY <1>2, <2>1
<1>7. ASSUME Role[n + 1] = "runtime key", Applies(RuntimeKeys, key, v)
      PROVE  RuntimeSaid(n + 1) = ApplyRuntime(RuntimeSaid(n), key, v)
  <2>1. T = S \cup {n + 1}
    BY <1>7, LinesOf
  <2>2. new = Apply(old, RuntimeKeys, key, v)
    <3>1. Settled(DefaultRuntime, RuntimeKeys, S \cup {n + 1})
            = Apply(Settled(DefaultRuntime, RuntimeKeys, S), RuntimeKeys, file[n + 1].key,
                    file[n + 1].value)
      BY <1>1, SettledGrows
    <3> QED BY <2>1, <3>1
  <2>3. Batch(T) = IF key = "batch_samples" THEN n + 1 ELSE Batch(S)
    <3>1. \A k : LastOf(S \cup {n + 1}, k) = IF file[n + 1].key = k THEN n + 1 ELSE LastOf(S, k)
      <4> HIDE DEF S
      <4> QED BY <1>1, LastGrows
    <3> QED BY <2>1, <3>1
  <2>4. key # "batch_samples_auto"
    BY <1>7 DEF Applies, RuntimeKeys
  <2>5. n + 1 # 0
    OBVIOUS
  <2>6. CASE key = "batch_samples"
    <3>1. Batch(T) = n + 1
      BY <2>3, <2>6
    <3>2. IsAuto(T) = (v = Word("auto")) /\ Size(T) = IF v = Word("auto") THEN 0 ELSE v.n
      BY <2>5, <3>1
    <3>3. \A f \in Fields \ {"batch_samples"} : new[f] = old[f]
      BY <1>4, <2>2, <2>6 DEF Apply
    <3> HIDE DEF old, new, IsAuto, Size, key, v, a, b
    <3>4. ApplyRuntime(a, key, v) = [a EXCEPT !["batch_samples_auto"] = (v = Word("auto")),
                               !["batch_samples"] = IF v = Word("auto") THEN 0 ELSE v.n]
      BY <2>6 DEF ApplyRuntime
    <3>5. \A f \in Fields : b[f] = ApplyRuntime(a, key, v)[f]
      BY <1>5, <3>2, <3>3, <3>4
    <3>6. ApplyRuntime(a, key, v) = [f \in Fields |-> ApplyRuntime(a, key, v)[f]]
      BY <1>5, <3>4
    <3>7. b = ApplyRuntime(a, key, v)
      BY <1>5, <3>5, <3>6
    <3> QED BY <3>7 DEF a, b
  <2>7. CASE key # "batch_samples"
    <3>1. IsAuto(T) = IsAuto(S) /\ Size(T) = Size(S)
      BY <2>3, <2>7
    <3> HIDE DEF old, new, IsAuto, Size, key, v
    <3> HIDE DEF a, b
    <3>2. ApplyRuntime(a, key, v) = Apply(a, RuntimeKeys, key, v)
      BY <2>7 DEF ApplyRuntime
    <3>3. DOMAIN old = Fields /\ DOMAIN a = Fields
      BY <1>4, <1>5
    <3>4. CASE key \in Fields
      <4> DEFINE p == Parsed(RuntimeKeys[key], v)
                 r == [a EXCEPT ![key] = p]
      <4>1. new = [old EXCEPT ![key] = p] /\ ApplyRuntime(a, key, v) = r
        BY <2>2, <3>2, <3>3, <3>4 DEF Apply
      <4> HIDE DEF p
      <4>2. key \in {"backend", "queue_samples"}
        BY <2>4, <2>7, <3>4
      <4>3. r = [f \in Fields |-> r[f]] /\ \A f \in Fields : r[f] = IF f = key THEN p ELSE a[f]
        BY <1>5
      <4>4. \A f \in Fields : new[f] = IF f = key THEN p ELSE old[f]
        BY <1>4, <4>1
      <4> HIDE DEF r
      <4>5. \A f \in Fields : b[f] = r[f]
        BY <1>5, <3>1, <4>2, <4>3, <4>4
      <4>6. b = r
        BY <1>5, <4>3, <4>5
      <4> QED BY <4>1, <4>6 DEF a, b
    <3>5. CASE key \notin Fields
      <4>1. new = old /\ ApplyRuntime(a, key, v) = a
        BY <2>2, <3>2, <3>3, <3>5 DEF Apply
      <4>2. \A f \in Fields : b[f] = a[f]
        BY <1>5, <3>1, <4>1
      <4>3. b = a
        BY <1>5, <4>2
      <4> QED BY <4>1, <4>3 DEF a, b
    <3> QED BY <3>4, <3>5
  <2> QED BY <2>6, <2>7
<1> QED BY <1>6, <1>7

\* What the lines of a step itself say.
TypeSaid(S)   == IF LastOf(S, "type") = 0 THEN DefaultStep.type
                 ELSE file[LastOf(S, "type")].value.w
ParamsSaid(S) == [k \in {file[j].key : j \in S} \ {"type"} |-> file[LastOf(S, k)].value.n]

LEMMA OwnGrows ==
  ASSUME NEW n \in Nat, NEW S \in SUBSET (1..n)
  PROVE  LET l == file[n + 1]
             T == S \cup {n + 1}
         IN  /\ l.key = "type" => TypeSaid(T) = l.value.w /\ ParamsSaid(T) = ParamsSaid(S)
             /\ l.key # "type" => /\ TypeSaid(T) = TypeSaid(S)
                                  /\ ParamsSaid(T) = Assigned(ParamsSaid(S), l.key, l.value.n)
<1> DEFINE key == file[n + 1].key
           T == S \cup {n + 1}
           K(lines) == {file[j].key : j \in lines} \ {"type"}
<1>1. \A k : LastOf(T, k) = IF key = k THEN n + 1 ELSE LastOf(S, k)
  BY LastGrows
<1>2. n + 1 # 0
  OBVIOUS
<1>3. key = "type" => TypeSaid(T) = file[n + 1].value.w
  <2> HIDE DEF T
  <2> QED BY <1>1, <1>2 DEF TypeSaid
<1>4. key # "type" => TypeSaid(T) = TypeSaid(S)
  <2> HIDE DEF T
  <2> QED BY <1>1 DEF TypeSaid
<1>5. K(T) = K(S) \cup ({key} \ {"type"})
  OBVIOUS
<1>6. \A k \in K(T) : ParamsSaid(T)[k] = file[LastOf(T, k)].value.n
  BY DEF ParamsSaid
<1>7. \A k \in K(S) : ParamsSaid(S)[k] = file[LastOf(S, k)].value.n
  BY DEF ParamsSaid
<1>8. /\ ParamsSaid(T) = [k \in K(T) |-> ParamsSaid(T)[k]]
      /\ ParamsSaid(S) = [k \in K(S) |-> ParamsSaid(S)[k]]
  BY DEF ParamsSaid
<1> HIDE DEF T, K, key
<1>9. ASSUME key = "type" PROVE ParamsSaid(T) = ParamsSaid(S)
  <2>1. K(T) = K(S) /\ key \notin K(T)
    BY <1>5, <1>9 DEF K
  <2>2. \A k \in K(T) : ParamsSaid(T)[k] = ParamsSaid(S)[k]
    BY <1>1, <1>6, <1>7, <2>1
  <2> QED BY <1>8, <2>1, <2>2
<1>10. ASSUME key # "type"
       PROVE  ParamsSaid(T) = Assigned(ParamsSaid(S), key, file[n + 1].value.n)
  <2>1. K(T) = K(S) \cup {key}
    BY <1>5, <1>10
  <2>2. \A k \in K(T) :
          ParamsSaid(T)[k] = IF k = key THEN file[n + 1].value.n ELSE ParamsSaid(S)[k]
    BY <1>1, <1>6, <1>7, <2>1
  <2>3. DOMAIN ParamsSaid(S) = K(S)
    BY <1>8
  <2> QED BY <1>8, <2>1, <2>2, <2>3 DEF Assigned
<1> QED BY <1>3, <1>4, <1>9, <1>10 DEF T, key

LEMMA OwnNone == TypeSaid({}) = DefaultStep.type /\ ParamsSaid({}) = <<>>
<1>1. TypeSaid({}) = DefaultStep.type
  BY LastOfNone DEF TypeSaid
<1>2. ParamsSaid({}) = [k \in {} |-> file[LastOf({}, k)].value.n]
  BY DEF ParamsSaid
<1>3. ParamsSaid({}) = <<>>
  BY <1>2
<1> QED BY <1>1, <1>3

OwnLines(i, n) == {i} \cup Under(i, "step key", n)
TapsSaid(i, n) == Items(Within(i, "tap", n), "tap key", DefaultTap, TapKeys, n)
FadingSaid(i, n) == Settled(DefaultFading, FadingKeys, Within(i, "fading key", n))

Opened(i, role, n) == Under(i, role, n) # {}

\* A step with these fields.
StepWith(type, params, taps, declared, fading, f_d, grid) ==
  [type |-> type, params |-> params, taps |-> taps, taps_declared |-> declared,
   fading_enabled |-> fading, f_d_max_hz |-> f_d, grid_us |-> grid]

LEMMA StepParts ==
  ASSUME NEW i, NEW n
  PROVE  StepSaid(i, n) =
           StepWith(TypeSaid(OwnLines(i, n)), ParamsSaid(OwnLines(i, n)), TapsSaid(i, n),
                    Opened(i, "taps", n), Opened(i, "fading", n),
                    FadingSaid(i, n).f_d_max_hz, FadingSaid(i, n).grid_us)
BY DEF StepSaid, TypeSaid, ParamsSaid, OwnLines, TapsSaid, FadingSaid, Opened, StepWith

\* The lines that a line of a role other than these adds to step i.
LEMMA PartsSame ==
  ASSUME NEW n \in Nat, NEW i
  PROVE  /\ ~(Role[n + 1] = "step key" /\ Parent(n + 1) = i) =>
              OwnLines(i, n + 1) = OwnLines(i, n)
         /\ /\ Role[n + 1] = "tap" => Parent(Parent(n + 1)) # i
            /\ Role[n + 1] = "tap key" => Parent(n + 1) \notin Within(i, "tap", n)
            => TapsSaid(i, n + 1) = TapsSaid(i, n)
         /\ ~(Role[n + 1] = "taps" /\ Parent(n + 1) = i) =>
              Opened(i, "taps", n + 1) = Opened(i, "taps", n)
         /\ ~(Role[n + 1] = "fading" /\ Parent(n + 1) = i) =>
              Opened(i, "fading", n + 1) = Opened(i, "fading", n)
         /\ ~(Role[n + 1] = "fading key" /\ Parent(Parent(n + 1)) = i) =>
              FadingSaid(i, n + 1) = FadingSaid(i, n)
<1>1. ~(Role[n + 1] = "step key" /\ Parent(n + 1) = i) => OwnLines(i, n + 1) = OwnLines(i, n)
  BY LinesUnder DEF OwnLines
<1>2. ASSUME Role[n + 1] = "tap" => Parent(Parent(n + 1)) # i,
             Role[n + 1] = "tap key" => Parent(n + 1) \notin Within(i, "tap", n)
      PROVE  TapsSaid(i, n + 1) = TapsSaid(i, n)
  <2>1. Within(i, "tap", n + 1) = Within(i, "tap", n)
    BY <1>2, LinesWithin
  <2>2. \A fresh, keys : Items(Within(i, "tap", n), "tap key", fresh, keys, n + 1)
                           = Items(Within(i, "tap", n), "tap key", fresh, keys, n)
    BY <1>2, ItemsSame
  <2> QED BY <2>1, <2>2 DEF TapsSaid
<1>3. ~(Role[n + 1] = "taps" /\ Parent(n + 1) = i) =>
        Opened(i, "taps", n + 1) = Opened(i, "taps", n)
  BY LinesUnder DEF Opened
<1>4. ~(Role[n + 1] = "fading" /\ Parent(n + 1) = i) =>
        Opened(i, "fading", n + 1) = Opened(i, "fading", n)
  BY LinesUnder DEF Opened
<1>5. ~(Role[n + 1] = "fading key" /\ Parent(Parent(n + 1)) = i) =>
        FadingSaid(i, n + 1) = FadingSaid(i, n)
  BY LinesWithin DEF FadingSaid
<1> QED BY <1>1, <1>2, <1>3, <1>4, <1>5

\* A line leaves the steps alone that it is not nested in.
NotIn(i, n) ==
  /\ Role[n + 1] \in {"step key", "taps", "fading"} => Parent(n + 1) # i
  /\ Role[n + 1] \in {"tap", "fading key"} => Parent(Parent(n + 1)) # i
  /\ Role[n + 1] = "tap key" => Parent(n + 1) \notin Within(i, "tap", n)

LEMMA StepSame ==
  ASSUME NEW n \in Nat, NEW i, NotIn(i, n)
  PROVE  StepSaid(i, n + 1) = StepSaid(i, n)
<1>1. /\ OwnLines(i, n + 1) = OwnLines(i, n) /\ TapsSaid(i, n + 1) = TapsSaid(i, n)
      /\ Opened(i, "taps", n + 1) = Opened(i, "taps", n)
      /\ Opened(i, "fading", n + 1) = Opened(i, "fading", n)
      /\ FadingSaid(i, n + 1) = FadingSaid(i, n)
  BY PartsSame DEF NotIn
<1> QED BY <1>1, StepParts

\* A block in which a field is set.
Put(s, field, v) == [s EXCEPT ![field] = v]

LEMMA StepPut ==
  ASSUME NEW type, NEW params, NEW taps, NEW declared, NEW fading, NEW f_d, NEW grid, NEW v
  PROVE  LET s == StepWith(type, params, taps, declared, fading, f_d, grid) IN
         /\ Put(s, "type", v) = StepWith(v, params, taps, declared, fading, f_d, grid)
         /\ Put(s, "params", v) = StepWith(type, v, taps, declared, fading, f_d, grid)
         /\ Put(s, "taps", v) = StepWith(type, params, v, declared, fading, f_d, grid)
         /\ Put(s, "taps_declared", v) = StepWith(type, params, taps, v, fading, f_d, grid)
         /\ Put(s, "fading_enabled", v) = StepWith(type, params, taps, declared, v, f_d, grid)
         /\ Put(s, "f_d_max_hz", v) = StepWith(type, params, taps, declared, fading, v, grid)
         /\ Put(s, "grid_us", v) = StepWith(type, params, taps, declared, fading, f_d, v)
<1> DEFINE s == StepWith(type, params, taps, declared, fading, f_d, grid)
<1>1. Put(s, "type", v) = StepWith(v, params, taps, declared, fading, f_d, grid)
  BY DEF Put, StepWith
<1>2. Put(s, "params", v) = StepWith(type, v, taps, declared, fading, f_d, grid)
  BY DEF Put, StepWith
<1>3. Put(s, "taps", v) = StepWith(type, params, v, declared, fading, f_d, grid)
  BY DEF Put, StepWith
<1>4. Put(s, "taps_declared", v) = StepWith(type, params, taps, v, fading, f_d, grid)
  BY DEF Put, StepWith
<1>5. Put(s, "fading_enabled", v) = StepWith(type, params, taps, declared, v, f_d, grid)
  BY DEF Put, StepWith
<1>6. Put(s, "f_d_max_hz", v) = StepWith(type, params, taps, declared, fading, v, grid)
  BY DEF Put, StepWith
<1>7. Put(s, "grid_us", v) = StepWith(type, params, taps, declared, fading, f_d, v)
  BY DEF Put, StepWith
<1> QED BY <1>1, <1>2, <1>3, <1>4, <1>5, <1>6, <1>7

LEMMA StepApplied ==
  ASSUME NEW type, NEW params, NEW taps, NEW declared, NEW fading, NEW f_d, NEW grid,
         NEW k, NEW v
  PROVE  LET s == StepWith(type, params, taps, declared, fading, f_d, grid) IN
         /\ k = "type" => ApplyStep(s, k, v) =
              StepWith(v.w, params, taps, declared, fading, f_d, grid)
         /\ k # "type" => ApplyStep(s, k, v) =
              StepWith(type, Assigned(params, k, v.n), taps, declared, fading, f_d, grid)
<1> DEFINE s == StepWith(type, params, taps, declared, fading, f_d, grid)
<1>1. s.params = params
  BY DEF StepWith
<1> HIDE DEF s
<1>2. k = "type" => ApplyStep(s, k, v) = Put(s, "type", v.w)
  BY DEF ApplyStep, Put
<1>3. k # "type" => ApplyStep(s, k, v) = Put(s, "params", Assigned(params, k, v.n))
  BY <1>1 DEF ApplyStep, Put
<1>4. Put(s, "type", v.w) = StepWith(v.w, params, taps, declared, fading, f_d, grid)
  BY StepPut DEF s
<1>5. Put(s, "params", Assigned(params, k, v.n))
        = StepWith(type, Assigned(params, k, v.n), taps, declared, fading, f_d, grid)
  BY StepPut DEF s
<1> QED BY <1>2, <1>3, <1>4, <1>5 DEF s

\* Lines that go on with what a step's own lines S say.
LEMMA OwnChanges ==
  ASSUME NEW n \in Nat, NEW S \in SUBSET (1..n)
  PROVE  \A T : T = S \cup {n + 1} => \A taps, declared, fading, f_d, grid :
           StepWith(TypeSaid(T), ParamsSaid(T), taps, declared, fading, f_d, grid)
             = ApplyStep(StepWith(TypeSaid(S), ParamsSaid(S), taps, declared, fading, f_d,
                                  grid), file[n + 1].key, file[n + 1].value)
<1> TAKE T
<1>1. HAVE T = S \cup {n + 1}
<1> TAKE taps, declared, fading, f_d, grid
<1>2. /\ file[n + 1].key = "type" =>
           TypeSaid(T) = file[n + 1].value.w /\ ParamsSaid(T) = ParamsSaid(S)
      /\ file[n + 1].key # "type" =>
           /\ TypeSaid(T) = TypeSaid(S)
           /\ ParamsSaid(T) = Assigned(ParamsSaid(S), file[n + 1].key, file[n + 1].value.n)
  BY <1>1, OwnGrows
<1>3. PICK old : old = StepWith(TypeSaid(S), ParamsSaid(S), taps, declared, fading, f_d, grid)
  OBVIOUS
<1>4. \A k, v :
        /\ k = "type" => ApplyStep(old, k, v) =
             StepWith(v.w, ParamsSaid(S), taps, declared, fading, f_d, grid)
        /\ k # "type" => ApplyStep(old, k, v) =
             StepWith(TypeSaid(S), Assigned(ParamsSaid(S), k, v.n), taps, declared, fading,
                      f_d, grid)
  BY <1>3, StepApplied
<1> QED BY <1>2, <1>3, <1>4

LEMMA StepKeySays ==
  ASSUME NEW n \in Nat, NEW i \in 1..n
  PROVE  Role[n + 1] = "step key" /\ Parent(n + 1) = i =>
           StepSaid(i, n + 1) = ApplyStep(StepSaid(i, n), file[n + 1].key, file[n + 1].value)
<1>1. HAVE Role[n + 1] = "step key" /\ Parent(n + 1) = i
<1>2. /\ TapsSaid(i, n + 1) = TapsSaid(i, n)
      /\ Opened(i, "taps", n + 1) = Opened(i, "taps", n)
      /\ Opened(i, "fading", n + 1) = Opened(i, "fading", n)
      /\ FadingSaid(i, n + 1) = FadingSaid(i, n)
  BY <1>1, PartsSame
<1>3. OwnLines(i, n + 1) = OwnLines(i, n) \cup {n + 1} /\ OwnLines(i, n) \in SUBSET (1..n)
  BY <1>1, LinesUnder DEF OwnLines
<1>4. PICK S \in SUBSET (1..n) : S = OwnLines(i, n)
  BY <1>3
<1>5. PICK T : T = OwnLines(i, n + 1)
  OBVIOUS
<1>6. T = S \cup {n + 1}
  BY <1>3, <1>4, <1>5
<1>7. \A taps, declared, fading, f_d, grid :
        StepWith(TypeSaid(T), ParamsSaid(T), taps, declared, fading, f_d, grid)
          = ApplyStep(StepWith(TypeSaid(S), ParamsSaid(S), taps, declared, fading, f_d,
                               grid), file[n + 1].key, file[n + 1].value)
  BY <1>6, OwnChanges
<1>8. /\ StepSaid(i, n) =
           StepWith(TypeSaid(S), ParamsSaid(S), TapsSaid(i, n), Opened(i, "taps", n),
                    Opened(i, "fading", n), FadingSaid(i, n).f_d_max_hz,
                    FadingSaid(i, n).grid_us)
      /\ StepSaid(i, n + 1) =
           StepWith(TypeSaid(T), ParamsSaid(T), TapsSaid(i, n), Opened(i, "taps", n),
                    Opened(i, "fading", n), FadingSaid(i, n).f_d_max_hz,
                    FadingSaid(i, n).grid_us)
  BY <1>2, <1>4, <1>5, StepParts
<1> QED BY <1>7, <1>8

\* The line that opens a step says it alone.
LEMMA StepOpenedSays ==
  ASSUME FileInv, NEW n \in Nat, n + 1 <= Len(file), Role[n + 1] = "step"
  PROVE  StepSaid(n + 1, n + 1) = ApplyStep(DefaultStep, file[n + 1].key, file[n + 1].value)
<1>1. \A role : Under(n + 1, role, n + 1) = {} /\ Within(n + 1, role, n + 1) = {}
  <2>1. n + 1 \in Nat /\ n + 1 >= n + 1
    OBVIOUS
  <2> QED BY <2>1, NoneUnder
<1>2. PICK S \in SUBSET (1..n) : S = {}
  OBVIOUS
<1>3. OwnLines(n + 1, n + 1) = S \cup {n + 1}
  BY <1>1, <1>2 DEF OwnLines
<1>4. TapsSaid(n + 1, n + 1) = <<>>
  <2>1. PICK f : /\ ItemsOver(f, {}, "tap key", DefaultTap, TapKeys, n + 1)
                 /\ Items({}, "tap key", DefaultTap, TapKeys, n + 1) = Listed(f)
    BY ItemsAre
  <2>2. {} \in SUBSET (1..0) /\ 0 \in Nat /\ Over(f, {})
    BY <2>1 DEF ItemsOver
  <2>3. Listed(f) \in Seq({}) /\ Len(Listed(f)) = Cardinality({})
    <3>1. \A i \in {} : f[i] \in {}
      OBVIOUS
    <3> QED BY <2>2, <3>1, ListedIsSeq
  <2>4. Listed(f) = <<>>
    BY <2>3, FS_EmptySet
  <2> QED BY <1>1, <2>1, <2>4 DEF TapsSaid
<1>5. FadingSaid(n + 1, n + 1) = DefaultFading
  <2>1. Over(DefaultFading, DOMAIN DefaultFading)
    BY DEF Over, DefaultFading
  <2> QED BY <1>1, <2>1, SettledNone DEF FadingSaid
<1>6. DefaultStep = StepWith(TypeSaid(S), ParamsSaid(S), <<>>, FALSE, FALSE,
                             DefaultFading.f_d_max_hz, DefaultFading.grid_us)
  <2>1. TypeSaid(S) = "tdl" /\ ParamsSaid(S) = <<>>
    <3>1. DefaultStep.type = "tdl"
      BY DEF DefaultStep
    <3> QED BY <1>2, <3>1, OwnNone
  <2>2. DefaultFading.f_d_max_hz = 0 /\ DefaultFading.grid_us = 100
    BY DEF DefaultStep, DefaultFading
  <2> QED BY <2>1, <2>2 DEF DefaultStep, StepWith
<1>7. \A taps, declared, fading, f_d, grid :
        StepWith(TypeSaid(OwnLines(n + 1, n + 1)), ParamsSaid(OwnLines(n + 1, n + 1)), taps,
                 declared, fading, f_d, grid)
          = ApplyStep(StepWith(TypeSaid(S), ParamsSaid(S), taps, declared, fading, f_d,
                               grid), file[n + 1].key, file[n + 1].value)
  BY <1>3, OwnChanges
<1>8. Opened(n + 1, "taps", n + 1) = FALSE /\ Opened(n + 1, "fading", n + 1) = FALSE
  BY <1>1 DEF Opened
<1>9. StepSaid(n + 1, n + 1) =
        StepWith(TypeSaid(OwnLines(n + 1, n + 1)), ParamsSaid(OwnLines(n + 1, n + 1)), <<>>,
                 FALSE, FALSE, DefaultFading.f_d_max_hz, DefaultFading.grid_us)
  BY <1>4, <1>5, <1>8, StepParts
<1> QED BY <1>6, <1>7, <1>9

\* A step one field of which is set.
LEMMA StepSet ==
  ASSUME NEW n, NEW i, NEW v
  PROVE  LET own == OwnLines(i, n)
             fading == FadingSaid(i, n)
         IN  /\ Put(StepSaid(i, n), "taps", v) =
                  StepWith(TypeSaid(own), ParamsSaid(own), v, Opened(i, "taps", n),
                           Opened(i, "fading", n), fading.f_d_max_hz, fading.grid_us)
             /\ Put(StepSaid(i, n), "taps_declared", v) =
                  StepWith(TypeSaid(own), ParamsSaid(own), TapsSaid(i, n), v,
                           Opened(i, "fading", n), fading.f_d_max_hz, fading.grid_us)
             /\ Put(StepSaid(i, n), "fading_enabled", v) =
                  StepWith(TypeSaid(own), ParamsSaid(own), TapsSaid(i, n),
                           Opened(i, "taps", n), v, fading.f_d_max_hz, fading.grid_us)
BY StepParts, StepPut

LEMMA StepOpens ==
  ASSUME NEW n \in Nat, NEW i \in 1..n
  PROVE  /\ Role[n + 1] = "taps" /\ Parent(n + 1) = i =>
              StepSaid(i, n + 1) = [StepSaid(i, n) EXCEPT !.taps_declared = TRUE]
         /\ Role[n + 1] = "fading" /\ Parent(n + 1) = i =>
              StepSaid(i, n + 1) = [StepSaid(i, n) EXCEPT !.fading_enabled = TRUE]
<1>1. ASSUME Role[n + 1] = "taps", Parent(n + 1) = i
      PROVE  StepSaid(i, n + 1) = Put(StepSaid(i, n), "taps_declared", TRUE)
  <2>1. /\ OwnLines(i, n + 1) = OwnLines(i, n) /\ TapsSaid(i, n + 1) = TapsSaid(i, n)
        /\ Opened(i, "fading", n + 1) = Opened(i, "fading", n)
        /\ FadingSaid(i, n + 1) = FadingSaid(i, n)
    BY <1>1, PartsSame
  <2>2. Opened(i, "taps", n + 1) = TRUE
    BY <1>1, LinesUnder DEF Opened
  <2>3. StepSaid(i, n + 1) =
          StepWith(TypeSaid(OwnLines(i, n)), ParamsSaid(OwnLines(i, n)), TapsSaid(i, n),
                   TRUE, Opened(i, "fading", n),
                   FadingSaid(i, n).f_d_max_hz, FadingSaid(i, n).grid_us)
    BY <2>1, <2>2, StepParts
  <2> QED BY <2>3, StepSet
<1>2. ASSUME Role[n + 1] = "fading", Parent(n + 1) = i
      PROVE  StepSaid(i, n + 1) = Put(StepSaid(i, n), "fading_enabled", TRUE)
  <2>1. /\ OwnLines(i, n + 1) = OwnLines(i, n) /\ TapsSaid(i, n + 1) = TapsSaid(i, n)
        /\ Opened(i, "taps", n + 1) = Opened(i, "taps", n)
        /\ FadingSaid(i, n + 1) = FadingSaid(i, n)
    BY <1>2, PartsSame
  <2>2. Opened(i, "fading", n + 1) = TRUE
    BY <1>2, LinesUnder DEF Opened
  <2>3. StepSaid(i, n + 1) =
          StepWith(TypeSaid(OwnLines(i, n)), ParamsSaid(OwnLines(i, n)), TapsSaid(i, n),
                   Opened(i, "taps", n), TRUE,
                   FadingSaid(i, n).f_d_max_hz, FadingSaid(i, n).grid_us)
    BY <2>1, <2>2, StepParts
  <2> QED BY <2>3, StepSet
<1> QED BY <1>1, <1>2 DEF Put

LEMMA TapSays ==
  ASSUME FileInv, NEW n \in Nat, n + 1 <= Len(file), NEW i \in 1..n
  PROVE  LET said == StepSaid(i, n)
             l == file[n + 1]
         IN  /\ said.taps = TapsSaid(i, n)
             /\ Role[n + 1] = "tap" /\ Parent(Parent(n + 1)) = i =>
                  /\ StepSaid(i, n + 1)
                       = [said EXCEPT !.taps = Append(@, Apply(DefaultTap, TapKeys, l.key,
                                                               l.value))]
                  /\ Len(said.taps) = Cardinality(Within(i, "tap", n))
             /\ Role[n + 1] = "tap key" /\ Parent(n + 1) \in Within(i, "tap", n) =>
                  /\ StepSaid(i, n + 1)
                       = [said EXCEPT !.taps[Rank(Within(i, "tap", n), Parent(n + 1))] =
                            Apply(@, TapKeys, l.key, l.value)]
                  /\ Rank(Within(i, "tap", n), Parent(n + 1)) \in DOMAIN said.taps
<1> DEFINE said == StepSaid(i, n)
           l == file[n + 1]
<1>1. said.taps = TapsSaid(i, n)
  BY StepParts DEF StepWith
<1>2. Role[n + 1] \in {"tap", "tap key"} =>
        /\ OwnLines(i, n + 1) = OwnLines(i, n)
        /\ Opened(i, "taps", n + 1) = Opened(i, "taps", n)
        /\ Opened(i, "fading", n + 1) = Opened(i, "fading", n)
        /\ FadingSaid(i, n + 1) = FadingSaid(i, n)
  BY PartsSame
<1>3. Role[n + 1] \in {"tap", "tap key"} =>
        StepSaid(i, n + 1) = [said EXCEPT !.taps = TapsSaid(i, n + 1)]
  <2> SUFFICES ASSUME Role[n + 1] \in {"tap", "tap key"}
               PROVE  StepSaid(i, n + 1) = Put(said, "taps", TapsSaid(i, n + 1))
    BY DEF Put
  <2>1. StepSaid(i, n + 1) =
          StepWith(TypeSaid(OwnLines(i, n)), ParamsSaid(OwnLines(i, n)), TapsSaid(i, n + 1),
                   Opened(i, "taps", n), Opened(i, "fading", n),
                   FadingSaid(i, n).f_d_max_hz, FadingSaid(i, n).grid_us)
    BY <1>2, StepParts
  <2> QED BY <2>1, StepSet
<1>4. ASSUME Role[n + 1] = "tap", Parent(Parent(n + 1)) = i
      PROVE  /\ TapsSaid(i, n + 1)
                  = Append(TapsSaid(i, n), Apply(DefaultTap, TapKeys, l.key, l.value))
             /\ Len(TapsSaid(i, n)) = Cardinality(Within(i, "tap", n))
  <2>1. PICK S \in SUBSET (1..n) : S = Within(i, "tap", n)
    BY LinesWithin
  <2>2. Within(i, "tap", n + 1) = S \cup {n + 1}
    BY <1>4, <2>1, LinesWithin
  <2>3. Over(DefaultTap, DOMAIN DefaultTap)
    BY DEF Over, DefaultTap
  <2>4. /\ Items(S \cup {n + 1}, "tap key", DefaultTap, TapKeys, n + 1)
             = Append(Items(S, "tap key", DefaultTap, TapKeys, n),
                      Apply(DefaultTap, TapKeys, l.key, l.value))
        /\ Len(Items(S, "tap key", DefaultTap, TapKeys, n)) = Cardinality(S)
    BY <1>4, <2>3, ItemsOpened
  <2> QED BY <2>1, <2>2, <2>4 DEF TapsSaid
<1>5. ASSUME Role[n + 1] = "tap key", Parent(n + 1) \in Within(i, "tap", n)
      PROVE  /\ TapsSaid(i, n + 1)
                  = [TapsSaid(i, n) EXCEPT ![Rank(Within(i, "tap", n), Parent(n + 1))] =
                       Apply(@, TapKeys, l.key, l.value)]
             /\ Rank(Within(i, "tap", n), Parent(n + 1)) \in DOMAIN TapsSaid(i, n)
  <2>1. PICK S \in SUBSET (1..n) : S = Within(i, "tap", n)
    BY LinesWithin
  <2>2. Within(i, "tap", n + 1) = S
    BY <1>5, <2>1, LinesWithin
  <2>3. Parent(n + 1) \in S
    BY <1>5, <2>1
  <2>4. /\ Items(S, "tap key", DefaultTap, TapKeys, n + 1)
             = [Items(S, "tap key", DefaultTap, TapKeys, n) EXCEPT
                  ![Rank(S, Parent(n + 1))] = Apply(@, TapKeys, l.key, l.value)]
        /\ Rank(S, Parent(n + 1)) \in DOMAIN Items(S, "tap key", DefaultTap, TapKeys, n)
    BY <1>5, <2>3, ItemPut
  <2> QED BY <2>1, <2>2, <2>4 DEF TapsSaid
<1> HIDE DEF l
<1>6. PICK s : s = said
  OBVIOUS
<1> HIDE DEF said
<1>7. ASSUME Role[n + 1] = "tap", Parent(Parent(n + 1)) = i
      PROVE  /\ StepSaid(i, n + 1)
                  = [said EXCEPT !.taps = Append(@, Apply(DefaultTap, TapKeys, l.key, l.value))]
             /\ Len(said.taps) = Cardinality(Within(i, "tap", n))
  BY <1>1, <1>3, <1>4, <1>7
<1>8. ASSUME Role[n + 1] = "tap key", Parent(n + 1) \in Within(i, "tap", n)
      PROVE  /\ StepSaid(i, n + 1)
                  = [said EXCEPT !.taps[Rank(Within(i, "tap", n), Parent(n + 1))] =
                       Apply(@, TapKeys, l.key, l.value)]
             /\ Rank(Within(i, "tap", n), Parent(n + 1)) \in DOMAIN said.taps
  <2>1. TapsSaid(i, n + 1) = [said.taps EXCEPT ![Rank(Within(i, "tap", n), Parent(n + 1))] =
                               Apply(@, TapKeys, l.key, l.value)]
    BY <1>1, <1>5, <1>8
  <2>2. Rank(Within(i, "tap", n), Parent(n + 1)) \in DOMAIN said.taps
    BY <1>1, <1>5, <1>8
  <2>3. StepSaid(i, n + 1) = [said EXCEPT !.taps = TapsSaid(i, n + 1)]
    BY <1>3, <1>8
  <2> DEFINE taps == [said.taps EXCEPT ![Rank(Within(i, "tap", n), Parent(n + 1))] =
                        Apply(@, TapKeys, l.key, l.value)]
  <2>5. [said EXCEPT !.taps = taps] =
          [said EXCEPT !.taps[Rank(Within(i, "tap", n), Parent(n + 1))] =
             Apply(@, TapKeys, l.key, l.value)]
    OBVIOUS
  <2>6. StepSaid(i, n + 1) = [said EXCEPT !.taps = taps]
    <3> HIDE DEF taps
    <3>1. TapsSaid(i, n + 1) = taps
      BY <2>1 DEF taps
    <3> QED BY <2>3, <3>1
  <2> HIDE DEF taps
  <2> QED BY <2>2, <2>5, <2>6
<1> QED BY <1>1, <1>7, <1>8 DEF said, l

LEMMA FadingKeySays ==
  ASSUME NEW n \in Nat, NEW i \in 1..n
  PROVE  /\ Role[n + 1] = "fading key" /\ Parent(Parent(n + 1)) = i
         /\ Applies(FadingKeys, file[n + 1].key, file[n + 1].value)
         => StepSaid(i, n + 1)
              = Apply(StepSaid(i, n), FadingKeys, file[n + 1].key, file[n + 1].value)
<1> DEFINE k == file[n + 1].key
           v == file[n + 1].value
           p == Parsed(FadingKeys[k], v)
<1>1. HAVE /\ Role[n + 1] = "fading key" /\ Parent(Parent(n + 1)) = i
           /\ Applies(FadingKeys, file[n + 1].key, file[n + 1].value)
<1>2. /\ OwnLines(i, n + 1) = OwnLines(i, n) /\ TapsSaid(i, n + 1) = TapsSaid(i, n)
      /\ Opened(i, "taps", n + 1) = Opened(i, "taps", n)
      /\ Opened(i, "fading", n + 1) = Opened(i, "fading", n)
  BY <1>1, PartsSame
<1>3. FadingSaid(i, n + 1) = Apply(FadingSaid(i, n), FadingKeys, k, v)
  <2>1. PICK S \in SUBSET (1..n) : S = Within(i, "fading key", n)
    BY LinesWithin
  <2>2. Within(i, "fading key", n + 1) = S \cup {n + 1}
    BY <1>1, <2>1, LinesWithin
  <2>3. Settled(DefaultFading, FadingKeys, S \cup {n + 1})
          = Apply(Settled(DefaultFading, FadingKeys, S), FadingKeys, file[n + 1].key,
                  file[n + 1].value)
    BY SettledGrows
  <2> QED BY <2>1, <2>2, <2>3 DEF FadingSaid
<1>4. /\ DOMAIN FadingSaid(i, n) = {"f_d_max_hz", "grid_us"}
      /\ FadingSaid(i, n) = [f \in {"f_d_max_hz", "grid_us"} |-> FadingSaid(i, n)[f]]
  <2>1. DOMAIN DefaultFading = {"f_d_max_hz", "grid_us"}
    BY DEF DefaultFading
  <2> QED BY <2>1 DEF FadingSaid, Settled
<1>5. k \in {"f_d_max_hz", "spectrum", "grid_us"}
  BY <1>1 DEF Applies, FadingKeys
<1>6. DOMAIN StepSaid(i, n) =
        {"type", "params", "taps", "taps_declared", "fading_enabled", "f_d_max_hz", "grid_us"}
  BY DEF StepSaid
<1>7. StepSaid(i, n + 1) =
        StepWith(TypeSaid(OwnLines(i, n)), ParamsSaid(OwnLines(i, n)), TapsSaid(i, n),
                 Opened(i, "taps", n), Opened(i, "fading", n),
                 FadingSaid(i, n + 1).f_d_max_hz, FadingSaid(i, n + 1).grid_us)
  BY <1>2, StepParts
<1> HIDE DEF k, v, p
<1>8. CASE k = "spectrum"
  <2>1. FadingSaid(i, n + 1) = FadingSaid(i, n)
    BY <1>3, <1>4, <1>8 DEF Apply
  <2>2. StepSaid(i, n + 1) = StepSaid(i, n)
    BY <1>7, <2>1, StepParts
  <2>3. Apply(StepSaid(i, n), FadingKeys, k, v) = StepSaid(i, n)
    BY <1>6, <1>8 DEF Apply
  <2> QED BY <2>2, <2>3 DEF k, v
<1>9. CASE k = "f_d_max_hz"
  <2>1. FadingSaid(i, n + 1) = [FadingSaid(i, n) EXCEPT ![k] = p]
    BY <1>3, <1>4, <1>9 DEF Apply, p
  <2>2. FadingSaid(i, n + 1).f_d_max_hz = p
        /\ FadingSaid(i, n + 1).grid_us = FadingSaid(i, n).grid_us
    BY <1>4, <1>9, <2>1
  <2>3. Apply(StepSaid(i, n), FadingKeys, k, v) = Put(StepSaid(i, n), "f_d_max_hz", p)
    BY <1>6, <1>9 DEF Apply, Put, p
  <2>4. StepSaid(i, n + 1) = Put(StepSaid(i, n), "f_d_max_hz", p)
    BY <1>7, <2>2, StepParts, StepPut
  <2> QED BY <2>3, <2>4 DEF k, v
<1>10. CASE k = "grid_us"
  <2>1. FadingSaid(i, n + 1) = [FadingSaid(i, n) EXCEPT ![k] = p]
    BY <1>3, <1>4, <1>10 DEF Apply, p
  <2>2. FadingSaid(i, n + 1).grid_us = p
        /\ FadingSaid(i, n + 1).f_d_max_hz = FadingSaid(i, n).f_d_max_hz
    BY <1>4, <1>10, <2>1
  <2>3. Apply(StepSaid(i, n), FadingKeys, k, v) = Put(StepSaid(i, n), "grid_us", p)
    BY <1>6, <1>10 DEF Apply, Put, p
  <2>4. StepSaid(i, n + 1) = Put(StepSaid(i, n), "grid_us", p)
    BY <1>7, <2>2, StepParts, StepPut
  <2> QED BY <2>3, <2>4 DEF k, v
<1> QED BY <1>5, <1>8, <1>9, <1>10

(***************************************************************************)
(* Chains and models, one line further.                                    *)
(***************************************************************************)

\* The function that ChainSaid lists.
StepsOver(f, model, n) ==
  Over(f, StepsOf(model, n)) /\ \A i \in StepsOf(model, n) : f[i] = StepSaid(i, n)

LEMMA StepsAre ==
  ASSUME NEW model, NEW n
  PROVE  \E f : StepsOver(f, model, n) /\ ChainSaid(model, n) = Listed(f)
<1> DEFINE f == [i \in StepsOf(model, n) |-> StepSaid(i, n)]
<1>1. StepsOver(f, model, n)
  BY DEF StepsOver, Over
<1>2. ChainSaid(model, n) = Listed(f)
  BY DEF ChainSaid
<1> HIDE DEF f
<1> QED BY <1>1, <1>2

\* The chain of a model that no line is nested in stays as it is.
Untouched(model, n) ==
  /\ Role[n + 1] = "step" => ModelOf(n + 1) # model
  /\ \A i \in StepsOf(model, n) : NotIn(i, n)

LEMMA ChainSame ==
  ASSUME NEW n \in Nat, NEW model, Untouched(model, n)
  PROVE  ChainSaid(model, n + 1) = ChainSaid(model, n)
<1>1. StepsOf(model, n + 1) = StepsOf(model, n)
  BY LinesOfSteps DEF Untouched
<1>2. \A i \in StepsOf(model, n) : StepSaid(i, n + 1) = StepSaid(i, n)
  BY StepSame DEF Untouched
<1>3. [i \in StepsOf(model, n) |-> StepSaid(i, n + 1)]
        = [i \in StepsOf(model, n) |-> StepSaid(i, n)]
  BY <1>2
<1> QED BY <1>1, <1>3 DEF ChainSaid

LEMMA ChainAppends ==
  ASSUME FileInv, NEW n \in Nat, n + 1 <= Len(file), Role[n + 1] = "step"
  PROVE  LET model == ModelOf(n + 1)
             l == file[n + 1]
         IN  /\ ChainSaid(model, n + 1)
                  = Append(ChainSaid(model, n), ApplyStep(DefaultStep, l.key, l.value))
             /\ Len(ChainSaid(model, n)) = Cardinality(StepsOf(model, n))
<1>1. PICK model : model = ModelOf(n + 1)
  OBVIOUS
<1>2. PICK S \in SUBSET (1..n) : S = StepsOf(model, n)
  BY LinesOfSteps
<1>3. StepsOf(model, n + 1) = S \cup {n + 1}
  BY <1>1, <1>2, LinesOfSteps
<1>4. PICK f : StepsOver(f, model, n) /\ ChainSaid(model, n) = Listed(f)
  BY StepsAre
<1>5. PICK g : StepsOver(g, model, n + 1) /\ ChainSaid(model, n + 1) = Listed(g)
  BY StepsAre
<1>6. Over(f, S) /\ Over(g, S \cup {n + 1})
  BY <1>2, <1>3, <1>4, <1>5 DEF StepsOver
<1>7. Agree(f, g, S)
  <2>1. \A i : StepSaid(i, n + 1) = StepSaid(i, n)
    BY StepSame DEF NotIn
  <2> QED BY <1>2, <1>3, <1>4, <1>5, <2>1 DEF Agree, StepsOver
<1>8. g[n + 1] = ApplyStep(DefaultStep, file[n + 1].key, file[n + 1].value)
  BY <1>3, <1>5, StepOpenedSays DEF StepsOver
<1>9. Listed(g) = Append(Listed(f), g[n + 1]) /\ Len(Listed(f)) = Cardinality(S)
  BY <1>6, <1>7, ListedAppends
<1> QED BY <1>1, <1>2, <1>4, <1>5, <1>8, <1>9

LEMMA ChainPut ==
  ASSUME NEW n \in Nat, NEW model
  PROVE  \A q \in StepsOf(model, n) :
           LET place == Rank(StepsOf(model, n), q) IN
           /\ place \in DOMAIN ChainSaid(model, n) /\ place # 0
           /\ ChainSaid(model, n)[place] = StepSaid(q, n)
           /\ Role[n + 1] # "step" /\ (\A i \in StepsOf(model, n) \ {q} : NotIn(i, n)) =>
                ChainSaid(model, n + 1) =
                  Replaced(ChainSaid(model, n), place, StepSaid(q, n + 1))
<1>1. PICK S \in SUBSET (1..n) : S = StepsOf(model, n)
  BY LinesOfSteps
<1>2. PICK f : StepsOver(f, model, n) /\ ChainSaid(model, n) = Listed(f)
  BY StepsAre
<1>3. PICK g : StepsOver(g, model, n + 1) /\ ChainSaid(model, n + 1) = Listed(g)
  BY StepsAre
<1>4. Over(f, S)
  BY <1>1, <1>2 DEF StepsOver
<1>5. ASSUME NEW h, Over(h, S)
      PROVE  \A p \in S :
               AgreeBut(f, h, S, p) => Listed(h) = Replaced(Listed(f), Rank(S, p), h[p])
  BY <1>4, <1>5, ListedExcept
<1> SUFFICES ASSUME NEW q \in S
             PROVE  /\ Rank(S, q) \in DOMAIN ChainSaid(model, n) /\ Rank(S, q) # 0
                    /\ ChainSaid(model, n)[Rank(S, q)] = StepSaid(q, n)
                    /\ Role[n + 1] # "step" /\ (\A i \in S \ {q} : NotIn(i, n)) =>
                         ChainSaid(model, n + 1)
                           = Replaced(ChainSaid(model, n), Rank(S, q), StepSaid(q, n + 1))
  BY <1>1
<1>6. /\ Rank(S, q) \in DOMAIN Listed(f) /\ Rank(S, q) # 0
      /\ Listed(f)[Rank(S, q)] = f[q] /\ f[q] = StepSaid(q, n)
  <2>1. /\ \A i \in S : Rank(S, i) \in 1..Cardinality(S) /\ Listed(f)[Rank(S, i)] = f[i]
        /\ DOMAIN Listed(f) = 1..Cardinality(S) /\ Cardinality(S) \in Nat
    BY <1>4, ListedBlock
  <2>2. f[q] = StepSaid(q, n)
    BY <1>1, <1>2 DEF StepsOver
  <2> QED BY <2>1, <2>2
<1>7. ASSUME Role[n + 1] # "step", \A i \in S \ {q} : NotIn(i, n)
      PROVE  Listed(g) = Replaced(Listed(f), Rank(S, q), StepSaid(q, n + 1))
  <2>1. StepsOf(model, n + 1) = S
    BY <1>1, <1>7, LinesOfSteps
  <2>2. Over(g, S) /\ \A i \in S : g[i] = StepSaid(i, n + 1)
    BY <1>3, <2>1 DEF StepsOver
  <2>3. AgreeBut(f, g, S, q)
    <3>1. \A i \in S \ {q} : StepSaid(i, n + 1) = StepSaid(i, n)
      BY <1>7, StepSame
    <3> QED BY <1>1, <1>2, <2>2, <3>1 DEF AgreeBut, StepsOver
  <2>4. \A p \in S :
          AgreeBut(f, g, S, p) => Listed(g) = Replaced(Listed(f), Rank(S, p), g[p])
    BY <2>2, <1>5
  <2> QED BY <2>2, <2>3, <2>4
<1> QED BY <1>2, <1>3, <1>6, <1>7

Ids(n) == {<<file[i].key>> : i \in Having("model", n)}
ModelsSaid(n) == [model \in Ids(n) |-> [chain |-> ChainSaid(model, n)]]

\* The models in which the chain of one is another.
ModelsWith(models, model, chain) == [models EXCEPT ![model].chain = chain]

LEMMA IdsGrow ==
  ASSUME NEW n \in Nat
  PROVE  Ids(n + 1) = IF Role[n + 1] = "model" THEN Ids(n) \cup {<<file[n + 1].key>>}
                      ELSE Ids(n)
BY LinesOf DEF Ids

LEMMA ModelsSame ==
  ASSUME NEW n \in Nat, Role[n + 1] # "model", \A model \in Ids(n) : Untouched(model, n)
  PROVE  ModelsSaid(n + 1) = ModelsSaid(n)
<1>1. Ids(n + 1) = Ids(n)
  BY IdsGrow
<1>2. \A model \in Ids(n) : ChainSaid(model, n + 1) = ChainSaid(model, n)
  BY ChainSame
<1>3. [model \in Ids(n) |-> [chain |-> ChainSaid(model, n + 1)]]
        = [model \in Ids(n) |-> [chain |-> ChainSaid(model, n)]]
  BY <1>2
<1> QED BY <1>1, <1>3 DEF ModelsSaid

LEMMA ModelsPut ==
  ASSUME NEW n \in Nat, Role[n + 1] # "model"
  PROVE  \A model \in Ids(n) :
           (\A other \in Ids(n) \ {model} : Untouched(other, n)) =>
             ModelsSaid(n + 1) = ModelsWith(ModelsSaid(n), model, ChainSaid(model, n + 1))
<1> SUFFICES ASSUME NEW model \in Ids(n), \A other \in Ids(n) \ {model} : Untouched(other, n)
             PROVE  ModelsSaid(n + 1)
                      = ModelsWith(ModelsSaid(n), model, ChainSaid(model, n + 1))
  OBVIOUS
<1>1. Ids(n + 1) = Ids(n)
  BY IdsGrow
<1>2. \A other \in Ids(n) \ {model} : ChainSaid(other, n + 1) = ChainSaid(other, n)
  BY ChainSame
<1> DEFINE old == ModelsSaid(n)
           new == ModelsSaid(n + 1)
<1>3. /\ old = [m \in Ids(n) |-> old[m]] /\ new = [m \in Ids(n) |-> new[m]]
      /\ \A m \in Ids(n) : /\ old[m] = [chain |-> ChainSaid(m, n)]
                           /\ new[m] = [chain |-> ChainSaid(m, n + 1)]
  BY <1>1 DEF ModelsSaid
<1>4. \A c, d : [[chain |-> c] EXCEPT !.chain = d] = [chain |-> d]
  OBVIOUS
<1>5. ModelsWith(old, model, ChainSaid(model, n + 1))
        = [old EXCEPT ![model] = [chain |-> ChainSaid(model, n + 1)]]
  <2>1. [old[model] EXCEPT !.chain = ChainSaid(model, n + 1)]
          = [chain |-> ChainSaid(model, n + 1)]
    BY <1>3, <1>4
  <2> HIDE DEF old
  <2> QED BY <2>1 DEF ModelsWith
<1> HIDE DEF old, new
<1>6. new = [old EXCEPT ![model] = [chain |-> ChainSaid(model, n + 1)]]
  BY <1>2, <1>3
<1> QED BY <1>5, <1>6 DEF old, new

\* A model is added once, with an empty chain.
LEMMA ModelAdded ==
  ASSUME NEW n \in Nat, Role[n + 1] = "model",
         \A i \in Having("step", n) : ModelOf(i) \in Ids(n)
  PROVE  ModelsSaid(n + 1) = Emplaced(ModelsSaid(n), <<file[n + 1].key>>, [chain |-> <<>>])
<1>1. PICK id : id = <<file[n + 1].key>>
  OBVIOUS
<1>2. Ids(n + 1) = Ids(n) \cup {id}
  BY <1>1, IdsGrow
<1>3. \A model : ChainSaid(model, n + 1) = ChainSaid(model, n)
  BY ChainSame DEF Untouched, NotIn
<1> DEFINE old == ModelsSaid(n)
           new == ModelsSaid(n + 1)
<1>4. /\ old = [m \in Ids(n) |-> old[m]] /\ new = [m \in Ids(n) \cup {id} |-> new[m]]
      /\ \A m \in Ids(n) : old[m] = [chain |-> ChainSaid(m, n)]
      /\ \A m \in Ids(n) \cup {id} : new[m] = [chain |-> ChainSaid(m, n)]
  BY <1>2, <1>3 DEF ModelsSaid
<1>5. ASSUME id \notin Ids(n) PROVE ChainSaid(id, n) = <<>>
  <2>1. StepsOf(id, n) = {}
    BY <1>5 DEF StepsOf, ModelOf
  <2>2. PICK f : StepsOver(f, id, n) /\ ChainSaid(id, n) = Listed(f)
    BY StepsAre
  <2>3. {} \in SUBSET (1..0) /\ 0 \in Nat /\ Over(f, {})
    BY <2>1, <2>2 DEF StepsOver
  <2>4. Listed(f) \in Seq({}) /\ Len(Listed(f)) = Cardinality({})
    <3>1. \A i \in {} : f[i] \in {}
      OBVIOUS
    <3> QED BY <2>3, <3>1, ListedIsSeq
  <2> QED BY <2>2, <2>4, FS_EmptySet
<1> HIDE DEF old, new
<1>6. DOMAIN old = Ids(n)
  BY <1>4
<1>7. new = Emplaced(old, id, [chain |-> <<>>])
  <2>1. CASE id \in Ids(n)
    <3>1. new = old
      BY <1>4, <2>1
    <3> QED BY <1>6, <2>1, <3>1 DEF Emplaced
  <2>2. CASE id \notin Ids(n)
    <3>1. \A m \in Ids(n) \cup {id} : new[m] = IF m = id THEN [chain |-> <<>>] ELSE old[m]
      BY <1>4, <1>5, <2>2
    <3> QED BY <1>4, <1>6, <2>2, <3>1 DEF Emplaced, Assigned
  <2> QED BY <2>1, <2>2
<1> QED BY <1>1, <1>7 DEF old, new

(***************************************************************************)
(* The lines a line is nested in.                                          *)
(***************************************************************************)

LEMMA Before ==
  ASSUME NEW n \in Nat, NEW x \in 1..n, NEW y \in 1..(x - 1)
  PROVE  y \in 1..n
OBVIOUS

LEMMA ParentsRole ==
  ASSUME FileInv, WellFormed, NEW i \in Lines, Role[i] \notin Sections
  PROVE  /\ i \in Nat /\ Parent(i) \in Lines /\ Parent(i) \in 1..(i - 1)
         /\ Role[i] = "device" => Role[Parent(i)] = "devices"
         /\ Role[i] = "device key" => Role[Parent(i)] = "device"
         /\ Role[i] = "link" => Role[Parent(i)] = "links"
         /\ Role[i] = "link key" => Role[Parent(i)] = "link"
         /\ Role[i] = "model" => Role[Parent(i)] = "models"
         /\ Role[i] = "chain" => Role[Parent(i)] = "model"
         /\ Role[i] = "step" => Role[Parent(i)] = "chain"
         /\ Role[i] \in {"taps", "fading", "step key"} => Role[Parent(i)] = "step"
         /\ Role[i] = "tap" => Role[Parent(i)] = "taps"
         /\ Role[i] = "tap key" => Role[Parent(i)] = "tap"
         /\ Role[i] = "fading key" => Role[Parent(i)] = "fading"
<1>1. Nests(file[i], Role[Parent(i)], Role[i])
  BY WellFormedLine
<1>2. Role[Parent(i)] # "none"
  <2>1. ASSUME Role[Parent(i)] = "none" PROVE Role[i] \in Sections
    BY <1>1, <2>1 DEF Nests, Heading
  <2> QED BY <2>1
<1>3. i \in Nat /\ Parent(i) \in 0..(i - 1)
  BY ParentIsBefore
<1>4. Parent(i) # 0
  BY <1>2, RoleByParent
<1>5. i \in 1..Len(file) /\ Len(file) \in Nat
  BY FilesAssumption DEF FileInv, Lines
<1>6. Parent(i) \in 1..(i - 1) /\ Parent(i) \in Lines
  BY <1>3, <1>4, <1>5 DEF Lines
<1>7. \/ Role[i] = "runtime key" /\ Role[Parent(i)] = "runtime"
      \/ Role[i] = "device" /\ Role[Parent(i)] = "devices"
      \/ Role[i] = "device key" /\ Role[Parent(i)] = "device"
      \/ Role[i] = "link" /\ Role[Parent(i)] = "links"
      \/ Role[i] = "link key" /\ Role[Parent(i)] = "link"
      \/ Role[i] = "model" /\ Role[Parent(i)] = "models"
      \/ Role[i] = "chain" /\ Role[Parent(i)] = "model"
      \/ Role[i] = "step" /\ Role[Parent(i)] = "chain"
      \/ Role[i] = "taps" /\ Role[Parent(i)] = "step"
      \/ Role[i] = "fading" /\ Role[Parent(i)] = "step"
      \/ Role[i] = "step key" /\ Role[Parent(i)] = "step"
      \/ Role[i] = "tap" /\ Role[Parent(i)] = "taps"
      \/ Role[i] = "tap key" /\ Role[Parent(i)] = "tap"
      \/ Role[i] = "fading key" /\ Role[Parent(i)] = "fading"
  BY <1>1, <1>2, NestedLine
<1> QED BY <1>3, <1>6, <1>7

InnerRoles == {"step key", "taps", "fading", "tap", "fading key", "tap key"}

\* The step that a line of one of these roles is nested in.
StepAt(i) ==
  IF Role[i] \in {"step key", "taps", "fading"} THEN Parent(i)
  ELSE IF Role[i] \in {"tap", "fading key"} THEN Parent(Parent(i))
  ELSE Parent(Parent(Parent(i)))

LEMMA StepsHaveModels ==
  ASSUME FileInv, WellFormed, NEW n \in Nat, n <= Len(file)
  PROVE  \A i \in Having("step", n) : ModelOf(i) \in Ids(n) /\ i \in StepsOf(ModelOf(i), n)
<1> SUFFICES ASSUME NEW i \in Having("step", n)
             PROVE  ModelOf(i) \in Ids(n) /\ i \in StepsOf(ModelOf(i), n)
  OBVIOUS
<1>1. i \in 1..n /\ Role[i] = "step" /\ Lines = 1..Len(file) /\ Len(file) \in Nat
  BY FilesAssumption DEF Having, Lines, FileInv
<1>2. i \in Lines /\ Role[i] \notin Sections
  BY <1>1 DEF Sections
<1>3. Parent(i) \in Lines /\ Parent(i) \in 1..(i - 1) /\ Role[Parent(i)] = "chain"
  BY <1>1, <1>2, ParentsRole
<1>4. Role[Parent(i)] \notin Sections
  BY <1>3 DEF Sections
<1>5. Parent(Parent(i)) \in 1..(Parent(i) - 1) /\ Role[Parent(Parent(i))] = "model"
  BY <1>3, <1>4, ParentsRole
<1>6. Parent(Parent(i)) \in 1..n
  BY <1>1, <1>3, <1>5
<1> QED BY <1>1, <1>5, <1>6 DEF Ids, Having, ModelOf, StepsOf

LEMMA NestedInStep ==
  ASSUME FileInv, WellFormed, NEW n \in Nat, n + 1 <= Len(file), Role[n + 1] \in InnerRoles
  PROVE  /\ StepAt(n + 1) \in Having("step", n) /\ StepAt(n + 1) \in 1..n
         /\ StepAt(n + 1) \in StepsOf(ModelOf(StepAt(n + 1)), n)
         /\ ModelOf(StepAt(n + 1)) \in Ids(n)
         /\ \A i : i # StepAt(n + 1) => NotIn(i, n)
         /\ Role[n + 1] = "tap key" => Parent(n + 1) \in Within(StepAt(n + 1), "tap", n)
<1>1. n + 1 \in Lines /\ Lines = 1..Len(file) /\ Len(file) \in Nat
  BY FilesAssumption DEF Lines, FileInv
<1> DEFINE a == Parent(n + 1)
           b == Parent(a)
           c == Parent(b)
<1>2. Role[n + 1] \notin Sections
  BY DEF Sections, InnerRoles
<1>3. /\ a \in Lines /\ a \in 1..n
      /\ Role[n + 1] \in {"taps", "fading", "step key"} => Role[a] = "step"
      /\ Role[n + 1] = "tap" => Role[a] = "taps"
      /\ Role[n + 1] = "tap key" => Role[a] = "tap"
      /\ Role[n + 1] = "fading key" => Role[a] = "fading"
  <2>1. (n + 1) - 1 = n
    OBVIOUS
  <2> QED BY <1>1, <1>2, <2>1, ParentsRole
<1>4. Role[a] \in {"step", "taps", "fading", "tap"} => Role[a] \notin Sections
  BY DEF Sections
<1>5. Role[n + 1] \in {"tap", "tap key", "fading key"} =>
        /\ b \in Lines /\ b \in 1..n
        /\ Role[a] \in {"taps", "fading"} => Role[b] = "step"
        /\ Role[a] = "tap" => Role[b] = "taps"
  <2> SUFFICES ASSUME Role[n + 1] \in {"tap", "tap key", "fading key"}
               PROVE  /\ b \in Lines /\ b \in 1..n
                      /\ Role[a] \in {"taps", "fading"} => Role[b] = "step"
                      /\ Role[a] = "tap" => Role[b] = "taps"
    OBVIOUS
  <2>1. Role[a] \notin Sections
    BY <1>3, <1>4
  <2>2. /\ b \in Lines /\ b \in 1..(a - 1)
        /\ Role[a] \in {"taps", "fading"} => Role[b] = "step"
        /\ Role[a] = "tap" => Role[b] = "taps"
    <3> HIDE DEF a
    <3> QED BY <1>3, <2>1, ParentsRole
  <2>3. b \in 1..n
    BY <1>3, <2>2, Before
  <2> QED BY <2>2, <2>3
<1>6. Role[n + 1] = "tap key" => c \in 1..n /\ Role[c] = "step"
  <2> SUFFICES ASSUME Role[n + 1] = "tap key" PROVE c \in 1..n /\ Role[c] = "step"
    OBVIOUS
  <2>1. Role[b] = "taps" /\ b \in Lines /\ b \in 1..n
    BY <1>3, <1>5
  <2>2. Role[b] \notin Sections
    BY <2>1 DEF Sections
  <2>3. c \in 1..(b - 1) /\ Role[c] = "step"
    <3> HIDE DEF b
    <3> QED BY <2>1, <2>2, ParentsRole
  <2> QED BY <2>1, <2>3, Before
<1> HIDE DEF a, b, c
<1>7. /\ Role[n + 1] \in {"step key", "taps", "fading"} => StepAt(n + 1) = a
      /\ Role[n + 1] \in {"tap", "fading key"} => StepAt(n + 1) = b
      /\ Role[n + 1] = "tap key" => StepAt(n + 1) = c
  <2>1. Role[n + 1] \in {"step key", "taps", "fading"} => StepAt(n + 1) = a
    BY DEF StepAt, a
  <2>2. Role[n + 1] \in {"tap", "fading key"} => StepAt(n + 1) = b
    BY DEF StepAt, a, b
  <2>3. ASSUME Role[n + 1] = "tap key" PROVE StepAt(n + 1) = c
    BY <2>3 DEF StepAt, a, b, c
  <2> QED BY <2>1, <2>2, <2>3
<1>8. StepAt(n + 1) \in 1..n /\ Role[StepAt(n + 1)] = "step"
  <2>1. CASE Role[n + 1] \in {"step key", "taps", "fading"}
    <3>1. a \in 1..n /\ Role[a] = "step"
      BY <1>3, <2>1
    <3> QED BY <1>7, <2>1, <3>1
  <2>2. CASE Role[n + 1] \in {"tap", "fading key"}
    <3>1. Role[a] \in {"taps", "fading"}
      BY <1>3, <2>2
    <3>2. b \in 1..n /\ Role[b] = "step"
      BY <1>5, <2>2, <3>1
    <3> QED BY <1>7, <2>2, <3>2
  <2>3. CASE Role[n + 1] = "tap key"
    BY <1>6, <1>7, <2>3
  <2> QED BY <2>1, <2>2, <2>3 DEF InnerRoles
<1>9. StepAt(n + 1) \in Having("step", n)
  BY <1>8 DEF Having
<1>10. ModelOf(StepAt(n + 1)) \in Ids(n) /\ StepAt(n + 1) \in StepsOf(ModelOf(StepAt(n + 1)), n)
  <2>1. n <= Len(file)
    BY <1>1
  <2> QED BY <1>9, <2>1, StepsHaveModels
<1>11. ASSUME NEW i, i # StepAt(n + 1) PROVE NotIn(i, n)
  <2>1. Role[n + 1] \in {"step key", "taps", "fading"} => Parent(n + 1) # i
    BY <1>7, <1>11 DEF a
  <2>2. Role[n + 1] \in {"tap", "fading key"} => Parent(Parent(n + 1)) # i
    BY <1>7, <1>11 DEF a, b
  <2>3. Role[n + 1] = "tap key" => Parent(n + 1) \notin Within(i, "tap", n)
    BY <1>7, <1>11 DEF a, b, c, Within
  <2> QED BY <2>1, <2>2, <2>3 DEF NotIn
<1>12. Role[n + 1] = "tap key" => Parent(n + 1) \in Within(StepAt(n + 1), "tap", n)
  BY <1>3, <1>7 DEF a, b, c, Within, Having
<1> QED BY <1>8, <1>9, <1>10, <1>11, <1>12

(***************************************************************************)
(* The configuration, one line further.                                    *)
(***************************************************************************)

DevicesSaid(n) == Items(Having("device", n), "device key", DefaultDevice, DeviceKeys, n)
LinksSaid(n)   == Items(Having("link", n), "link key", DefaultLink, LinkKeys, n)

ConfigOf(runtime, devices, links, models) ==
  [runtime |-> runtime, devices |-> devices, links |-> links, models |-> models]

LEMMA SaidParts ==
  ASSUME NEW n
  PROVE  SaidBy(n) = ConfigOf(RuntimeSaid(n), DevicesSaid(n), LinksSaid(n), ModelsSaid(n))
BY DEF SaidBy, ConfigOf, DevicesSaid, LinksSaid, ModelsSaid, Ids

LEMMA OthersSame ==
  ASSUME FileInv, WellFormed, NEW n \in Nat, n + 1 <= Len(file)
  PROVE  /\ Role[n + 1] # "runtime key" => RuntimeSaid(n + 1) = RuntimeSaid(n)
         /\ Role[n + 1] \notin {"device", "device key"} => DevicesSaid(n + 1) = DevicesSaid(n)
         /\ Role[n + 1] \notin {"link", "link key"} => LinksSaid(n + 1) = LinksSaid(n)
         /\ Role[n + 1] \notin {"model", "step"} \cup InnerRoles =>
              ModelsSaid(n + 1) = ModelsSaid(n)
<1>1. Role[n + 1] # "runtime key" => RuntimeSaid(n + 1) = RuntimeSaid(n)
  BY RuntimeSays
<1>2. ASSUME Role[n + 1] \notin {"device", "device key"}
      PROVE  DevicesSaid(n + 1) = DevicesSaid(n)
  <2>1. Having("device", n + 1) = Having("device", n)
    BY <1>2, LinesOf
  <2>2. \A first : Items(first, "device key", DefaultDevice, DeviceKeys, n + 1)
                     = Items(first, "device key", DefaultDevice, DeviceKeys, n)
    BY <1>2, ItemsSame
  <2> QED BY <2>1, <2>2 DEF DevicesSaid
<1>3. ASSUME Role[n + 1] \notin {"link", "link key"} PROVE LinksSaid(n + 1) = LinksSaid(n)
  <2>1. Having("link", n + 1) = Having("link", n)
    BY <1>3, LinesOf
  <2>2. \A first : Items(first, "link key", DefaultLink, LinkKeys, n + 1)
                     = Items(first, "link key", DefaultLink, LinkKeys, n)
    BY <1>3, ItemsSame
  <2> QED BY <2>1, <2>2 DEF LinksSaid
<1>4. ASSUME Role[n + 1] \notin {"model", "step"} \cup InnerRoles
      PROVE  ModelsSaid(n + 1) = ModelsSaid(n)
  <2>1. \A model : Untouched(model, n)
    BY <1>4 DEF Untouched, NotIn, InnerRoles
  <2> QED BY <1>4, <2>1, ModelsSame
<1> QED BY <1>1, <1>2, <1>3, <1>4

LEMMA ItemsLen ==
  ASSUME NEW n \in Nat, NEW first \in SUBSET (1..n), NEW key, NEW fresh, NEW keys, NEW m
  PROVE  Len(Items(first, key, fresh, keys, m)) = Cardinality(first)
<1>1. PICK f : /\ ItemsOver(f, first, key, fresh, keys, m)
               /\ Items(first, key, fresh, keys, m) = Listed(f)
  BY ItemsAre
<1>2. Over(f, first)
  BY <1>1 DEF ItemsOver
<1>3. PICK T : T = {f[i] : i \in first}
  OBVIOUS
<1>4. \A i \in first : f[i] \in T
  BY <1>3
<1>5. Len(Listed(f)) = Cardinality(first)
  BY <1>2, <1>4, ListedIsSeq
<1> QED BY <1>1, <1>5

\* What the next line adds to what the lines before it say.
LEMMA TopSays ==
  ASSUME FileInv, WellFormed, NEW n \in Nat, n + 1 <= Len(file)
  PROVE  LET l == file[n + 1] IN
         /\ Role[n + 1] \in Sections \cup {"chain"} => SaidBy(n + 1) = SaidBy(n)
         /\ Role[n + 1] = "runtime key" =>
              SaidBy(n + 1) = ConfigOf(ApplyRuntime(RuntimeSaid(n), l.key, l.value),
                                       DevicesSaid(n), LinksSaid(n), ModelsSaid(n))
         /\ Role[n + 1] = "device" =>
              SaidBy(n + 1) = ConfigOf(RuntimeSaid(n),
                Append(DevicesSaid(n), Apply(DefaultDevice, DeviceKeys, l.key, l.value)),
                LinksSaid(n), ModelsSaid(n))
         /\ Role[n + 1] = "link" =>
              SaidBy(n + 1) = ConfigOf(RuntimeSaid(n), DevicesSaid(n),
                Append(LinksSaid(n), Apply(DefaultLink, LinkKeys, l.key, l.value)),
                ModelsSaid(n))
         /\ Role[n + 1] = "device key" =>
              SaidBy(n + 1) = ConfigOf(RuntimeSaid(n),
                [DevicesSaid(n) EXCEPT ![Rank(Having("device", n), Parent(n + 1))] =
                   Apply(@, DeviceKeys, l.key, l.value)],
                LinksSaid(n), ModelsSaid(n))
         /\ Role[n + 1] = "link key" =>
              SaidBy(n + 1) = ConfigOf(RuntimeSaid(n), DevicesSaid(n),
                [LinksSaid(n) EXCEPT ![Rank(Having("link", n), Parent(n + 1))] =
                   Apply(@, LinkKeys, l.key, l.value)],
                ModelsSaid(n))
         /\ Role[n + 1] = "model" =>
              SaidBy(n + 1) = ConfigOf(RuntimeSaid(n), DevicesSaid(n), LinksSaid(n),
                Emplaced(ModelsSaid(n), <<l.key>>, [chain |-> <<>>]))
<1> DEFINE l == file[n + 1]
<1>1. n + 1 \in Lines /\ Lines = 1..Len(file) /\ Len(file) \in Nat
  BY FilesAssumption DEF Lines, FileInv
<1>2. ASSUME Role[n + 1] \in Sections \cup {"chain"} PROVE SaidBy(n + 1) = SaidBy(n)
  <2>1. /\ Role[n + 1] # "runtime key" /\ Role[n + 1] \notin {"device", "device key"}
        /\ Role[n + 1] \notin {"link", "link key"}
        /\ Role[n + 1] \notin {"model", "step"} \cup InnerRoles
    BY <1>2 DEF Sections, InnerRoles
  <2> QED BY <2>1, OthersSame, SaidParts
<1>3. ASSUME Role[n + 1] = "runtime key"
      PROVE  SaidBy(n + 1) = ConfigOf(ApplyRuntime(RuntimeSaid(n), l.key, l.value),
                                      DevicesSaid(n), LinksSaid(n), ModelsSaid(n))
  <2>1. /\ Role[n + 1] \notin {"device", "device key"}
        /\ Role[n + 1] \notin {"link", "link key"}
        /\ Role[n + 1] \notin {"model", "step"} \cup InnerRoles
    BY <1>3 DEF InnerRoles
  <2>2. Applies(RuntimeKeys, l.key, l.value)
    BY <1>1, <1>3, KeysApply
  <2>3. RuntimeSaid(n + 1) = ApplyRuntime(RuntimeSaid(n), l.key, l.value)
    BY <1>3, <2>2, RuntimeSays
  <2> HIDE DEF l
  <2> QED BY <2>1, <2>3, OthersSame, SaidParts
<1>4. ASSUME Role[n + 1] \in {"device", "device key"}
      PROVE  SaidBy(n + 1) = ConfigOf(RuntimeSaid(n), DevicesSaid(n + 1), LinksSaid(n),
                                      ModelsSaid(n))
  <2>1. /\ Role[n + 1] # "runtime key" /\ Role[n + 1] \notin {"link", "link key"}
        /\ Role[n + 1] \notin {"model", "step"} \cup InnerRoles
    BY <1>4 DEF InnerRoles
  <2> QED BY <2>1, OthersSame, SaidParts
<1>5. ASSUME Role[n + 1] \in {"link", "link key"}
      PROVE  SaidBy(n + 1) = ConfigOf(RuntimeSaid(n), DevicesSaid(n), LinksSaid(n + 1),
                                      ModelsSaid(n))
  <2>1. /\ Role[n + 1] # "runtime key" /\ Role[n + 1] \notin {"device", "device key"}
        /\ Role[n + 1] \notin {"model", "step"} \cup InnerRoles
    BY <1>5 DEF InnerRoles
  <2> QED BY <2>1, OthersSame, SaidParts
<1>6. ASSUME Role[n + 1] = "model"
      PROVE  SaidBy(n + 1) = ConfigOf(RuntimeSaid(n), DevicesSaid(n), LinksSaid(n),
                Emplaced(ModelsSaid(n), <<l.key>>, [chain |-> <<>>]))
  <2>1. /\ Role[n + 1] # "runtime key" /\ Role[n + 1] \notin {"device", "device key"}
        /\ Role[n + 1] \notin {"link", "link key"}
    BY <1>6
  <2>2. n <= Len(file)
    BY <1>1
  <2>3. ModelsSaid(n + 1) = Emplaced(ModelsSaid(n), <<l.key>>, [chain |-> <<>>])
    BY <1>6, <2>2, StepsHaveModels, ModelAdded
  <2> QED BY <2>1, <2>3, OthersSame, SaidParts
<1>7. Role[n + 1] = "device" =>
        DevicesSaid(n + 1)
          = Append(DevicesSaid(n), Apply(DefaultDevice, DeviceKeys, l.key, l.value))
  <2> SUFFICES ASSUME Role[n + 1] = "device"
               PROVE  DevicesSaid(n + 1)
                        = Append(DevicesSaid(n),
                                 Apply(DefaultDevice, DeviceKeys, l.key, l.value))
    OBVIOUS
  <2>1. PICK S \in SUBSET (1..n) : S = Having("device", n)
    BY LinesOf
  <2>2. Having("device", n + 1) = S \cup {n + 1}
    BY <2>1, LinesOf
  <2>3. Over(DefaultDevice, DOMAIN DefaultDevice)
    BY DEF Over, DefaultDevice
  <2>4. Items(S \cup {n + 1}, "device key", DefaultDevice, DeviceKeys, n + 1)
          = Append(Items(S, "device key", DefaultDevice, DeviceKeys, n),
                   Apply(DefaultDevice, DeviceKeys, l.key, l.value))
    BY <2>3, ItemsOpened
  <2> HIDE DEF l
  <2> QED BY <2>1, <2>2, <2>4 DEF DevicesSaid
<1>8. Role[n + 1] = "link" =>
        LinksSaid(n + 1) = Append(LinksSaid(n), Apply(DefaultLink, LinkKeys, l.key, l.value))
  <2> SUFFICES ASSUME Role[n + 1] = "link"
               PROVE  LinksSaid(n + 1)
                        = Append(LinksSaid(n), Apply(DefaultLink, LinkKeys, l.key, l.value))
    OBVIOUS
  <2>1. PICK S \in SUBSET (1..n) : S = Having("link", n)
    BY LinesOf
  <2>2. Having("link", n + 1) = S \cup {n + 1}
    BY <2>1, LinesOf
  <2>3. Over(DefaultLink, DOMAIN DefaultLink)
    BY DEF Over, DefaultLink
  <2>4. Items(S \cup {n + 1}, "link key", DefaultLink, LinkKeys, n + 1)
          = Append(Items(S, "link key", DefaultLink, LinkKeys, n),
                   Apply(DefaultLink, LinkKeys, l.key, l.value))
    BY <2>3, ItemsOpened
  <2> HIDE DEF l
  <2> QED BY <2>1, <2>2, <2>4 DEF LinksSaid
<1>9. ASSUME Role[n + 1] = "device key"
      PROVE  DevicesSaid(n + 1)
               = [DevicesSaid(n) EXCEPT ![Rank(Having("device", n), Parent(n + 1))] =
                    Apply(@, DeviceKeys, l.key, l.value)]
  <2>1. PICK S \in SUBSET (1..n) : S = Having("device", n)
    BY LinesOf
  <2>2. Having("device", n + 1) = S
    BY <1>9, <2>1, LinesOf
  <2>3. Parent(n + 1) \in S
    <3>1. Role[n + 1] \notin Sections
      BY <1>9 DEF Sections
    <3>2. (n + 1) - 1 = n
      OBVIOUS
    <3>3. Parent(n + 1) \in 1..n /\ Role[Parent(n + 1)] = "device"
      BY <1>1, <1>9, <3>1, <3>2, ParentsRole
    <3> QED BY <2>1, <3>3 DEF Having
  <2>4. Items(S, "device key", DefaultDevice, DeviceKeys, n + 1)
          = [Items(S, "device key", DefaultDevice, DeviceKeys, n) EXCEPT
               ![Rank(S, Parent(n + 1))] = Apply(@, DeviceKeys, l.key, l.value)]
    BY <1>9, <2>3, ItemPut
  <2> QED BY <2>1, <2>2, <2>4 DEF DevicesSaid
<1>10. ASSUME Role[n + 1] = "link key"
      PROVE  LinksSaid(n + 1)
               = [LinksSaid(n) EXCEPT ![Rank(Having("link", n), Parent(n + 1))] =
                    Apply(@, LinkKeys, l.key, l.value)]
  <2>1. PICK S \in SUBSET (1..n) : S = Having("link", n)
    BY LinesOf
  <2>2. Having("link", n + 1) = S
    BY <1>10, <2>1, LinesOf
  <2>3. Parent(n + 1) \in S
    <3>1. Role[n + 1] \notin Sections
      BY <1>10 DEF Sections
    <3>2. (n + 1) - 1 = n
      OBVIOUS
    <3>3. Parent(n + 1) \in 1..n /\ Role[Parent(n + 1)] = "link"
      BY <1>1, <1>10, <3>1, <3>2, ParentsRole
    <3> QED BY <2>1, <3>3 DEF Having
  <2>4. Items(S, "link key", DefaultLink, LinkKeys, n + 1)
          = [Items(S, "link key", DefaultLink, LinkKeys, n) EXCEPT
               ![Rank(S, Parent(n + 1))] = Apply(@, LinkKeys, l.key, l.value)]
    BY <1>10, <2>3, ItemPut
  <2> QED BY <2>1, <2>2, <2>4 DEF LinksSaid
<1> HIDE DEF l
<1> QED BY <1>2, <1>3, <1>4, <1>5, <1>6, <1>7, <1>8, <1>9, <1>10 DEF l

\* A line nested in a model.
LEMMA ModelSays ==
  ASSUME FileInv, WellFormed, NEW n \in Nat, n + 1 <= Len(file)
  PROVE  /\ Role[n + 1] = "step" =>
              LET m == ModelOf(n + 1)
                  step == ApplyStep(DefaultStep, file[n + 1].key, file[n + 1].value)
              IN  SaidBy(n + 1) = ConfigOf(RuntimeSaid(n), DevicesSaid(n), LinksSaid(n),
                    ModelsWith(ModelsSaid(n), m, Append(ChainSaid(m, n), step)))
         /\ Role[n + 1] \in InnerRoles =>
              LET q == StepAt(n + 1)
                  m == ModelOf(q)
              IN  SaidBy(n + 1) = ConfigOf(RuntimeSaid(n), DevicesSaid(n), LinksSaid(n),
                    ModelsWith(ModelsSaid(n), m,
                      Replaced(ChainSaid(m, n), Rank(StepsOf(m, n), q), StepSaid(q, n + 1))))
<1>1. n + 1 \in Lines /\ Lines = 1..Len(file) /\ Len(file) \in Nat /\ n <= Len(file)
      /\ n + 1 \in Nat /\ n + 1 <= Len(file)
  BY FilesAssumption DEF Lines, FileInv
<1>2. Role[n + 1] \in {"step"} \cup InnerRoles =>
        SaidBy(n + 1) = ConfigOf(RuntimeSaid(n), DevicesSaid(n), LinksSaid(n),
                                 ModelsSaid(n + 1))
  <2> SUFFICES ASSUME Role[n + 1] \in {"step"} \cup InnerRoles
               PROVE  SaidBy(n + 1) = ConfigOf(RuntimeSaid(n), DevicesSaid(n), LinksSaid(n),
                                               ModelsSaid(n + 1))
    OBVIOUS
  <2>1. /\ Role[n + 1] # "runtime key" /\ Role[n + 1] \notin {"device", "device key"}
        /\ Role[n + 1] \notin {"link", "link key"}
    BY DEF InnerRoles
  <2> QED BY <2>1, OthersSame, SaidParts
<1>3. ASSUME Role[n + 1] = "step"
      PROVE  ModelsSaid(n + 1) = ModelsWith(ModelsSaid(n), ModelOf(n + 1),
               Append(ChainSaid(ModelOf(n + 1), n),
                      ApplyStep(DefaultStep, file[n + 1].key, file[n + 1].value)))
  <2>1. PICK m : m = ModelOf(n + 1)
    OBVIOUS
  <2>2. m \in Ids(n)
    <3>1. Parent(n + 1) \in Lines /\ Parent(n + 1) \in 1..n /\ Role[Parent(n + 1)] = "chain"
      <4>1. Role[n + 1] \notin Sections /\ (n + 1) - 1 = n
        BY <1>3 DEF Sections
      <4> QED BY <1>1, <1>3, <4>1, ParentsRole
    <3>2. Role[Parent(n + 1)] \notin Sections
      BY <3>1 DEF Sections
    <3>3. /\ Parent(Parent(n + 1)) \in 1..(Parent(n + 1) - 1)
          /\ Role[Parent(Parent(n + 1))] = "model"
      BY <3>1, <3>2, ParentsRole
    <3>4. Parent(Parent(n + 1)) \in 1..n
      BY <3>1, <3>3, Before
    <3> QED BY <2>1, <3>3, <3>4 DEF Ids, Having, ModelOf
  <2>3. \A other \in Ids(n) \ {m} : Untouched(other, n)
    BY <1>3, <2>1 DEF Untouched, NotIn
  <2>4. ModelsSaid(n + 1) = ModelsWith(ModelsSaid(n), m, ChainSaid(m, n + 1))
    <3>1. Role[n + 1] # "model"
      BY <1>3
    <3> QED BY <2>2, <2>3, <3>1, ModelsPut
  <2>5. ChainSaid(m, n + 1)
          = Append(ChainSaid(m, n), ApplyStep(DefaultStep, file[n + 1].key, file[n + 1].value))
    BY <1>3, <2>1, ChainAppends
  <2> QED BY <2>1, <2>4, <2>5
<1>4. ASSUME Role[n + 1] \in InnerRoles
      PROVE  LET q == StepAt(n + 1)
                 m == ModelOf(q)
             IN  ModelsSaid(n + 1) = ModelsWith(ModelsSaid(n), m,
                      Replaced(ChainSaid(m, n), Rank(StepsOf(m, n), q), StepSaid(q, n + 1)))
  <2>1. PICK q : q = StepAt(n + 1)
    OBVIOUS
  <2>2. PICK m : m = ModelOf(q)
    OBVIOUS
  <2>3. m \in Ids(n) /\ q \in StepsOf(m, n) /\ \A i : i # q => NotIn(i, n)
    BY <1>4, <2>1, <2>2, NestedInStep
  <2>4. Role[n + 1] # "step" /\ Role[n + 1] # "model"
    BY <1>4 DEF InnerRoles
  <2>5. ChainSaid(m, n + 1)
          = Replaced(ChainSaid(m, n), Rank(StepsOf(m, n), q), StepSaid(q, n + 1))
    BY <2>3, <2>4, ChainPut
  <2>6. \A other \in Ids(n) \ {m} : Untouched(other, n)
    <3>1. \A other : q \in StepsOf(other, n) => other = m
      BY <2>2 DEF StepsOf, ModelOf
    <3> QED BY <2>3, <2>4, <3>1 DEF Untouched
  <2>7. ModelsSaid(n + 1) = ModelsWith(ModelsSaid(n), m, ChainSaid(m, n + 1))
    BY <2>3, <2>4, <2>6, ModelsPut
  <2> QED BY <2>1, <2>2, <2>5, <2>7
<1> QED BY <1>2, <1>3, <1>4

(***************************************************************************)
(* Where the pointers are: on the blocks that the open lines opened.       *)
(***************************************************************************)

OnStep(q, n, pointers) ==
  /\ pointers.model = ModelOf(q)
  /\ pointers.step = Rank(StepsOf(ModelOf(q), n), q)

Placed(p, n, pointers) ==
  /\ Role[p] \in {"device", "link"} => \A j \in Having(Role[p], n) : j <= p
  /\ Role[p] = "model" => pointers.model = <<file[p].key>>
  /\ Role[p] = "chain" => pointers.model = <<file[Parent(p)].key>>
  /\ Role[p] = "step" => OnStep(p, n, pointers)
  /\ Role[p] \in {"taps", "fading"} => OnStep(Parent(p), n, pointers)
  /\ Role[p] = "tap" =>
       /\ OnStep(Parent(Parent(p)), n, pointers)
       /\ pointers.tap = Rank(Within(Parent(Parent(p)), "tap", n), p)

SaidInv ==
  /\ WellFormed /\ phase = "reading" =>
       config = SaidBy(at) /\ \A p \in 1..at : Open(p) => Placed(p, at, current)
  /\ WellFormed /\ AtEnd => parsed = SaidBy(Len(file))

\* The open lines the next one may be nested in stay where the pointers are, and the
\* next one gets there.
PlacedAfter ==
  /\ \A p \in 1..at :
       Open(p) /\ Placed(p, at, current) /\ file[p].indent < Line.indent =>
         Placed(p, at + 1, current')
  /\ Placed(at + 1, at + 1, current')

LEMMA SameSaid ==
  ASSUME file' = file
  PROVE  /\ \A n : SaidBy(n)' = SaidBy(n)
         /\ \A p, n : Placed(p, n, current)' = Placed(p, n, current')
<1>1. Role' = Role
  BY SameRoles
<1>2. \A n : SaidBy(n)' = SaidBy(n)
  BY <1>1, SMT DEF SaidBy, RuntimeSaid, Items, ChainSaid, StepSaid, Having, Under, Within,
     StepsOf, Settled, LastOf, Parent, Word
<1>3. \A p, n : Placed(p, n, current)' = Placed(p, n, current')
  BY <1>1, SMT DEF Placed, OnStep, ModelOf, StepsOf, Within, Having, Parent
<1> QED BY <1>2, <1>3

\* The pointers that a line of a role is read by are those that matter to it.
LEMMA PointedAlike ==
  ASSUME NEW p, NEW n, NEW c, NEW d, Placed(p, n, c),
         Role[p] \in {"model", "chain", "step", "taps", "fading", "tap"} => d.model = c.model,
         Role[p] \in {"step", "taps", "fading", "tap"} => d.step = c.step,
         Role[p] = "tap" => d.tap = c.tap
  PROVE  Placed(p, n, d)
BY DEF Placed, OnStep

\* One more line leaves the places of the blocks before it as they are.
LEMMA RanksKept ==
  ASSUME NEW n \in Nat, NEW q \in 1..n
  PROVE  /\ \A model : Rank(StepsOf(model, n + 1), q) = Rank(StepsOf(model, n), q)
         /\ \A i : Rank(Within(i, "tap", n + 1), q) = Rank(Within(i, "tap", n), q)
<1>1. ASSUME NEW S \in SUBSET (1..n) PROVE Rank(S \cup {n + 1}, q) = Rank(S, q)
  BY RankKept
<1>2. ASSUME NEW model
      PROVE  Rank(StepsOf(model, n + 1), q) = Rank(StepsOf(model, n), q)
  BY <1>1, LinesOfSteps
<1>3. ASSUME NEW i
      PROVE  Rank(Within(i, "tap", n + 1), q) = Rank(Within(i, "tap", n), q)
  BY <1>1, LinesWithin
<1> QED BY <1>2, <1>3

\* The step that a list of taps, the fading or a tap is in.
LEMMA StepAbove ==
  ASSUME FileInv, WellFormed, NEW p \in Lines
  PROVE  /\ Role[p] \in {"taps", "fading"} => Parent(p) \in 1..p /\ Role[Parent(p)] = "step"
         /\ Role[p] = "tap" =>
              Parent(Parent(p)) \in 1..p /\ Role[Parent(Parent(p))] = "step"
<1>1. /\ Role[p] \in {"taps", "fading", "tap"} => Role[p] \notin Sections
      /\ \A q : Role[q] = "taps" => Role[q] \notin Sections
  BY DEF Sections
<1>2. /\ p \in Nat
      /\ Role[p] \in {"taps", "fading", "tap"} =>
           Parent(p) \in Lines /\ Parent(p) \in 1..(p - 1)
      /\ Role[p] \in {"taps", "fading"} => Role[Parent(p)] = "step"
      /\ Role[p] = "tap" => Role[Parent(p)] = "taps"
  BY <1>1, ParentIsBefore, ParentsRole
<1>3. \A x \in 1..(p - 1) : x \in 1..p
  BY <1>2
<1>4. Role[p] = "tap" => /\ Parent(Parent(p)) \in 1..(Parent(p) - 1)
                         /\ Role[Parent(Parent(p))] = "step"
  BY <1>1, <1>2, ParentsRole
<1>5. Role[p] = "tap" => Parent(Parent(p)) \in 1..p
  BY <1>2, <1>3, <1>4, Before
<1> QED BY <1>2, <1>3, <1>4, <1>5

LEMMA PlacesStay ==
  ASSUME FileInv, WellFormed, NEW n \in Nat, n + 1 <= Len(file), NEW p \in 1..n, NEW c,
         Placed(p, n, c), Role[n + 1] \in {"device", "link"} => Role[p] # Role[n + 1]
  PROVE  Placed(p, n + 1, c)
<1>1. p \in Lines /\ Lines = 1..Len(file) /\ Len(file) \in Nat
  BY FilesAssumption DEF Lines, FileInv
<1>2. \A x \in 1..p : x \in 1..n
  OBVIOUS
<1>3. ASSUME NEW q \in 1..n PROVE OnStep(q, n, c) => OnStep(q, n + 1, c)
  BY RanksKept DEF OnStep
<1>4. Role[p] \in {"device", "link"} => \A j \in Having(Role[p], n + 1) : j <= p
  <2>1. Role[p] \in {"device", "link"} => Having(Role[p], n + 1) = Having(Role[p], n)
    BY LinesOf
  <2> QED BY <2>1 DEF Placed
<1>5. Role[p] = "step" => OnStep(p, n + 1, c)
  BY <1>3 DEF Placed
<1>6. Role[p] \in {"taps", "fading"} => OnStep(Parent(p), n + 1, c)
  <2>1. Role[p] \in {"taps", "fading"} => Parent(p) \in 1..n
    BY <1>1, <1>2, StepAbove
  <2> QED BY <1>3, <2>1 DEF Placed
<1>7. Role[p] = "tap" =>
       /\ OnStep(Parent(Parent(p)), n + 1, c)
       /\ c.tap = Rank(Within(Parent(Parent(p)), "tap", n + 1), p)
  <2>1. Role[p] = "tap" => Parent(Parent(p)) \in 1..n
    BY <1>1, <1>2, StepAbove
  <2>2. Rank(Within(Parent(Parent(p)), "tap", n + 1), p)
          = Rank(Within(Parent(Parent(p)), "tap", n), p)
    BY RanksKept
  <2> QED BY <1>3, <2>1, <2>2 DEF Placed
<1> QED BY <1>4, <1>5, <1>6, <1>7 DEF Placed

\* What keeps the invariant: the configuration is what one line more says.
LEMMA SaidStays ==
  ASSUME FileInv, SaidInv, Consumed, WellFormed => config' = SaidBy(at + 1) /\ PlacedAfter
  PROVE  SaidInv'
<1>1. at \in Nat /\ at' = at + 1 /\ file' = file /\ phase = "reading" /\ phase' = "reading"
  BY FilesAssumption DEF FileInv, Consumed
<1>2. WellFormed' = WellFormed
  BY <1>1, SameRoles
<1>3. ASSUME WellFormed
      PROVE  /\ config' = SaidBy(at + 1)
             /\ \A p \in 1..(at + 1) : Open(p)' => Placed(p, at + 1, current')
  <2>1. ASSUME NEW p \in 1..at, Open(p)' PROVE Placed(p, at + 1, current')
    <3>1. Open(p) /\ file[p].indent < Line.indent
      BY <2>1, StillOpen
    <3>2. Placed(p, at, current)
      BY <1>1, <1>3, <3>1 DEF SaidInv
    <3> QED BY <1>3, <3>1, <3>2 DEF PlacedAfter
  <2>2. Placed(at + 1, at + 1, current')
    BY <1>3 DEF PlacedAfter
  <2>3. \A p \in 1..(at + 1) : p \in 1..at \/ p = at + 1
    BY <1>1
  <2>4. ASSUME NEW p \in 1..(at + 1), Open(p)' PROVE Placed(p, at + 1, current')
    <3>1. CASE p \in 1..at
      BY <2>1, <2>4, <3>1
    <3>2. CASE p = at + 1
      BY <2>2, <3>2
    <3> QED BY <2>3, <3>1, <3>2
  <2> QED BY <1>3, <2>4
<1>4. \A n \in {at + 1} : SaidBy(n)' = SaidBy(n)
  BY <1>1, SameSaid
<1>5. \A p : \A n \in {at + 1} : Placed(p, n, current)' = Placed(p, n, current')
  BY <1>1, SameSaid
<1>6. WellFormed' => config' = SaidBy(at)'
  BY <1>1, <1>2, <1>3, <1>4
<1>7. ASSUME WellFormed', NEW p \in 1..at', Open(p)' PROVE Placed(p, at, current)'
  BY <1>1, <1>2, <1>3, <1>5, <1>7
<1>8. ~AtEnd'
  BY <1>1 DEF AtEnd
<1> QED BY <1>6, <1>7, <1>8 DEF SaidInv

(***************************************************************************)
(* Sections, the runtime, devices and links say what the file says.        *)
(***************************************************************************)

LEMMA AppendPut ==
  ASSUME NEW T, NEW s \in Seq(T), NEW x \in T, NEW y \in T
  PROVE  /\ [Append(s, x) EXCEPT ![Len(s) + 1] = y] = Append(s, y)
         /\ Len(Append(s, x)) = Len(s) + 1
         /\ Append(s, x)[Len(s) + 1] = x
<1>1. Len(s) \in Nat /\ Append(s, x) \in Seq(T) /\ Append(s, y) \in Seq(T)
  OBVIOUS
<1>2. /\ Len(Append(s, x)) = Len(s) + 1 /\ Len(Append(s, y)) = Len(s) + 1
      /\ Append(s, x)[Len(s) + 1] = x /\ Append(s, y)[Len(s) + 1] = y
      /\ \A i \in 1..Len(s) : Append(s, x)[i] = s[i] /\ Append(s, y)[i] = s[i]
  OBVIOUS
<1>3. [Append(s, x) EXCEPT ![Len(s) + 1] = y] \in Seq(T)
  BY <1>1, <1>2
<1> DEFINE new == [Append(s, x) EXCEPT ![Len(s) + 1] = y]
<1>4. Len(new) = Len(s) + 1 /\ \A i \in 1..(Len(s) + 1) : new[i] = Append(s, y)[i]
  <2>1. PICK a \in Seq(T) : a = Append(s, x)
    BY <1>1
  <2>2. PICK b \in Seq(T) : b = Append(s, y)
    BY <1>1
  <2>3. PICK N \in Nat : N = Len(s)
    BY <1>1
  <2>4. /\ Len(a) = N + 1 /\ DOMAIN a = 1..(N + 1) /\ b[N + 1] = y
        /\ \A i \in 1..N : a[i] = b[i]
    BY <1>2, <2>1, <2>2, <2>3
  <2>5. /\ [a EXCEPT ![N + 1] = y] \in Seq(T)
        /\ DOMAIN [a EXCEPT ![N + 1] = y] = 1..(N + 1)
    BY <1>3, <2>1, <2>3, <2>4
  <2>6. Len([a EXCEPT ![N + 1] = y]) = N + 1
    BY <2>5
  <2>7. \A i \in 1..(N + 1) : [a EXCEPT ![N + 1] = y][i] = b[i]
    BY <2>4
  <2>8. new = [a EXCEPT ![N + 1] = y]
    BY <2>1, <2>3
  <2> HIDE DEF new
  <2> QED BY <2>2, <2>3, <2>6, <2>7, <2>8
<1> HIDE DEF new
<1>5. new = Append(s, y)
  <2>1. new \in Seq(T)
    BY <1>3 DEF new
  <2> QED BY <1>1, <1>2, <1>4, <2>1
<1> QED BY <1>2, <1>5 DEF new

LEMMA ExtendedBy ==
  ASSUME NEW Rec, NEW items \in Seq(Rec), NEW fresh \in Rec, NEW keys
  PROVE  /\ Line.dash => Extended(items, fresh, keys)
                           = Append(items, Apply(fresh, keys, Line.key, Line.value))
         /\ ~Line.dash => Extended(items, fresh, keys)
                            = [items EXCEPT ![Len(items)] =
                                 Apply(@, keys, Line.key, Line.value)]
<1>1. ASSUME Line.dash
      PROVE  Extended(items, fresh, keys) =
               Append(items, Apply(fresh, keys, Line.key, Line.value))
  <2> DEFINE put == Apply(fresh, keys, Line.key, Line.value)
             grown == Append(items, fresh)
             T == Rec \cup {put}
  <2>1. Extended(items, fresh, keys)
          = [grown EXCEPT ![Len(grown)] = Apply(@, keys, Line.key, Line.value)]
    BY <1>1 DEF Extended
  <2> HIDE DEF put
  <2>2. items \in Seq(T) /\ fresh \in T /\ put \in T
    OBVIOUS
  <2>3. /\ [grown EXCEPT ![Len(items) + 1] = put] = Append(items, put)
        /\ Len(grown) = Len(items) + 1 /\ grown[Len(items) + 1] = fresh
    BY <2>2, AppendPut
  <2>4. Extended(items, fresh, keys) = [grown EXCEPT ![Len(items) + 1] = put]
    BY <2>1, <2>3 DEF put
  <2> QED BY <2>3, <2>4 DEF put
<1>2. ~Line.dash => Extended(items, fresh, keys)
                      = [items EXCEPT ![Len(items)] = Apply(@, keys, Line.key, Line.value)]
  BY DEF Extended
<1> QED BY <1>1, <1>2

LEMMA ConfigPut ==
  ASSUME NEW r, NEW d, NEW l, NEW m, NEW x
  PROVE  LET c == ConfigOf(r, d, l, m) IN
         /\ c.runtime = r /\ c.devices = d /\ c.links = l /\ c.models = m
         /\ [c EXCEPT !.runtime = x] = ConfigOf(x, d, l, m)
         /\ [c EXCEPT !.devices = x] = ConfigOf(r, x, l, m)
         /\ [c EXCEPT !.links = x] = ConfigOf(r, d, x, m)
         /\ [c EXCEPT !.models = x] = ConfigOf(r, d, l, x)
<1> DEFINE c == ConfigOf(r, d, l, m)
<1>1. c.runtime = r /\ c.devices = d /\ c.links = l /\ c.models = m
  BY DEF ConfigOf
<1>2. [c EXCEPT !.runtime = x] = ConfigOf(x, d, l, m)
  BY DEF ConfigOf
<1>3. [c EXCEPT !.devices = x] = ConfigOf(r, x, l, m)
  BY DEF ConfigOf
<1>4. [c EXCEPT !.links = x] = ConfigOf(r, d, x, m)
  BY DEF ConfigOf
<1>5. [c EXCEPT !.models = x] = ConfigOf(r, d, l, x)
  BY DEF ConfigOf
<1> QED BY <1>1, <1>2, <1>3, <1>4, <1>5

\* The line the next one is nested in is open.
LEMMA NextParent ==
  ASSUME FileInv, WellFormed, at < Len(file), NextRole \notin Sections
  PROVE  LET p == Parent(at + 1) IN
         /\ p \in 1..at /\ p \in Lines /\ Open(p) /\ file[p].indent < Line.indent
         /\ \A j \in 1..at : file[j].indent < Line.indent => j <= p
<1> DEFINE p == Parent(at + 1)
<1>1. at + 1 \in Lines /\ at \in Nat /\ (at + 1) - 1 = at /\ Lines = 1..Len(file)
      /\ Len(file) \in Nat
  BY FilesAssumption DEF FileInv, Lines
<1>2. p \in 1..at /\ p \in Lines
  BY <1>1, ParentsRole DEF NextRole
<1>3. /\ (p # 0 => file[p].indent < file[at + 1].indent)
      /\ \A j \in (p + 1)..at : ~(file[j].indent < file[at + 1].indent)
  BY <1>1, ParentIsBefore
<1>4. \A j \in Lines : file[j].indent \in Nat
  BY FilesAssumption DEF FileInv, Lines
<1> HIDE DEF p
<1>5. file[p].indent < file[at + 1].indent
  BY <1>2, <1>3
<1>6. ASSUME NEW j \in (p + 1)..at PROVE file[j].indent > file[p].indent
  <2>1. j \in Lines
    BY <1>1, <1>2, <1>6
  <2>2. file[j].indent \in Nat /\ file[p].indent \in Nat /\ file[at + 1].indent \in Nat
    BY <1>1, <1>2, <1>4, <2>1
  <2>3. ~(file[j].indent < file[at + 1].indent)
    BY <1>3, <1>6
  <2> QED BY <1>5, <2>2, <2>3
<1>7. ASSUME NEW j \in 1..at, file[j].indent < file[at + 1].indent PROVE j <= p
  <2>1. ~(j \in (p + 1)..at)
    BY <1>3, <1>7
  <2> QED BY <1>1, <1>2, <2>1
<1> QED BY <1>2, <1>5, <1>6, <1>7 DEF p, Open, Line

\* Once the next device or link is begun the one before it is closed.
LEMMA SiblingClosed ==
  ASSUME FileInv, WellFormed, at < Len(file), NextRole \in {"device", "link"},
         NEW p \in 1..at, Open(p), file[p].indent < Line.indent
  PROVE  Role[p] # NextRole
<1> DEFINE q == Parent(at + 1)
<1>1. at + 1 \in Lines /\ at \in Nat /\ Lines = 1..Len(file) /\ Len(file) \in Nat
  BY FilesAssumption DEF FileInv, Lines
<1>2. NextRole \notin Sections
  BY DEF Sections
<1>3. q \in 1..at /\ q \in Lines /\ p <= q
  BY <1>2, NextParent
<1>4. Role[q] \in {"devices", "links"} /\ Role[q] \in Sections
  <2>1. Role[q] \in {"devices", "links"}
    BY <1>1, <1>2, ParentsRole DEF NextRole
  <2> QED BY <2>1 DEF Sections
<1>5. file[q].indent = 0
  <2>1. Nests(file[q], Role[Parent(q)], Role[q])
    <3> HIDE DEF q
    <3> QED BY <1>3, WellFormedLine
  <2>2. Role[Parent(q)] = "none"
    <3> HIDE DEF q
    <3> QED BY <1>4, <2>1, NestsSoundly
  <2> QED BY <2>1, <2>2 DEF Nests
<1> HIDE DEF q
<1>6. ASSUME Role[p] = NextRole PROVE FALSE
  <2>1. p # q
    BY <1>4, <1>6
  <2>2. q \in (p + 1)..at
    BY <1>1, <1>3, <2>1
  <2>3. file[q].indent > file[p].indent
    BY <2>2 DEF Open
  <2>4. p \in Lines
    BY <1>1
  <2>5. file[p].indent \in Nat
    BY <2>4, FilesAssumption DEF FileInv, Lines
  <2> QED BY <1>5, <2>3, <2>5
<1> QED BY <1>6

\* The lines that the next one may be nested in keep their places.
LEMMA PlaceStays ==
  ASSUME FileInv, WellFormed, Consumed, NEW p \in 1..at, Open(p), Placed(p, at, current),
         file[p].indent < Line.indent
  PROVE  Placed(p, at + 1, current)
<1>1. at \in Nat /\ at + 1 <= Len(file) /\ at < Len(file)
  BY FilesAssumption DEF FileInv, Consumed
<1>2. Role[at + 1] \in {"device", "link"} => Role[p] # Role[at + 1]
  BY <1>1, SiblingClosed DEF NextRole
<1> QED BY <1>1, <1>2, PlacesStay

LEMMA KeyPlaced ==
  ASSUME NEW n \in Nat, NEW c,
         Role[n] \notin {"model", "chain", "step", "taps", "fading", "tap"}
  PROVE  Placed(n, n, c)
<1>1. \A role : \A j \in Having(role, n) : j <= n
  BY DEF Having
<1> QED BY <1>1 DEF Placed

LEMMA TopLinesPlaced ==
  ASSUME LoadInv, NestInv, WellFormed, Consumed,
         ReadSection \/ ReadRuntime \/ ReadDevice \/ ReadLink
  PROVE  PlacedAfter
<1>1. FileInv /\ DOMAIN current = Pointers
  BY DEF LoadInv, PointersInv
<1>2. at \in Nat /\ at + 1 \in Nat /\ \A p \in 1..at : file[p].indent \in Nat
  <2>1. \A p \in 1..at : p \in 1..(at + 1)
    BY <1>1, RolesFit
  <2> QED BY <1>1, <2>1, RolesFit
<1>3. NextRole \notin {"model", "chain", "step", "taps", "fading", "tap"}
  <2>1. NextRole \in Sections \cup {"runtime key", "device", "device key", "link", "link key"}
    BY ReadTells
  <2> QED BY <2>1 DEF Sections
<1>4. Placed(at + 1, at + 1, current')
  BY <1>2, <1>3, KeyPlaced DEF NextRole
<1>5. ASSUME NEW p \in 1..at, Open(p), Placed(p, at, current), file[p].indent < Line.indent
      PROVE  Placed(p, at + 1, current')
  <2>1. Placed(p, at + 1, current)
    BY <1>1, <1>5, PlaceStays
  <2>2. ~ReadSection
    <3>1. file[p].indent \in Nat
      BY <1>2
    <3>2. Line.indent # 0
      BY <1>5, <3>1
    <3> QED BY <3>2 DEF ReadSection, TopLevel
  <2>3. /\ current'.model = current.model /\ current'.step = current.step
        /\ current'.tap = current.tap
    <3>1. CASE ReadRuntime
      BY <3>1 DEF ReadRuntime
    <3>2. CASE ReadDevice
      <4> DEFINE d == Extended(config.devices, DefaultDevice, DeviceKeys)
      <4>1. current' = [current EXCEPT !.device = Len(d)]
        BY <3>2 DEF ReadDevice
      <4> HIDE DEF d
      <4> QED BY <1>1, <4>1 DEF Pointers
    <3>3. CASE ReadLink
      <4> DEFINE l == Extended(config.links, DefaultLink, LinkKeys)
      <4>1. current' = [current EXCEPT !.link = Len(l)]
        BY <3>3 DEF ReadLink
      <4> HIDE DEF l
      <4> QED BY <1>1, <4>1 DEF Pointers
    <3> QED BY <2>2, <3>1, <3>2, <3>3
  <2> QED BY <2>1, <2>3, PointedAlike
<1> QED BY <1>4, <1>5 DEF PlacedAfter

\* A key of a device or of a link lands in the last one.
LEMMA LastItem ==
  ASSUME LoadInv, SaidInv, WellFormed, Consumed, NextRole \in {"device key", "link key"}
  PROVE  /\ NextRole = "device key" =>
              Rank(Having("device", at), Parent(at + 1)) = Len(DevicesSaid(at))
         /\ NextRole = "link key" =>
              Rank(Having("link", at), Parent(at + 1)) = Len(LinksSaid(at))
<1> DEFINE p == Parent(at + 1)
<1>1. FileInv /\ at \in Nat /\ at < Len(file) /\ phase = "reading" /\ at + 1 \in Lines
  <2>1. FileInv /\ at < Len(file) /\ phase = "reading"
    BY DEF LoadInv, Consumed
  <2> QED BY <2>1, RolesFit
<1>2. NextRole \notin Sections
  BY DEF Sections
<1>3. p \in 1..at /\ Open(p)
  BY <1>1, <1>2, NextParent
<1>4. Placed(p, at, current)
  BY <1>1, <1>3 DEF SaidInv
<1>5. /\ NextRole = "device key" => Role[p] = "device"
      /\ NextRole = "link key" => Role[p] = "link"
  BY <1>1, <1>2, ParentsRole DEF NextRole
<1> HIDE DEF p
<1>6. ASSUME NEW role \in {"device", "link"}, Role[p] = role
      PROVE  Rank(Having(role, at), p) = Cardinality(Having(role, at))
  <2>1. p \in Having(role, at) /\ \A j \in Having(role, at) : j <= p
    BY <1>3, <1>4, <1>6 DEF Having, Placed
  <2> QED BY <1>1, <2>1, LinesOf, LastRank
<1>7. /\ Len(DevicesSaid(at)) = Cardinality(Having("device", at))
      /\ Len(LinksSaid(at)) = Cardinality(Having("link", at))
  <2>1. \A role : Having(role, at) \in SUBSET (1..at)
    BY <1>1, LinesOf
  <2> QED BY <1>1, <2>1, ItemsLen DEF DevicesSaid, LinksSaid
<1> QED BY <1>5, <1>6, <1>7 DEF p

LEMMA TopLinesSaid ==
  ASSUME LoadInv, NestInv, SaidInv, WellFormed, Consumed,
         ReadSection \/ ReadRuntime \/ ReadDevice \/ ReadLink
  PROVE  config' = SaidBy(at + 1)
<1>1. FileInv /\ at \in Nat /\ at + 1 <= Len(file) /\ phase = "reading" /\ at + 1 \in Lines
      /\ Line = file[at + 1]
  BY FilesAssumption DEF LoadInv, FileInv, Consumed, Lines, Line
<1>2. PICK r : r = RuntimeSaid(at)
  OBVIOUS
<1>3. PICK d : d = DevicesSaid(at)
  OBVIOUS
<1>4. PICK k : k = LinksSaid(at)
  OBVIOUS
<1>5. PICK m : m = ModelsSaid(at)
  OBVIOUS
<1>6. config = ConfigOf(r, d, k, m)
  BY <1>1, <1>2, <1>3, <1>4, <1>5, SaidParts DEF SaidInv
<1>7. config.runtime = r /\ config.devices = d /\ config.links = k
  BY <1>6, ConfigPut
<1>8. d \in Seq(Device) /\ k \in Seq(LinkTo(Texts))
  BY <1>1, <1>7, ReadingTyped
<1>9. Nests(Line, Role[Parent(at + 1)], NextRole)
  BY <1>1, WellFormedLine DEF NextRole
<1>10. CASE ReadSection
  <2>1. NextRole \in Sections
    BY <1>10, ReadTells
  <2> QED BY <1>1, <1>10, <2>1, TopSays DEF NextRole, ReadSection, SaidInv
<1>11. CASE ReadRuntime
  <2>1. NextRole = "runtime key"
    BY <1>11, ReadTells
  <2>2. SaidBy(at + 1) = ConfigOf(ApplyRuntime(r, Line.key, Line.value), d, k, m)
    BY <1>1, <1>2, <1>3, <1>4, <1>5, <2>1, TopSays DEF NextRole
  <2>3. config' = [config EXCEPT !.runtime = ApplyRuntime(r, Line.key, Line.value)]
    BY <1>7, <1>11 DEF ReadRuntime
  <2> QED BY <1>6, <2>2, <2>3, ConfigPut
<1>12. CASE ReadDevice
  <2> DEFINE new == Extended(d, DefaultDevice, DeviceKeys)
  <2>1. NextRole \in {"device", "device key"}
    BY <1>12, ReadTells
  <2>2. config' = [config EXCEPT !.devices = new]
    BY <1>7, <1>12 DEF ReadDevice
  <2>3. \E Rec : d \in Seq(Rec) /\ DefaultDevice \in Rec
    <3>1. d \in Seq(Device \cup {DefaultDevice})
      BY <1>8
    <3> QED BY <3>1
  <2>4. SaidBy(at + 1) = ConfigOf(r, new, k, m)
    <3>1. CASE NextRole = "device"
      <4>1. Line.dash
        BY <1>9, <3>1 DEF Nests, Heading, Sections
      <4>2. new = Append(d, Apply(DefaultDevice, DeviceKeys, Line.key, Line.value))
        BY <2>3, <4>1, ExtendedBy
      <4>3. SaidBy(at + 1) = ConfigOf(r, Append(d, Apply(DefaultDevice, DeviceKeys, Line.key,
                                                         Line.value)), k, m)
        BY <1>1, <1>2, <1>3, <1>4, <1>5, <3>1, TopSays DEF NextRole
      <4> QED BY <4>2, <4>3
    <3>2. CASE NextRole = "device key"
      <4>1. ~Line.dash
        BY <1>9, <3>2 DEF Nests, Heading, Sections
      <4>2. new = [d EXCEPT ![Len(d)] = Apply(@, DeviceKeys, Line.key, Line.value)]
        BY <2>3, <4>1, ExtendedBy
      <4>3. Rank(Having("device", at), Parent(at + 1)) = Len(d)
        BY <1>3, <3>2, LastItem
      <4>4. SaidBy(at + 1) =
              ConfigOf(r, [d EXCEPT ![Rank(Having("device", at), Parent(at + 1))] =
                             Apply(@, DeviceKeys, Line.key, Line.value)], k, m)
        BY <1>1, <1>2, <1>3, <1>4, <1>5, <3>2, TopSays DEF NextRole
      <4> QED BY <4>2, <4>3, <4>4
    <3> QED BY <2>1, <3>1, <3>2
  <2> HIDE DEF new
  <2> QED BY <1>6, <2>2, <2>4, ConfigPut
<1>13. CASE ReadLink
  <2> DEFINE new == Extended(k, DefaultLink, LinkKeys)
  <2>1. NextRole \in {"link", "link key"}
    BY <1>13, ReadTells
  <2>2. config' = [config EXCEPT !.links = new]
    BY <1>7, <1>13 DEF ReadLink
  <2>3. \E Rec : k \in Seq(Rec) /\ DefaultLink \in Rec
    <3> HIDE DEF LinkTo
    <3>1. k \in Seq(LinkTo(Texts) \cup {DefaultLink})
      BY <1>8
    <3> QED BY <3>1
  <2>4. SaidBy(at + 1) = ConfigOf(r, d, new, m)
    <3>1. CASE NextRole = "link"
      <4>1. Line.dash
        BY <1>9, <3>1 DEF Nests, Heading, Sections
      <4>2. new = Append(k, Apply(DefaultLink, LinkKeys, Line.key, Line.value))
        BY <2>3, <4>1, ExtendedBy
      <4>3. SaidBy(at + 1) = ConfigOf(r, d, Append(k, Apply(DefaultLink, LinkKeys, Line.key,
                                                            Line.value)), m)
        BY <1>1, <1>2, <1>3, <1>4, <1>5, <3>1, TopSays DEF NextRole
      <4> QED BY <4>2, <4>3
    <3>2. CASE NextRole = "link key"
      <4>1. ~Line.dash
        BY <1>9, <3>2 DEF Nests, Heading, Sections
      <4>2. new = [k EXCEPT ![Len(k)] = Apply(@, LinkKeys, Line.key, Line.value)]
        BY <2>3, <4>1, ExtendedBy
      <4>3. Rank(Having("link", at), Parent(at + 1)) = Len(k)
        BY <1>4, <3>2, LastItem
      <4>4. SaidBy(at + 1) =
              ConfigOf(r, d, [k EXCEPT ![Rank(Having("link", at), Parent(at + 1))] =
                                Apply(@, LinkKeys, Line.key, Line.value)], m)
        BY <1>1, <1>2, <1>3, <1>4, <1>5, <3>2, TopSays DEF NextRole
      <4> QED BY <4>2, <4>3, <4>4
    <3> QED BY <2>1, <3>1, <3>2
  <2> HIDE DEF new
  <2> QED BY <1>6, <2>2, <2>4, ConfigPut
<1> QED BY <1>10, <1>11, <1>12, <1>13

(***************************************************************************)
(* So do the models.                                                       *)
(***************************************************************************)

LEMMA NextIs ==
  ASSUME LoadInv, Consumed
  PROVE  /\ FileInv /\ at \in Nat /\ at < Len(file) /\ at + 1 <= Len(file)
         /\ phase = "reading" /\ at + 1 \in Lines /\ Line = file[at + 1]
         /\ NextRole = Role[at + 1]
<1>1. FileInv /\ at < Len(file) /\ phase = "reading"
  BY DEF LoadInv, Consumed
<1>2. at \in Nat /\ at + 1 <= Len(file) /\ at + 1 \in 1..Len(file)
  BY <1>1, FilesAssumption DEF FileInv
<1> QED BY <1>1, <1>2 DEF Lines, Line, NextRole

\* The line the next one is nested in is open, so the pointers are on its blocks.
LEMMA ParentPlaced ==
  ASSUME LoadInv, SaidInv, WellFormed, Consumed, NextRole \notin Sections
  PROVE  LET p == Parent(at + 1) IN
         p \in 1..at /\ p \in Lines /\ Open(p) /\ file[p].indent < Line.indent
           /\ Placed(p, at, current)
BY NextIs, NextParent DEF SaidInv

\* The pointers of a line in a step are on that step, and of one in a tap on that tap.
LEMMA StepPointed ==
  ASSUME LoadInv, SaidInv, WellFormed, Consumed
  PROVE  NextRole \in InnerRoles =>
           /\ OnStep(StepAt(at + 1), at, current)
           /\ NextRole = "tap key" =>
                current.tap = Rank(Within(StepAt(at + 1), "tap", at), Parent(at + 1))
<1> HAVE NextRole \in InnerRoles
<1>1. NextRole \notin Sections
  BY DEF Sections, InnerRoles
<1>2. PICK p : p = Parent(at + 1)
  OBVIOUS
<1>3. Placed(p, at, current)
  BY <1>1, <1>2, ParentPlaced
<1>4. /\ NextRole \in {"taps", "fading", "step key"} => Role[p] = "step"
      /\ NextRole = "tap" => Role[p] = "taps"
      /\ NextRole = "tap key" => Role[p] = "tap"
      /\ NextRole = "fading key" => Role[p] = "fading"
  BY <1>1, <1>2, NextIs, ParentsRole
<1>5. /\ NextRole \in {"step key", "taps", "fading"} => StepAt(at + 1) = p
      /\ NextRole \in {"tap", "fading key"} => StepAt(at + 1) = Parent(p)
      /\ NextRole = "tap key" => StepAt(at + 1) = Parent(Parent(p))
  BY <1>2, NextIs DEF StepAt
<1>6. CASE NextRole \in {"step key", "taps", "fading"}
  BY <1>3, <1>4, <1>5, <1>6 DEF Placed
<1>7. CASE NextRole \in {"tap", "fading key"}
  BY <1>3, <1>4, <1>5, <1>7 DEF Placed
<1>8. CASE NextRole = "tap key"
  BY <1>2, <1>3, <1>4, <1>5, <1>8 DEF Placed
<1> QED BY <1>6, <1>7, <1>8 DEF InnerRoles

LEMMA ConfigNow ==
  ASSUME LoadInv, SaidInv, WellFormed, Consumed
  PROVE  /\ config = ConfigOf(RuntimeSaid(at), DevicesSaid(at), LinksSaid(at), ModelsSaid(at))
         /\ config.models = ModelsSaid(at)
         /\ \A m \in Ids(at) : config.models[m].chain = ChainSaid(m, at)
<1>1. config = ConfigOf(RuntimeSaid(at), DevicesSaid(at), LinksSaid(at), ModelsSaid(at))
  BY NextIs, SaidParts DEF SaidInv
<1>2. config.models = ModelsSaid(at)
  BY <1>1, ConfigPut
<1>3. \A m \in Ids(at) : ModelsSaid(at)[m].chain = ChainSaid(m, at)
  BY DEF ModelsSaid
<1> QED BY <1>1, <1>2, <1>3

\* The step that a line is nested in is what the lines before it say, and with what
\* they say with that line it is what the file says that far.
LEMMA StepIsSaid ==
  ASSUME LoadInv, SaidInv, WellFormed, Consumed
  PROVE  NextRole \in InnerRoles =>
           /\ Step = StepSaid(StepAt(at + 1), at)
           /\ WithStep(StepSaid(StepAt(at + 1), at + 1)) = SaidBy(at + 1)
<1> HAVE NextRole \in InnerRoles
<1>1. PICK q : q = StepAt(at + 1)
  OBVIOUS
<1>2. PICK m : m = ModelOf(q)
  OBVIOUS
<1>3. PICK place : place = Rank(StepsOf(m, at), q)
  OBVIOUS
<1>4. current.model = m /\ current.step = place
  BY <1>1, <1>2, <1>3, StepPointed DEF OnStep
<1>5. m \in Ids(at) /\ q \in StepsOf(m, at)
  BY <1>1, <1>2, NextIs, NestedInStep
<1>6. Chain = ChainSaid(m, at)
  BY <1>4, <1>5, ConfigNow DEF Chain
<1>7. ChainSaid(m, at)[place] = StepSaid(q, at)
  BY <1>3, <1>5, NextIs, ChainPut
<1>8. Step = StepSaid(q, at)
  BY <1>4, <1>6, <1>7 DEF Step
<1>9. PICK s : s = StepSaid(q, at + 1)
  OBVIOUS
<1>10. WithStep(s) = [config EXCEPT !.models = ModelsWith(config.models, m,
                                                          Replaced(Chain, place, s))]
  BY <1>4 DEF WithStep, ModelsWith, Replaced, Chain
<1>11. SaidBy(at + 1) = ConfigOf(RuntimeSaid(at), DevicesSaid(at), LinksSaid(at),
                          ModelsWith(ModelsSaid(at), m, Replaced(ChainSaid(m, at), place, s)))
  BY <1>1, <1>2, <1>3, <1>9, NextIs, ModelSays
<1>12. WithStep(s) = SaidBy(at + 1)
  BY <1>6, <1>10, <1>11, ConfigNow, ConfigPut
<1> QED BY <1>1, <1>8, <1>9, <1>12

LEMMA StepLinesSaid ==
  ASSUME LoadInv, NestInv, SaidInv, WellFormed, Consumed,
         \/ ReadTaps \/ ReadFading \/ ReadTap \/ ReadTapKey \/ ReadFadingKey \/ ReadStepKey
  PROVE  config' = SaidBy(at + 1)
<1>1. FileInv /\ at \in Nat /\ at + 1 <= Len(file) /\ at + 1 \in Lines /\ Line = file[at + 1]
      /\ NextRole = Role[at + 1]
  BY NextIs
<1>2. NextRole \in InnerRoles
  BY ReadTells DEF InnerRoles
<1>3. PICK q : q = StepAt(at + 1)
  OBVIOUS
<1>4. q \in 1..at
  BY <1>1, <1>2, <1>3, NestedInStep
<1>5. Step = StepSaid(q, at) /\ WithStep(StepSaid(q, at + 1)) = SaidBy(at + 1)
  BY <1>2, <1>3, StepIsSaid
<1>6. OnStep(q, at, current)
  BY <1>2, <1>3, StepPointed
<1>7. Nests(Line, Role[Parent(at + 1)], NextRole)
  BY <1>1, WellFormedLine
<1>8. /\ NextRole \in {"step key", "taps", "fading"} => Parent(at + 1) = q
      /\ NextRole \in {"tap", "fading key"} => Parent(Parent(at + 1)) = q
  BY <1>1, <1>3 DEF StepAt
<1>9. CASE ReadTaps
  <2>1. NextRole = "taps"
    BY <1>9, ReadTells
  <2>2. StepSaid(q, at + 1) = [StepSaid(q, at) EXCEPT !.taps_declared = TRUE]
    BY <1>1, <1>4, <1>8, <2>1, StepOpens
  <2>3. config' = WithStep([Step EXCEPT !.taps_declared = TRUE])
    BY <1>9 DEF ReadTaps
  <2> QED BY <1>5, <2>2, <2>3
<1>10. CASE ReadFading
  <2>1. NextRole = "fading"
    BY <1>10, ReadTells
  <2>2. StepSaid(q, at + 1) = [StepSaid(q, at) EXCEPT !.fading_enabled = TRUE]
    BY <1>1, <1>4, <1>8, <2>1, StepOpens
  <2>3. config' = WithStep([Step EXCEPT !.fading_enabled = TRUE])
    BY <1>10 DEF ReadFading
  <2> QED BY <1>5, <2>2, <2>3
<1>11. CASE ReadTap
  <2> DEFINE tap == Apply(DefaultTap, TapKeys, Line.key, Line.value)
  <2>1. NextRole = "tap"
    BY <1>11, ReadTells
  <2>2. StepSaid(q, at + 1) = [StepSaid(q, at) EXCEPT !.taps = Append(@, tap)]
    BY <1>1, <1>4, <1>8, <2>1, TapSays
  <2>3. config' = WithStep([Step EXCEPT !.taps = Append(@, tap)])
    BY <1>11 DEF ReadTap
  <2> HIDE DEF tap
  <2> QED BY <1>5, <2>2, <2>3
<1>12. CASE ReadTapKey
  <2> DEFINE place == Rank(Within(q, "tap", at), Parent(at + 1))
             put(s, n) == [s EXCEPT !.taps[n] = Apply(@, TapKeys, Line.key, Line.value)]
  <2>1. NextRole = "tap key"
    BY <1>12, ReadTells
  <2>2. Parent(at + 1) \in Within(q, "tap", at) /\ current.tap = place
    BY <1>1, <1>2, <1>3, <2>1, NestedInStep, StepPointed
  <2>3. StepSaid(q, at + 1) = put(StepSaid(q, at), place)
    BY <1>1, <1>4, <2>1, <2>2, TapSays
  <2>4. config' = WithStep(put(Step, current.tap))
    BY <1>12 DEF ReadTapKey
  <2> HIDE DEF put, place
  <2> QED BY <1>5, <2>2, <2>3, <2>4
<1>13. CASE ReadFadingKey
  <2>1. NextRole = "fading key"
    BY <1>13, ReadTells
  <2>2. Applies(FadingKeys, Line.key, Line.value)
    BY <1>1, <2>1, KeysApply
  <2>3. StepSaid(q, at + 1) = Apply(StepSaid(q, at), FadingKeys, Line.key, Line.value)
    BY <1>1, <1>4, <1>8, <2>1, <2>2, FadingKeySays
  <2>4. config' = WithStep(Apply(Step, FadingKeys, Line.key, Line.value))
    BY <1>13 DEF ReadFadingKey
  <2> QED BY <1>5, <2>3, <2>4
<1>14. CASE ReadStepKey
  <2>1. NextRole = "step key"
    BY <1>14, ReadTells
  <2>2. PlainKey(Line) = Line.key
    BY <1>7, <2>1 DEF Nests, Heading, Sections, PlainKey
  <2>3. StepSaid(q, at + 1) = ApplyStep(StepSaid(q, at), Line.key, Line.value)
    BY <1>1, <1>4, <1>8, <2>1, StepKeySays
  <2>4. config' = WithStep(ApplyStep(Step, Line.key, Line.value))
    BY <1>14, <2>2 DEF ReadStepKey
  <2> QED BY <1>5, <2>3, <2>4
<1> QED BY <1>9, <1>10, <1>11, <1>12, <1>13, <1>14

\* A step is opened in the model that is open.
LEMMA ModelPointed ==
  ASSUME LoadInv, SaidInv, WellFormed, Consumed
  PROVE  /\ NextRole = "chain" => current.model = <<file[Parent(at + 1)].key>>
         /\ NextRole = "step" =>
              current.model = ModelOf(at + 1) /\ ModelOf(at + 1) \in Ids(at)
<1>1. NextRole \in {"chain", "step"} => NextRole \notin Sections
  BY DEF Sections
<1> SUFFICES ASSUME NextRole \notin Sections
             PROVE  /\ NextRole = "chain" => current.model = <<file[Parent(at + 1)].key>>
                    /\ NextRole = "step" =>
                         current.model = ModelOf(at + 1) /\ ModelOf(at + 1) \in Ids(at)
  BY <1>1
<1>2. PICK p : p = Parent(at + 1)
  OBVIOUS
<1>3. p \in 1..at /\ p \in Lines /\ Placed(p, at, current)
  BY <1>2, ParentPlaced
<1>4. /\ NextRole = "chain" => Role[p] = "model"
      /\ NextRole = "step" => Role[p] = "chain"
  BY <1>2, NextIs, ParentsRole
<1>5. NextRole = "chain" => current.model = <<file[p].key>>
  BY <1>3, <1>4 DEF Placed
<1>6. NextRole = "step" => current.model = <<file[Parent(p)].key>>
  BY <1>3, <1>4 DEF Placed
<1>7. ASSUME NextRole = "step" PROVE <<file[Parent(p)].key>> \in Ids(at)
  <2>1. Role[p] = "chain" /\ Role[p] \notin Sections
    BY <1>4, <1>7 DEF Sections
  <2>2. Parent(p) \in 1..(p - 1) /\ Role[Parent(p)] = "model"
    BY <1>3, <2>1, NextIs, ParentsRole
  <2>3. Parent(p) \in 1..at
    BY <1>3, <2>2, NextIs, Before
  <2> QED BY <2>2, <2>3 DEF Ids, Having
<1> QED BY <1>2, <1>5, <1>6, <1>7 DEF ModelOf

LEMMA ModelLinesSaid ==
  ASSUME LoadInv, NestInv, SaidInv, WellFormed, Consumed, ReadModel \/ ReadChain \/ ReadStep
  PROVE  config' = SaidBy(at + 1)
<1>1. FileInv /\ at \in Nat /\ at + 1 <= Len(file) /\ at + 1 \in Lines /\ Line = file[at + 1]
      /\ NextRole = Role[at + 1] /\ phase = "reading"
  BY NextIs
<1>2. Nests(Line, Role[Parent(at + 1)], NextRole)
  BY <1>1, WellFormedLine
<1>3. CASE ReadModel
  <2>1. NextRole = "model"
    BY <1>3, ReadTells
  <2>2. PlainKey(Line) = Line.key
    BY <1>2, <2>1 DEF Nests, Heading, Sections, PlainKey
  <2> DEFINE models == Emplaced(ModelsSaid(at), <<Line.key>>, [chain |-> <<>>])
  <2>3. config' = [config EXCEPT !.models = models]
    BY <1>3, <2>2, ConfigNow DEF ReadModel
  <2>4. SaidBy(at + 1) = ConfigOf(RuntimeSaid(at), DevicesSaid(at), LinksSaid(at), models)
    BY <1>1, <2>1, TopSays
  <2> HIDE DEF models
  <2> QED BY <2>3, <2>4, ConfigNow, ConfigPut
<1>4. CASE ReadChain
  <2>1. NextRole = "chain"
    BY <1>4, ReadTells
  <2> QED BY <1>1, <1>4, <2>1, TopSays DEF ReadChain, SaidInv
<1>5. CASE ReadStep
  <2>1. NextRole = "step"
    BY <1>5, ReadTells
  <2>2. PICK m : m = ModelOf(at + 1)
    OBVIOUS
  <2>3. current.model = m /\ m \in Ids(at)
    BY <2>1, <2>2, ModelPointed
  <2>4. PICK step : step = ApplyStep(DefaultStep, Line.key, Line.value)
    OBVIOUS
  <2>5. config' = [config EXCEPT !.models[m].chain = Append(@, step)]
    BY <1>5, <2>3, <2>4 DEF ReadStep
  <2>6. config' = [config EXCEPT !.models = ModelsWith(config.models, m,
                                              Append(config.models[m].chain, step))]
    BY <2>5 DEF ModelsWith
  <2>7. config.models[m].chain = ChainSaid(m, at)
    BY <2>3, ConfigNow
  <2>8. SaidBy(at + 1) = ConfigOf(RuntimeSaid(at), DevicesSaid(at), LinksSaid(at),
                           ModelsWith(ModelsSaid(at), m, Append(ChainSaid(m, at), step)))
    BY <1>1, <2>1, <2>2, <2>4, ModelSays
  <2> QED BY <2>6, <2>7, <2>8, ConfigNow, ConfigPut
<1> QED BY <1>3, <1>4, <1>5

(***************************************************************************)
(* The pointers, one line further.                                         *)
(***************************************************************************)

\* What a line of the models section leaves the pointers on.
PointsAfter(role) ==
  /\ role # "model" => current'.model = current.model
  /\ role \in {"taps", "fading", "tap"} => current'.step = current.step

\* The lines that the next one may be nested in are still pointed at.
LEMMA ModelsStayPlaced ==
  ASSUME LoadInv, NestInv, WellFormed, Consumed, section = "models",
         NextRole \in {"model", "chain", "step", "taps", "fading", "tap"},
         PointsAfter(NextRole)
  PROVE  \A p \in 1..at :
           Open(p) /\ Placed(p, at, current) /\ file[p].indent < Line.indent =>
             Placed(p, at + 1, current')
<1> SUFFICES ASSUME NEW p \in 1..at, Open(p), Placed(p, at, current),
                    file[p].indent < Line.indent
             PROVE  Placed(p, at + 1, current')
  OBVIOUS
<1>1. FileInv /\ phase = "reading"
  BY DEF LoadInv, Consumed
<1>2. /\ at \in Nat /\ Line = file[at + 1] /\ Line.indent \in Nat
      /\ \A n \in 1..(at + 1) : Role[n] \in LineRoles /\ Sound(n) /\ file[n].indent \in Nat
  BY <1>1, RolesFit
<1>3. /\ NextRole = "model" => Line.indent = 2
      /\ NextRole = "chain" => Line.indent = 4
      /\ NextRole = "step" => Line.indent = 6
      /\ NextRole \in {"taps", "fading"} => Line.indent = 8
      /\ NextRole = "tap" => Line.indent = 10
  <2>1. Sound(at + 1) /\ NextRole = Role[at + 1]
    BY <1>2 DEF NextRole
  <2> QED BY <1>2, <2>1 DEF Sound
<1>4. Role[p] \in LineRoles /\ Sound(p) /\ file[p].indent \in Nat
  <2>1. p \in 1..(at + 1)
    BY <1>2
  <2> QED BY <1>2, <2>1
<1>5. Role[p] \in ModelRoles
  <2>1. section = SectionOf(Role[p])
    BY <1>1 DEF NestInv, Known
  <2> QED BY <1>4, <2>1 DEF SectionOf, LineRoles, ModelRoles
<1>6. Placed(p, at + 1, current)
  BY <1>1, PlaceStays
<1>7. CASE NextRole = "model"
  <2>1. file[p].indent < 2
    BY <1>3, <1>7
  <2>2. Role[p] = "models"
    BY <1>4, <1>5, <2>1, IndentTells
  <2> QED BY <1>6, <2>2, PointedAlike
<1>8. CASE NextRole = "chain"
  <2>1. file[p].indent < 4
    BY <1>3, <1>8
  <2>2. Role[p] \in {"models", "model"}
    BY <1>4, <1>5, <2>1, IndentTells
  <2> QED BY <1>6, <1>8, <2>2, PointedAlike DEF PointsAfter
<1>9. CASE NextRole = "step"
  <2>1. file[p].indent < 6
    BY <1>3, <1>9
  <2>2. Role[p] \in {"models", "model", "chain"}
    BY <1>4, <1>5, <2>1, IndentTells
  <2> QED BY <1>6, <1>9, <2>2, PointedAlike DEF PointsAfter
<1>10. CASE NextRole \in {"taps", "fading"}
  <2>1. file[p].indent < 8
    BY <1>3, <1>10
  <2>2. Role[p] \in {"models", "model", "chain", "step"}
    BY <1>4, <1>5, <2>1, IndentTells
  <2> QED BY <1>6, <1>10, <2>2, PointedAlike DEF PointsAfter
<1>11. CASE NextRole = "tap"
  <2>1. file[p].indent < 10
    BY <1>3, <1>11
  <2>2. Role[p] \in {"models", "model", "chain", "step", "taps", "fading", "step key"}
    BY <1>4, <1>5, <2>1, IndentTells
  <2> QED BY <1>6, <1>11, <2>2, PointedAlike DEF PointsAfter
<1> QED BY <1>7, <1>8, <1>9, <1>10, <1>11

\* The pointers move to the block that a line opens.
LEMMA OpensPlaced ==
  ASSUME LoadInv, NestInv, SaidInv, WellFormed, Consumed,
         ReadModel \/ ReadChain \/ ReadStep \/ ReadTaps \/ ReadFading \/ ReadTap
  PROVE  /\ NextRole \in {"model", "chain", "step", "taps", "fading", "tap"}
         /\ PointsAfter(NextRole)
         /\ Placed(at + 1, at + 1, current')
<1>1. /\ FileInv /\ at \in Nat /\ at + 1 <= Len(file) /\ at + 1 \in Lines
      /\ Line = file[at + 1] /\ NextRole = Role[at + 1] /\ PointersInv
      /\ DOMAIN current = Pointers
  BY NextIs DEF LoadInv, PointersInv
<1>2. ASSUME NEW q \in 1..at, OnStep(q, at, current), current'.model = current.model,
             current'.step = current.step
      PROVE  OnStep(q, at + 1, current')
  BY <1>1, <1>2, RanksKept DEF OnStep
<1>3. CASE ReadModel
  <2>1. NextRole = "model"
    BY <1>3, ReadTells
  <2>2. Nests(Line, Role[Parent(at + 1)], NextRole)
    BY <1>1, WellFormedLine
  <2>3. PlainKey(Line) = Line.key
    BY <2>1, <2>2 DEF Nests, Heading, Sections, PlainKey
  <2>4. PICK id : id = <<Line.key>>
    OBVIOUS
  <2>5. current' = InModel(id)
    BY <1>3, <2>3, <2>4 DEF ReadModel
  <2>6. current'.model = id
    BY <1>1, <2>5 DEF InModel, Pointers
  <2> QED BY <1>1, <2>1, <2>4, <2>6 DEF Placed, PointsAfter
<1>4. CASE ReadChain
  <2>1. NextRole = "chain"
    BY <1>4, ReadTells
  <2>2. current'.model = current.model
    BY <1>1, <1>4 DEF ReadChain, InModel, Pointers
  <2>3. current.model = <<file[Parent(at + 1)].key>>
    BY <2>1, ModelPointed
  <2> QED BY <1>1, <2>1, <2>2, <2>3 DEF Placed, PointsAfter
<1>5. CASE ReadStep
  <2>1. NextRole = "step"
    BY <1>5, ReadTells
  <2>2. PICK m : m = ModelOf(at + 1)
    OBVIOUS
  <2>3. current.model = m /\ m \in Ids(at)
    BY <2>1, <2>2, ModelPointed
  <2>4. Chain = ChainSaid(m, at)
    BY <2>3, ConfigNow DEF Chain
  <2>5. PICK S \in SUBSET (1..at) : S = StepsOf(m, at)
    BY <1>1, LinesOfSteps
  <2>6. Len(Chain) = Cardinality(S)
    BY <1>1, <2>1, <2>2, <2>4, <2>5, ChainAppends
  <2>7. StepsOf(m, at + 1) = S \cup {at + 1}
    BY <1>1, <2>1, <2>2, <2>5, LinesOfSteps
  <2>8. Rank(S \cup {at + 1}, at + 1) = Len(Chain) + 1
    BY <1>1, <2>6, RankKept
  <2>9. current' = InStep(Len(Chain) + 1)
    BY <1>5 DEF ReadStep
  <2>10. current'.model = m /\ current'.step = Len(Chain) + 1
    BY <1>1, <2>3, <2>9 DEF InStep, Pointers
  <2>11. OnStep(at + 1, at + 1, current')
    BY <2>2, <2>7, <2>8, <2>10 DEF OnStep
  <2> QED BY <1>1, <2>1, <2>3, <2>10, <2>11 DEF Placed, PointsAfter
<1>6. CASE ReadTaps \/ ReadFading
  <2>1. NextRole \in {"taps", "fading"}
    BY <1>6, ReadTells
  <2>2. current'.model = current.model /\ current'.step = current.step
    BY <1>1, <1>6 DEF ReadTaps, ReadFading, Pointers
  <2>3. PICK q : q = Parent(at + 1)
    OBVIOUS
  <2>4. NextRole \in InnerRoles /\ StepAt(at + 1) = q
    BY <1>1, <2>1, <2>3 DEF InnerRoles, StepAt
  <2>5. q \in 1..at /\ OnStep(q, at, current)
    BY <1>1, <2>4, NestedInStep, StepPointed
  <2>6. OnStep(q, at + 1, current')
    BY <1>2, <2>2, <2>5
  <2> QED BY <1>1, <2>1, <2>2, <2>3, <2>6 DEF Placed, PointsAfter
<1>7. CASE ReadTap
  <2>1. NextRole = "tap"
    BY <1>7, ReadTells
  <2>2. /\ current'.model = current.model /\ current'.step = current.step
        /\ current'.tap = Len(Step.taps) + 1
    BY <1>1, <1>7 DEF ReadTap, Pointers
  <2>3. PICK q : q = Parent(Parent(at + 1))
    OBVIOUS
  <2>4. NextRole \in InnerRoles /\ StepAt(at + 1) = q
    BY <1>1, <2>1, <2>3 DEF InnerRoles, StepAt
  <2>5. q \in 1..at /\ OnStep(q, at, current) /\ Step = StepSaid(q, at)
    BY <1>1, <2>4, NestedInStep, StepPointed, StepIsSaid
  <2>6. OnStep(q, at + 1, current')
    BY <1>2, <2>2, <2>5
  <2>7. PICK S \in SUBSET (1..at) : S = Within(q, "tap", at)
    BY <1>1, LinesWithin
  <2>8. Len(Step.taps) = Cardinality(S)
    BY <1>1, <2>1, <2>3, <2>5, <2>7, TapSays
  <2>9. Within(q, "tap", at + 1) = S \cup {at + 1}
    BY <1>1, <2>1, <2>3, <2>7, LinesWithin
  <2>10. Rank(S \cup {at + 1}, at + 1) = Len(Step.taps) + 1
    BY <1>1, <2>8, RankKept
  <2>11. current'.tap = Rank(Within(q, "tap", at + 1), at + 1)
    BY <2>2, <2>9, <2>10
  <2> QED BY <1>1, <2>1, <2>2, <2>3, <2>6, <2>11 DEF Placed, PointsAfter
<1> QED BY <1>3, <1>4, <1>5, <1>6, <1>7

LEMMA ModelLinesPlaced ==
  ASSUME LoadInv, NestInv, SaidInv, WellFormed, UNCHANGED <<folded, synthesized>>,
         ModelLineRead
  PROVE  PlacedAfter
<1>1. Consumed
  BY ModelLineConsumes
<1>2. FileInv /\ at \in Nat /\ at + 1 \in Nat /\ NextRole = Role[at + 1]
  BY <1>1, NextIs
<1>3. section = "models"
  BY DEF ModelLineRead, ReadModel, ReadChain, ReadStep, ReadTaps, ReadFading, ReadTap,
         ReadTapKey, ReadFadingKey, ReadStepKey, ModelLine, ChainLine, StepLine, TapsLine,
         FadingLine, TapLine, TapKeyLine, FadingKeyLine, StepKeyLine, Reading
<1>4. CASE ReadTapKey \/ ReadFadingKey \/ ReadStepKey
  <2>1. current' = current
    BY <1>4 DEF ReadTapKey, ReadFadingKey, ReadStepKey
  <2>2. NextRole \in {"step key", "tap key", "fading key"}
    BY <1>4, ReadTells
  <2>3. Placed(at + 1, at + 1, current)
    BY <1>2, <2>2, KeyPlaced
  <2>4. \A p \in 1..at :
          Open(p) /\ Placed(p, at, current) /\ file[p].indent < Line.indent =>
            Placed(p, at + 1, current)
    BY <1>1, <1>2, PlaceStays
  <2> QED BY <2>1, <2>3, <2>4 DEF PlacedAfter
<1>5. CASE ReadModel \/ ReadChain \/ ReadStep \/ ReadTaps \/ ReadFading \/ ReadTap
  BY <1>1, <1>3, <1>5, OpensPlaced, ModelsStayPlaced DEF PlacedAfter
<1> QED BY <1>4, <1>5 DEF ModelLineRead

(***************************************************************************)
(* Every step keeps what is said.                                          *)
(***************************************************************************)

LEMMA ReaderKeepsSaid ==
  ASSUME LoadInv, NestInv, SaidInv, ReadLine, UNCHANGED <<folded, synthesized>>
  PROVE  SaidInv'
<1>1. FileInv
  BY DEF LoadInv
<1>2. CASE ReadSection \/ ReadRuntime \/ ReadDevice \/ ReadLink
  <2>1. Consumed
    BY <1>2 DEF ReadSection, ReadRuntime, ReadDevice, ReadLink, RuntimeLine, DeviceLine,
         LinkLine, ItemLine, Reading, Consume, Consumed
  <2> QED BY <1>1, <1>2, <2>1, TopLinesSaid, TopLinesPlaced, SaidStays
<1>3. CASE SkipLine
  <2>1. Consumed
    BY <1>3 DEF SkipLine, Reading, Consume, Consumed
  <2> QED BY <1>1, <1>3, <2>1, ReadTells, SaidStays
<1>4. CASE ModelLineRead
  <2>1. Consumed
    BY <1>4, ModelLineConsumes
  <2>2. ASSUME WellFormed PROVE config' = SaidBy(at + 1)
    BY <1>4, <2>1, <2>2, StepLinesSaid, ModelLinesSaid DEF ModelLineRead
  <2>3. WellFormed => PlacedAfter
    BY <1>4, ModelLinesPlaced
  <2> QED BY <1>1, <2>1, <2>2, <2>3, SaidStays
<1>5. CASE ReadFails
  <2>1. phase' = "rejected"
    BY <1>5 DEF ReadFails
  <2> QED BY <2>1 DEF SaidInv, AtEnd
<1>6. CASE EndOfFile
  <2>1. /\ phase = "reading" /\ at = Len(file) /\ phase' = "folding" /\ parsed' = config
        /\ file' = file
    BY <1>6 DEF EndOfFile, readerVars
  <2>2. WellFormed => parsed' = SaidBy(Len(file))
    BY <2>1 DEF SaidInv
  <2>3. WellFormed' = WellFormed
    BY <2>1, SameRoles
  <2>4. \A n \in {Len(file)} : SaidBy(n)' = SaidBy(n)
    BY <2>1, SameSaid
  <2>5. SaidBy(Len(file))' = SaidBy(Len(file))
    BY <2>1, <2>4
  <2> QED BY <2>1, <2>2, <2>3, <2>5 DEF SaidInv
<1> QED BY <1>2, <1>3, <1>4, <1>5, <1>6 DEF ReadLine, ModelLineRead

\* No block, and none is listed.
LEMMA NoItems ==
  ASSUME NEW key, NEW fresh, NEW keys, NEW n
  PROVE  Items({}, key, fresh, keys, n) = <<>>
<1>1. PICK f : /\ ItemsOver(f, {}, key, fresh, keys, n)
               /\ Items({}, key, fresh, keys, n) = Listed(f)
  BY ItemsAre
<1>2. {} \in SUBSET (1..0) /\ 0 \in Nat /\ Over(f, {})
  BY <1>1 DEF ItemsOver
<1>3. Listed(f) \in Seq({}) /\ Len(Listed(f)) = Cardinality({})
  <2>1. \A i \in {} : f[i] \in {}
    OBVIOUS
  <2> QED BY <1>2, <2>1, ListedIsSeq
<1>4. Listed(f) = <<>>
  BY <1>3, FS_EmptySet
<1> QED BY <1>1, <1>4

\* Before the first line nothing is said.
LEMMA NothingSaid == SaidBy(0) = NoConfig
<1>1. /\ \A role : Having(role, 0) = {}
      /\ \A model : StepsOf(model, 0) = {}
  BY DEF Having, StepsOf
<1>2. RuntimeSaid(0) = DefaultRuntime
  <2> DEFINE none == Settled(DefaultRuntime, RuntimeKeys, Having("runtime key", 0))
             batch == LastOf(Having("runtime key", 0), "batch_samples")
             auto == batch = 0 \/ file[batch].value = Word("auto")
             size == IF auto THEN 0 ELSE file[batch].value.n
  <2>1. Over(DefaultRuntime, DOMAIN DefaultRuntime)
    BY DEF Over, DefaultRuntime
  <2>2. batch = 0
    BY <1>1, LastOfNone
  <2>3. none = DefaultRuntime
    BY <1>1, <2>1, SettledNone
  <2>4. RuntimeSaid(0) = [none EXCEPT !.batch_samples_auto = auto, !.batch_samples = size]
    BY DEF RuntimeSaid
  <2>5. auto = TRUE /\ size = 0
    BY <2>2
  <2>6. PICK r : r = DefaultRuntime
    OBVIOUS
  <2>7. PICK t : t = TRUE
    OBVIOUS
  <2>8. /\ DefaultRuntime.batch_samples_auto = TRUE /\ DefaultRuntime.batch_samples = 0
        /\ DefaultRuntime = [f \in DOMAIN DefaultRuntime |-> DefaultRuntime[f]]
    BY SMT DEF DefaultRuntime
  <2>9. /\ r.batch_samples_auto = t /\ r.batch_samples = 0
        /\ r = [f \in DOMAIN r |-> r[f]]
    BY <2>6, <2>7, <2>8
  <2>10. [r EXCEPT !.batch_samples_auto = t, !.batch_samples = 0] = r
    BY <2>9
  <2> HIDE DEF none, auto, size
  <2>11. RuntimeSaid(0) = [r EXCEPT !.batch_samples_auto = t, !.batch_samples = 0]
    BY <2>3, <2>4, <2>5, <2>6, <2>7
  <2> QED BY <2>6, <2>10, <2>11
<1>3. DevicesSaid(0) = <<>> /\ LinksSaid(0) = <<>>
  <2>1. Having("device", 0) = {} /\ Having("link", 0) = {}
    BY <1>1
  <2>2. Items({}, "device key", DefaultDevice, DeviceKeys, 0) = <<>>
    BY NoItems
  <2>3. Items({}, "link key", DefaultLink, LinkKeys, 0) = <<>>
    BY NoItems
  <2> QED BY <2>1, <2>2, <2>3 DEF DevicesSaid, LinksSaid
<1>4. ModelsSaid(0) = <<>>
  BY <1>1 DEF ModelsSaid, Ids
<1> QED BY <1>2, <1>3, <1>4, SaidParts DEF ConfigOf, NoConfig

LEMMA SaidInvariant == Spec => []SaidInv
<1>1. Init => SaidInv
  <2> SUFFICES ASSUME Init PROVE SaidInv
    OBVIOUS
  <2>1. at = 0 /\ config = NoConfig /\ phase = "reading"
    BY DEF Init, ReaderInit
  <2>2. 1..at = {}
    BY <2>1
  <2>3. config = SaidBy(at)
    BY <2>1, NothingSaid
  <2> QED BY <2>1, <2>2, <2>3 DEF SaidInv, AtEnd
<1>2. LoadInv /\ NestInv /\ SaidInv /\ [Next]_vars => SaidInv'
  <2> SUFFICES ASSUME LoadInv, NestInv, SaidInv, [Next]_vars PROVE SaidInv'
    OBVIOUS
  <2>1. CASE ReadLine /\ UNCHANGED <<folded, synthesized>>
    BY <2>1, ReaderKeepsSaid
  <2>2. ASSUME UNCHANGED <<file, parsed>>, AtEnd' => AtEnd, phase' # "reading"
        PROVE  SaidInv'
    <3>1. WellFormed' = WellFormed
      BY <2>2, SameRoles
    <3>2. \A n \in {Len(file)} : SaidBy(n)' = SaidBy(n)
      BY <2>2, SameSaid
    <3>3. SaidBy(Len(file))' = SaidBy(Len(file))
      BY <2>2, <3>2
    <3> QED BY <2>2, <3>1, <3>3 DEF SaidInv
  <2>3. CASE FoldNothing \/ FoldCached \/ FoldClone \/ FoldsDone \/ ValidateConfig
             \/ CreateProcessor
    <3>1. UNCHANGED <<file, parsed>> /\ phase \in {"folding", "validating", "loaded"}
          /\ phase' # "reading"
      BY <2>3 DEF FoldNothing, FoldCached, FoldClone, FoldsDone, ValidateConfig,
         CreateProcessor, Judge, Folding, NextLink, readerVars
    <3> QED BY <2>2, <3>1 DEF AtEnd
  <2>4. CASE UNCHANGED vars
    <3>1. UNCHANGED <<file, at, phase, section, current, config, parsed>>
      BY <2>4 DEF vars, readerVars
    <3>2. CASE phase # "reading"
      <4>1. AtEnd' => AtEnd
        BY <3>1 DEF AtEnd
      <4> QED BY <2>2, <3>1, <3>2, <4>1
    <3>3. CASE phase = "reading"
      <4>1. WellFormed' = WellFormed
        BY <3>1, SameRoles
      <4>2. \A n \in {at} : SaidBy(n)' = SaidBy(n)
        BY <3>1, SameSaid
      <4>3. \A p : \A n \in {at} : Placed(p, n, current)' = Placed(p, n, current')
        BY <3>1, SameSaid
      <4>4. \A p : Open(p)' = Open(p)
        BY <3>1 DEF Open
      <4>5. WellFormed' => config' = SaidBy(at)'
        BY <3>1, <3>3, <4>1, <4>2 DEF SaidInv
      <4>6. ASSUME WellFormed', NEW p \in 1..at', Open(p)' PROVE Placed(p, at, current)'
        BY <3>1, <3>3, <4>1, <4>3, <4>4, <4>6 DEF SaidInv
      <4> QED BY <3>1, <3>3, <4>5, <4>6 DEF SaidInv, AtEnd
    <3> QED BY <3>2, <3>3
  <2> QED BY <2>1, <2>3, <2>4 DEF Next
<1> QED BY LoadInvariant, NestInvariant, <1>1, <1>2, PTL DEF Spec

\* Whatever blocks a well-formed file has, in whatever order and nested in whatever
\* others the documents allow, load_config_file reads it to its end and has read what
\* its nesting says: each value is in the block its line is nested in, the last one of
\* a key is kept, and the blocks are in the order of the lines that open them.
THEOREM ReadAsNested == Spec => []ReadsAsNested
<1>1. SaidInv /\ NestInv => ReadsAsNested
  BY DEF SaidInv, NestInv, ReadsAsNested, AtEnd
<1> QED BY SaidInvariant, NestInvariant, <1>1, PTL

(***************************************************************************)
(* What the fold gives a link.                                             *)
(***************************************************************************)

\* No two links of one model have different delays that are printed alike.
PrintsApart == \A l, k \in Named : PrintAlike(l, k) => Due(l) = Due(k)

\* Delays below ten thousand samples are printed with all their digits.
ShortDelays ==
  \A l \in DOMAIN parsed.links :
    /\ TxOffset(parsed, parsed.links[l]) < 1000000
    /\ parsed.links[l].propagation_delay_samples < 1000000

LEMMA ShortDelaysPrintApart == LoadInv /\ AtEnd /\ ShortDelays => PrintsApart
<1> SUFFICES ASSUME LoadInv, AtEnd, ShortDelays, NEW l \in Named, NEW k \in Named,
                    PrintAlike(l, k)
             PROVE  Due(l) = Due(k)
  BY DEF PrintsApart
<1> DEFINE A(j) == TxOffset(parsed, parsed.links[j])
           B(j) == parsed.links[j].propagation_delay_samples
<1>1. ConfigInv /\ FoldInv
  BY DEF LoadInv
<1>2. \A d \in Int : d < 1000000 => Printed(d) = d
  BY SMT DEF Printed
<1>3. \A j \in {l, k} : Printed(A(j)) = A(j) /\ Printed(B(j)) = B(j)
  BY <1>1, <1>2, DelaysAreInt DEF ShortDelays, Named
<1>4. A(l) = A(k) /\ B(l) = B(k)
  BY <1>3 DEF PrintAlike
<1> QED
  BY <1>4 DEF Due, TotalDelay

\* Clones of one name are clones of one model, for delays that are printed alike.
LEMMA OneNameAlike ==
  ASSUME ConfigInv, FoldInv, AtEnd, NEW l \in Named, NEW k \in Named,
         NameOf(l) = NameOf(k)
  PROVE  PrintAlike(l, k)
<1> DEFINE A(j) == Printed(TxOffset(parsed, parsed.links[j]))
           B(j) == Printed(parsed.links[j].propagation_delay_samples)
<1>1. parsed.links[l].model = parsed.links[k].model
  BY NameTells DEF Named
<1>2. PICK w : parsed.links[l].model = <<w>>
  BY WrittenName DEF Named
<1>3. ASSUME NEW j \in {l, k}
      PROVE  NameOf(j)[2] = A(j) /\ NameOf(j)[3] = B(j)
  <2>1. NameOf(j) = <<w>> \o <<A(j), B(j)>>
    BY <1>1, <1>2 DEF NameOf, EffectiveId
  <2>2. A(j) \in Int /\ B(j) \in Int
    BY DelaysAreInt, PrintedIsInt DEF Named
  <2> HIDE DEF A, B
  <2> QED
    BY <2>1, <2>2, CloneName
<1> QED
  BY <1>1, <1>3 DEF PrintAlike

LEMMA LeadingTapsTyped ==
  ASSUME NEW chain \in Seq(StepRec)
  PROVE  LeadingTaps(chain) \in Seq(TapRec)
<1>1. CASE Leads(chain)
  <2>1. chain[1] \in StepRec
    <3> HIDE DEF StepRec
    <3> QED
      BY <1>1 DEF Leads
  <2> QED
    BY <1>1, <2>1 DEF LeadingTaps, StepRec
<1>2. CASE ~Leads(chain)
  <2>1. LeadingTaps(chain) = <<DefaultTap>>
    BY <1>2 DEF LeadingTaps
  <2> HIDE DEF TapRec
  <2> QED
    BY <2>1, DefaultsTyped
<1> QED
  BY <1>1, <1>2

\* The clone has the taps of its model, later by the delay, and its other steps.
LEMMA DelayedShifts ==
  ASSUME NEW chain \in Seq(StepRec), NEW total \in Int
  PROVE  /\ LeadingTaps(Delayed(chain, total)) = Later(LeadingTaps(chain), total)
         /\ Behind(Delayed(chain, total)) = Behind(chain)
<1>1. CASE Leads(chain)
  <2> DEFINE taps == Later(chain[1].taps, total)
             first == [chain[1] EXCEPT !.taps = taps, !.taps_declared = TRUE]
             clone == [chain EXCEPT ![1] = first]
  <2>1. chain[1] \in StepRec /\ 1 \in DOMAIN chain /\ chain[1].type = "tdl"
    <3> HIDE DEF StepRec
    <3> QED
      BY <1>1 DEF Leads
  <2>2. first.type = "tdl" /\ first.taps = taps
    <3> HIDE DEF taps
    <3> QED
      BY <2>1 DEF StepRec
  <2>3. Delayed(chain, total) = [chain EXCEPT ![1].taps = taps, ![1].taps_declared = TRUE]
    BY <1>1 DEF Delayed
  <2> HIDE DEF taps, StepRec
  <2>4. Delayed(chain, total) = clone
    BY <2>1, <2>3
  <2> HIDE DEF first
  <2>5. /\ clone[1] = first /\ Len(clone) = Len(chain) /\ clone # <<>>
        /\ Tail(clone) = Tail(chain)
    BY <2>1
  <2>6. Leads(clone)
    BY <2>2, <2>5 DEF Leads
  <2> HIDE DEF clone
  <2> QED
    BY <1>1, <2>2, <2>4, <2>5, <2>6 DEF LeadingTaps, Behind, taps
<1>2. CASE ~Leads(chain)
  <2> DEFINE tap == [DefaultTap EXCEPT !.delay_samples = total]
             step == [DefaultStep EXCEPT !.taps = <<tap>>, !.taps_declared = TRUE]
             clone == <<step>> \o chain
  <2>1. step.type = "tdl" /\ step.taps = <<tap>>
    <3> HIDE DEF tap
    <3> QED
      BY DEF DefaultStep
  <2>2. tap \in TapRec /\ <<tap>> \in Seq(TapRec)
    <3>1. tap \in TapRec
      BY DefaultsTyped DEF TapRec
    <3> HIDE DEF tap, TapRec
    <3> QED
      BY <3>1
  <2>3. step \in StepRec
    <3> HIDE DEF tap
    <3> QED
      BY <2>2, DefaultsTyped DEF StepRec
  <2>4. Delayed(chain, total) = clone
    BY <1>2 DEF Delayed
  <2>5. Later(<<DefaultTap>>, total) = <<tap>>
    <3>1. [DefaultTap EXCEPT !.delay_samples = @ + total] = tap
      BY DEF DefaultTap
    <3> HIDE DEF tap
    <3> QED
      BY <3>1 DEF Later
  <2> HIDE DEF step, tap, StepRec
  <2>6. clone[1] = step /\ clone # <<>> /\ Tail(clone) = chain
    BY <2>3
  <2>7. Leads(clone)
    BY <2>1, <2>6 DEF Leads
  <2> HIDE DEF clone
  <2> QED
    BY <1>2, <2>1, <2>4, <2>5, <2>6, <2>7 DEF LeadingTaps, Behind
<1> QED
  BY <1>1, <1>2

LEMMA NoDelayIsNone ==
  ASSUME NEW taps \in Seq(TapRec)
  PROVE  Later(taps, 0) = taps
<1>1. \A t \in TapRec : [t EXCEPT !.delay_samples = @ + 0] = t
  <2>1. \A t \in TapRec : t.delay_samples + 0 = t.delay_samples
    BY DEF TapRec
  <2>2. \A t \in TapRec : [t EXCEPT !.delay_samples = t.delay_samples] = t
    BY DEF TapRec
  <2> QED
    BY <2>1, <2>2
<1>2. \A k \in DOMAIN taps : taps[k] \in TapRec
  <2> HIDE DEF TapRec
  <2> QED
    OBVIOUS
<1> HIDE DEF TapRec
<1> QED
  BY <1>1, <1>2 DEF Later

\* A link's own delay is printed like itself.
LEMMA OwnDelay == \A l \in Named : Due(l) \in StandsFor(l)
BY DEF StandsFor, PrintAlike

\* What a link runs after the fold: its model as written, or a clone of it.
LEMMA GotIsDelayed ==
  ASSUME LoadInv, Folded, NEW l \in Named
  PROVE  /\ Asked(l) \in Seq(StepRec) /\ Due(l) \in Int
         /\ \E total \in StandsFor(l) :
              /\ total \in Int
              /\ \/ total = 0 /\ Got(l) = Asked(l)
                 \/ Got(l) = Delayed(Asked(l), total)
<1>1. /\ ConfigInv /\ FoldInv /\ AtEnd
      /\ LinksKept /\ ModelsKept /\ ClonesMade /\ LinksFolded /\ folded = Len(config.links)
  BY DEF LoadInv, FoldInv, Folded, AtEnd
<1>2. l \in DOMAIN parsed.links /\ parsed.links[l].model \in DOMAIN parsed.models
  BY DEF Named
<1>3. Asked(l) \in Seq(StepRec)
  <2>1. config.models[parsed.links[l].model] \in ModelRec
        /\ Asked(l) = config.models[parsed.links[l].model].chain
    BY <1>1, <1>2 DEF ConfigInv, ModelsKept, Asked
  <2> HIDE DEF StepRec
  <2> QED
    BY <2>1 DEF ModelRec
<1>4. \A k \in Named : Due(k) \in Int
  BY <1>1, DelaysAreInt DEF Named
<1>5. IF Due(l) # 0 THEN Shifted(l) ELSE config.links[l].model = parsed.links[l].model
  <2>1. l <= folded
    <3> HIDE DEF LinkTo
    <3> QED
      BY <1>1, <1>2 DEF LinksKept
  <2> QED
    BY <1>1, <1>2, <2>1 DEF LinksFolded
<1>6. CASE Due(l) = 0
  <2>1. Got(l) = Asked(l)
    BY <1>1, <1>2, <1>5, <1>6 DEF ModelsKept, Got, Asked
  <2> HIDE DEF StepRec
  <2> QED
    BY <1>3, <1>4, <1>6, <2>1, OwnDelay
<1>7. CASE Due(l) # 0
  <2>1. PICK k \in Named :
          /\ Due(k) = Due(l) /\ parsed.links[k].model = parsed.links[l].model
          /\ config.links[l].model = NameOf(k) /\ NameOf(k) \in DOMAIN config.models
    BY <1>5, <1>7 DEF Shifted
  <2>2. NameOf(k) \notin DOMAIN parsed.models
    BY <1>1, NameTells DEF ConfigInv, Named
  <2>3. PICK j \in Named : /\ NameOf(k) = NameOf(j)
                           /\ config.models[NameOf(k)].chain = Delayed(Asked(j), Due(j))
    BY <1>1, <2>1, <2>2 DEF ClonesMade
  <2>4. Due(j) \in StandsFor(l)
    BY <1>1, <2>1, <2>3, OneNameAlike DEF StandsFor
  <2>5. Asked(j) = Asked(l)
    BY <1>1, <2>1, <2>3, NameTells DEF Asked, Named
  <2>6. Got(l) = Delayed(Asked(l), Due(j))
    BY <2>1, <2>3, <2>5 DEF Got
  <2> HIDE DEF StepRec
  <2> QED
    BY <1>3, <1>4, <2>4, <2>6
<1> QED
  BY <1>6, <1>7

LEMMA EachDelayShown == LoadInv => EachDelayOnce
<1> SUFFICES ASSUME LoadInv, Folded, NEW l \in Named
             PROVE  \E total \in StandsFor(l) : DelayedBy(l, total)
  BY DEF EachDelayOnce
<1>1. Asked(l) \in Seq(StepRec)
  BY GotIsDelayed
<1>2. PICK total \in StandsFor(l) : /\ total \in Int
                                    /\ \/ total = 0 /\ Got(l) = Asked(l)
                                       \/ Got(l) = Delayed(Asked(l), total)
  BY GotIsDelayed
<1> HIDE DEF StepRec
<1>3. LeadingTaps(Got(l)) = Later(LeadingTaps(Asked(l)), total)
      /\ Behind(Got(l)) = Behind(Asked(l))
  <2>1. CASE total = 0 /\ Got(l) = Asked(l)
    BY <1>1, <2>1, LeadingTapsTyped, NoDelayIsNone
  <2>2. CASE Got(l) = Delayed(Asked(l), total)
    BY <1>1, <1>2, <2>2, DelayedShifts
  <2> QED
    BY <1>2, <2>1, <2>2
<1> QED
  BY <1>3 DEF DelayedBy, Later

\* After the fold every link has its model as written, later by its own delay
\* and the offset of its source, once, in the digits that fold_link_leading_delays
\* prints, whatever the file and the links that share a model.
THEOREM EachDelayFoldedOnce == Spec => []EachDelayOnce
BY LoadInvariant, EachDelayShown, PTL

\* The delay itself, with all its digits: what the documents promise of a link.
EachDelayExact == Folded => \A l \in Named : DelayedBy(l, Due(l))

LEMMA ApartIsExact == LoadInv /\ PrintsApart => EachDelayExact
<1> SUFFICES ASSUME LoadInv, PrintsApart, Folded, NEW l \in Named
             PROVE  DelayedBy(l, Due(l))
  BY DEF EachDelayExact
<1>1. StandsFor(l) = {Due(l)}
  BY OwnDelay DEF StandsFor, PrintsApart
<1> QED
  BY <1>1, EachDelayShown DEF EachDelayOnce

\* Delays below ten thousand samples are printed in full: in a file that has no
\* others every link is later by exactly its own delay and its source's offset.
THEOREM ShortDelaysFoldedOnce == Spec => [](ShortDelays => EachDelayExact)
<1>1. LoadInv /\ ShortDelays => EachDelayExact
  <2>1. CASE ~Folded
    BY <2>1 DEF EachDelayExact
  <2>2. CASE Folded
    BY <2>2, ShortDelaysPrintApart, ApartIsExact DEF Folded, AtEnd
  <2> QED
    BY <2>1, <2>2
<1> QED
  BY LoadInvariant, <1>1, PTL

\* In a configuration that is loaded every link has a model that was written:
\* validation finds its name, and no link bears the name of a clone unless its
\* own model was folded.
LEMMA LoadedIsNamed ==
  ASSUME LoadInv, phase \in {"loaded", "ready"}, NEW l \in DOMAIN parsed.links
  PROVE  l \in Named /\ l \in DOMAIN config.links
<1>1. /\ ConfigInv /\ FoldInv /\ AtEnd /\ Valid(config)
      /\ LinksKept /\ ClonesMade /\ LinksFolded /\ folded = Len(config.links)
  BY DEF LoadInv, FoldInv, AtEnd, ValidInv
<1>2. l \in DOMAIN config.links /\ l <= folded
  <2> HIDE DEF LinkTo
  <2> QED
    BY <1>1 DEF LinksKept, ConfigInv
<1>3. config.links[l].model \in DOMAIN config.models
  BY <1>1, <1>2 DEF Valid, LinkValid
<1>4. ASSUME l \notin Named
      PROVE  FALSE
  <2>1. config.links[l].model = parsed.links[l].model
    BY <1>1, <1>2, <1>4 DEF LinksFolded
  <2>2. parsed.links[l].model \in DOMAIN config.models \ DOMAIN parsed.models
    BY <1>3, <1>4, <2>1 DEF Named
  <2>3. PICK k \in Named : parsed.links[l].model = NameOf(k)
    BY <1>1, <2>2 DEF ClonesMade
  <2> QED
    BY <1>1, <2>3, WrittenName, NameTells DEF Named
<1> QED
  BY <1>2, <1>4

\* The cap on tap delays holds of what a link will run: what validate_config has
\* judged is the sum of the tap's delay, the link's and its source's.
THEOREM DelaysCapped == Spec => [](PrintsApart => DelaysWithinCap)
<1>1. LoadInv /\ PrintsApart => DelaysWithinCap
  <2> SUFFICES ASSUME LoadInv, PrintsApart, phase \in {"loaded", "ready"},
                      NEW l \in DOMAIN parsed.links,
                      NEW k \in DOMAIN LeadingTaps(Asked(l))
               PROVE  LeadingTaps(Asked(l))[k].delay_samples + Due(l)
                        \in 0..KMaxTapDelaySamples
    BY DEF DelaysWithinCap
  <2>1. Valid(config) /\ ConfigInv /\ Folded
    BY DEF LoadInv, ValidInv, Folded
  <2>2. l \in Named /\ l \in DOMAIN config.links
    BY LoadedIsNamed
  <2>3. /\ Asked(l) \in Seq(StepRec) /\ Due(l) \in Int
        /\ LeadingTaps(Got(l)) = Later(LeadingTaps(Asked(l)), Due(l))
    <3>1. EachDelayExact
      BY ApartIsExact
    <3>2. DelayedBy(l, Due(l))
      BY <2>1, <2>2, <3>1 DEF EachDelayExact
    <3> QED
      BY <2>1, <2>2, <3>2, GotIsDelayed DEF DelayedBy, Later
  <2>4. LeadingTaps(Asked(l))[k] \in TapRec
    <3>1. LeadingTaps(Asked(l)) \in Seq(TapRec)
      BY <2>3, LeadingTapsTyped
    <3> HIDE DEF TapRec
    <3> QED
      BY <3>1
  <2>5. /\ k \in DOMAIN LeadingTaps(Got(l))
        /\ LeadingTaps(Got(l))[k].delay_samples =
             LeadingTaps(Asked(l))[k].delay_samples + Due(l)
    BY <2>3, <2>4 DEF Later, TapRec
  <2>6. LeadingTaps(Got(l))[k].delay_samples \in 0..KMaxTapDelaySamples
    <3>1. CASE Leads(Got(l))
      <4>1. config.links[l].model \in DOMAIN config.models
        BY <2>1, <2>2 DEF Valid, LinkValid
      <4>2. ModelValid(config.models[config.links[l].model])
        BY <2>1, <4>1 DEF Valid, ModelsValid
      <4>3. StepValid(Got(l)[1]) /\ Got(l)[1].type = "tdl"
        <5>1. config.models[config.links[l].model] \in ModelRec
          BY <2>1, <4>1 DEF ConfigInv
        <5>2. Got(l) \in Seq(StepRec)
          <6> HIDE DEF StepRec
          <6> QED
            BY <5>1 DEF ModelRec, Got
        <5>3. 1 \in DOMAIN Got(l)
          <6> HIDE DEF StepRec
          <6> QED
            BY <3>1, <5>2 DEF Leads
        <5> QED
          BY <3>1, <4>2, <5>3 DEF Leads, ModelValid, Got
      <4>4. TapsValid(Got(l)[1])
        BY <4>3 DEF StepValid
      <4> QED
        BY <2>5, <3>1, <4>4 DEF TapsValid, LeadingTaps
    <3>2. CASE ~Leads(Got(l))
      <4>1. LeadingTaps(Got(l))[k] = DefaultTap
        BY <2>5, <3>2 DEF LeadingTaps
      <4>2. KMaxTapDelaySamples \in Nat
        BY DEF KMaxTapDelaySamples
      <4> QED
        BY <4>1, <4>2 DEF DefaultTap
    <3> QED
      BY <3>1, <3>2
  <2> QED
    BY <2>5, <2>6
<1> QED
  BY LoadInvariant, <1>1, PTL

(***************************************************************************)
(* What validation gives the broker.                                       *)
(***************************************************************************)

\* Ids are unique, so the first device of an id is the only one.
LEMMA DeviceIsFound ==
  ASSUME ConfigInv, Valid(config), NEW i \in DOMAIN config.devices
  PROVE  FindDevice(config, config.devices[i].id) = i
<1> DEFINE id == config.devices[i].id
<1>1. DOMAIN config.devices \subseteq Nat
  BY DEF ConfigInv
<1>2. \A a, b \in DOMAIN config.devices :
        b < a => config.devices[b].id # config.devices[a].id
  <2>1. \A a \in DOMAIN config.devices : DeviceValid(config, a)
    BY DEF Valid
  <2>2. \A a, b \in DOMAIN config.devices : b < a => b \in 1..(a - 1)
    BY DEF ConfigInv
  <2> QED
    BY <2>1, <2>2 DEF DeviceValid
<1>3. WithId(config.devices, id) = {i}
  BY <1>1, <1>2 DEF WithId
<1>4. Min({i}) = i
  BY <1>1 DEF Min
<1> QED
  BY <1>3, <1>4 DEF FindDevice

LEMMA FoundIsDevice ==
  ASSUME ConfigInv, Valid(config), NEW id, FindDevice(config, id) # 0
  PROVE  FindDevice(config, id) \in DOMAIN config.devices
<1>1. PICK i \in DOMAIN config.devices : config.devices[i].id = id
  BY DEF FindDevice, WithId
<1> QED
  BY <1>1, DeviceIsFound

LEMMA BatchIsPositive ==
  ASSUME ConfigInv, Valid(config), NEW i \in DOMAIN config.devices
  PROVE  ResolveBatchSamples(config.runtime, config.devices[i].sample_rate_hz) > 0
<1> DEFINE r == config.devices[i].sample_rate_hz \div 1000
<1>1. r \in Nat
  <2>1. config.devices[i] \in Device
    BY DEF ConfigInv
  <2>2. config.devices[i].sample_rate_hz \in Nat
    BY <2>1 DEF Device
  <2> QED
    BY <2>2
<1>2. Max({1, r}) >= 1
  <2> HIDE DEF r
  <2>1. \E x \in {1, r} : \A y \in {1, r} : x >= y
    BY <1>1
  <2> QED
    BY <1>1, <2>1 DEF Max
<1>3. Max({1, r}) \in Int
  <2> HIDE DEF r
  <2>1. \E x \in {1, r} : \A y \in {1, r} : x >= y
    BY <1>1
  <2> QED
    BY <1>1, <2>1 DEF Max
<1>4. config.runtime.batch_samples_auto = FALSE => config.runtime.batch_samples > 0
  BY DEF Valid, RuntimeValid
<1>5. config.runtime.batch_samples_auto \in BOOLEAN
  BY DEF ConfigInv, Runtime
<1> QED
  BY <1>2, <1>3, <1>4, <1>5 DEF ResolveBatchSamples

\* Every configuration that loads, from whatever file, meets the assumptions of
\* the relay: readers and sources everywhere, room for two batches, one batch at
\* both ends of a link.
THEOREM LoadedIsRelayable == Spec => []AcceptedIsRelayable
<1>1. LoadInv => AcceptedIsRelayable
  <2> SUFFICES ASSUME LoadInv, phase \in {"loaded", "ready"} PROVE AcceptedIsRelayable
    BY DEF AcceptedIsRelayable
  <2> DEFINE Batch(i) ==
               ResolveBatchSamples(config.runtime, config.devices[i].sample_rate_hz)
             Src(l) == FindDevice(config, config.links[l].from)
             Dst(l) == FindDevice(config, config.links[l].to)
  <2>1. ConfigInv /\ Valid(config)
    BY DEF LoadInv, ValidInv
  <2>2. \A l \in DOMAIN config.links : LinkValid(config, config.links[l])
    BY <2>1 DEF Valid
  <2>3. \A l \in DOMAIN config.links :
          Src(l) \in DOMAIN config.devices /\ Dst(l) \in DOMAIN config.devices
    BY <2>1, <2>2, FoundIsDevice DEF LinkValid
  <2>4. \A i \in DOMAIN config.devices : Relayed(config, config.devices[i])
    BY <2>1 DEF Valid
  <2>5. \A i \in DOMAIN config.devices : \E l \in DOMAIN config.links : Src(l) = i
    BY <2>1, <2>4, DeviceIsFound DEF Relayed
  <2>6. \A i \in DOMAIN config.devices : \E l \in DOMAIN config.links : Dst(l) = i
    BY <2>1, <2>4, DeviceIsFound DEF Relayed
  <2>7. \A i \in DOMAIN config.devices :
          Batch(i) > 0 /\ config.runtime.queue_samples >= 2 * Batch(i)
    <3>1. \A i \in DOMAIN config.devices : RoomForBatches(config.runtime, config.devices[i])
      BY <2>1 DEF Valid, DeviceValid
    <3> QED
      BY <2>1, <3>1, BatchIsPositive DEF RoomForBatches
  <2>8. \A l \in DOMAIN config.links : Batch(Src(l)) = Batch(Dst(l))
    BY <2>2 DEF LinkValid
  <2>9. {Src(l) : l \in DOMAIN config.links} = DOMAIN config.devices
    BY <2>3, <2>5
  <2>10. {Dst(l) : l \in DOMAIN config.links} = DOMAIN config.devices
    BY <2>3, <2>6
  <2> HIDE DEF Batch, Src, Dst
  <2> QED
    BY <2>7, <2>8, <2>9, <2>10 DEF AcceptedIsRelayable, Batch, Src, Dst
<1> QED
  BY LoadInvariant, <1>1, PTL
=============================================================================
