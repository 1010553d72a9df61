---------------------------- MODULE ConfigReader ----------------------------
(***************************************************************************)
(* load_config_file up to the end of the file: the block-style YAML reader *)
(* that keeps pointers to the device, link, model, step and tap it is in.  *)
(*                                                                         *)
(* A file is a sequence of lines without blank ones and comments.  A line  *)
(* has an indent, may start with a dash, and has a key and a value; a      *)
(* heading is a key with the empty value.  Numbers are whole: a delay in   *)
(* hundredths of a sample.  A name is a sequence of parts; one that is     *)
(* written in a file has one part.  Keys whose value nothing tells apart   *)
(* (role, gpu_device, phases, the spectrum) are read and dropped.          *)
(***************************************************************************)
EXTENDS SequencesExt, FiniteSetsExt, Integers

CONSTANT Files  \* the files that may be loaded

Word(w) == [is |-> "word", w |-> w]
Num(n)  == [is |-> "number", w |-> ToString(n), n |-> n]  \* w is its text
Flow    == [is |-> "flow"]  \* starts with a brace or a bracket
Empty   == Word("")
NoName  == <<"">>

ASSUME FilesAssumption ==
  \A f \in Files : Len(f) \in Nat /\ \A i \in 1..Len(f) :
    /\ DOMAIN f[i] = {"indent", "dash", "key", "value"}
    /\ f[i].indent \in Nat
    /\ f[i].dash \in BOOLEAN
    /\ f[i].value.is \in {"word", "number", "flow"}
    /\ f[i].value.is = "number" => f[i].value.n \in Int
    /\ f[i].value.is = "flow" => f[i].value = Flow

VARIABLES
  file,     \* the file being loaded
  at,       \* lines read
  phase,    \* "reading", "folding", "validating", "loaded", "ready", "rejected"
  section,
  current,  \* the pointers: device, link, step and tap by index, 0 for nullptr
  config,
  parsed    \* history: config at the end of the file

readerVars == <<file, at, section, current>>

Sections == {"runtime", "devices", "links", "models"}

DefaultRuntime ==
  [backend |-> "cuda", batch_samples_auto |-> TRUE, batch_samples |-> 0,
   queue_samples |-> 614400]
DefaultDevice ==
  [id |-> NoName, sample_rate_hz |-> 23040000, tx_endpoint |-> NoName,
   rx_endpoint |-> NoName, rx_model |-> NoName, tx_timing_offset_samples |-> 0]
DefaultLink ==
  [from |-> NoName, to |-> NoName, model |-> NoName, propagation_delay_samples |-> 0]
DefaultStep ==
  [type |-> "tdl", params |-> <<>>, taps |-> <<>>, taps_declared |-> FALSE,
   fading_enabled |-> FALSE, f_d_max_hz |-> 0, grid_us |-> 100]
DefaultTap == [delay_samples |-> 0, gain_db |-> 0, is_los |-> FALSE, los_k_db |-> 0]

StepTypes == {"path_loss", "awgn", "phase", "cfo", "tdl"}

\* The maps of the code: m[k] = v, and emplace, which keeps what is there.
Assigned(m, k, v) == [x \in DOMAIN m \cup {k} |-> IF x = k THEN v ELSE m[x]]
Emplaced(m, k, v) == IF k \in DOMAIN m THEN m ELSE Assigned(m, k, v)

(***************************************************************************)
(* Keys: what each block knows and how it parses the value.                *)
(***************************************************************************)

RuntimeKeys ==
  [backend |-> "backend", gpu_device |-> "u64", batch_samples |-> "batch",
   queue_samples |-> "u64"]
DeviceKeys ==
  [id |-> "text", role |-> "text", sample_rate_hz |-> "u64", tx_endpoint |-> "text",
   rx_endpoint |-> "text", rx_model |-> "text", tx_timing_offset_samples |-> "double"]
LinkKeys ==
  [from |-> "text", to |-> "text", model |-> "text",
   propagation_delay_samples |-> "double"]
TapKeys ==
  [delay_samples |-> "double", gain_db |-> "double", phase_rad |-> "double",
   is_los |-> "bool", los_k_db |-> "double", los_angle_rad |-> "double"]
FadingKeys == [f_d_max_hz |-> "double", spectrum |-> "spectrum", grid_us |-> "double"]

Parses(kind, v) ==
  CASE kind = "text"     -> TRUE
    [] kind = "double"   -> v.is = "number"
    [] kind = "u64"      -> v.is = "number" /\ v.n >= 0
    [] kind = "batch"    -> v = Word("auto") \/ (v.is = "number" /\ v.n >= 0)
    [] kind = "bool"     -> v \in {Word("true"), Word("false"), Num(1), Num(0)}
    [] kind = "backend"  -> v \in {Word("cpu"), Word("cuda")}
    [] kind = "spectrum" -> v \in {Word("jakes"), Word("gaussian"), Word("flat")}

Parsed(kind, v) ==
  CASE kind = "text"              -> <<v.w>>
    [] kind = "bool"              -> v \in {Word("true"), Num(1)}
    [] kind \in {"double", "u64"} -> v.n
    [] OTHER                      -> v.w

\* The key of a line read without regard to a dash: no block knows "- key".
PlainKey(l) == IF l.dash THEN "- " ELSE l.key

Applies(keys, k, v) == k \in DOMAIN keys /\ Parses(keys[k], v)

Apply(block, keys, k, v) ==
  IF k \in DOMAIN block THEN [block EXCEPT ![k] = Parsed(keys[k], v)] ELSE block

ApplyRuntime(r, k, v) ==
  IF k = "batch_samples"
  THEN [r EXCEPT !.batch_samples_auto = (v = Word("auto")),
                 !.batch_samples = IF v = Word("auto") THEN 0 ELSE v.n]
  ELSE Apply(r, RuntimeKeys, k, v)

StepApplies(k, v) ==
  \/ k = "type" /\ v \in {Word(t) : t \in StepTypes}
  \/ k # "type" /\ v.is = "number"

ApplyStep(s, k, v) ==
  IF k = "type" THEN [s EXCEPT !.type = v.w]
  ELSE [s EXCEPT !.params = Assigned(s.params, k, v.n)]

(***************************************************************************)
(* Where a line of the models section belongs, by its indent and the       *)
(* pointers; the tests of the if-chain, made to exclude each other.        *)
(***************************************************************************)

Heading(l, k) == ~l.dash /\ l.key = k /\ l.value = Empty

AtModel(l)  == l.indent = 2 /\ l.value = Empty
AtChain(l)  == ~AtModel(l) /\ current.model # NoName /\ Heading(l, "chain")
AtStep(l)   == current.model # NoName /\ l.indent = 6 /\ l.dash
AtTaps(l)   == current.step # 0 /\ l.indent = 8 /\ Heading(l, "taps")
AtFading(l) == current.step # 0 /\ l.indent = 8 /\ Heading(l, "fading")
AtTap(l)    == current.step # 0 /\ current.in_taps /\ l.indent = 10 /\ l.dash
AtTapKey(l) ==
  /\ current.tap # 0 /\ current.in_taps /\ l.indent = 12
  /\ ~AtChain(l)
AtFadingKey(l) ==
  /\ current.step # 0 /\ current.in_fading /\ l.indent = 10
  /\ ~AtChain(l)
AtStepKey(l) ==
  /\ current.step # 0 /\ ~current.in_taps /\ ~current.in_fading /\ l.indent = 8
  /\ ~AtChain(l) /\ ~AtTaps(l) /\ ~AtFading(l)

NoPointers ==
  [device |-> 0, link |-> 0, model |-> NoName, step |-> 0, tap |-> 0,
   in_taps |-> FALSE, in_fading |-> FALSE]

\* A mutated form of InModel: the step pointer is kept.
InModelKeepsStep(m) == [current EXCEPT !.model = m, !.tap = 0, !.in_taps = FALSE,
                                       !.in_fading = FALSE]

InModel(m) == [current EXCEPT !.model = m, !.step = 0, !.tap = 0,
                              !.in_taps = FALSE, !.in_fading = FALSE]

\* A mutated form of InStep: the tap list of the step before is left open.
InStepStillInTaps(n) == [current EXCEPT !.step = n, !.in_fading = FALSE]

InStep(n) == [current EXCEPT !.step = n, !.tap = 0, !.in_taps = FALSE,
                             !.in_fading = FALSE]

(***************************************************************************)
(* Actions: one per kind of line.                                          *)
(***************************************************************************)

Line == file[at + 1]

Reading(s) ==
  /\ phase = "reading"
  /\ at < Len(file)
  /\ Line.indent > 0 /\ Line.value # Flow
  /\ section = s

Consume == at' = at + 1 /\ UNCHANGED <<file, phase, parsed>>

TopLevel == Line.indent = 0 /\ \E s \in Sections : Heading(Line, s)

ReadSection ==
  /\ phase = "reading" /\ at < Len(file) /\ TopLevel
  /\ section' = Line.key
  /\ current' = NoPointers
  /\ UNCHANGED config
  /\ Consume

\* Indented lines before the first section are passed over.
SkipLine ==
  /\ Reading("none")
  /\ UNCHANGED <<section, current, config>>
  /\ Consume

RuntimeLine == Reading("runtime") /\ Applies(RuntimeKeys, PlainKey(Line), Line.value)

ReadRuntime ==
  /\ RuntimeLine
  /\ config' = [config EXCEPT !.runtime = ApplyRuntime(@, Line.key, Line.value)]
  /\ UNCHANGED <<section, current>>
  /\ Consume

\* A dash opens a device or a link; a line without one goes on with it.
ItemLine(s, pointer, keys) ==
  /\ Reading(s)
  /\ Line.dash \/ pointer # 0
  /\ Applies(keys, Line.key, Line.value)

Extended(items, fresh, keys) ==
  LET grown == IF Line.dash THEN Append(items, fresh) ELSE items
  IN  [grown EXCEPT ![Len(grown)] = Apply(@, keys, Line.key, Line.value)]

DeviceLine == ItemLine("devices", current.device, DeviceKeys)
LinkLine   == ItemLine("links", current.link, LinkKeys)

ReadDevice ==
  /\ DeviceLine
  /\ LET devices == Extended(config.devices, DefaultDevice, DeviceKeys)
     IN  /\ config' = [config EXCEPT !.devices = devices]
         /\ current' = [current EXCEPT !.device = Len(devices)]
  /\ UNCHANGED section
  /\ Consume

ReadLink ==
  /\ LinkLine
  /\ LET links == Extended(config.links, DefaultLink, LinkKeys)
     IN  /\ config' = [config EXCEPT !.links = links]
         /\ current' = [current EXCEPT !.link = Len(links)]
  /\ UNCHANGED section
  /\ Consume

ModelLine == Reading("models") /\ AtModel(Line)

\* emplace: a second model of the same name goes on with the chain of the first.
ReadModel ==
  /\ ModelLine
  /\ LET id == <<PlainKey(Line)>>
     IN  /\ config' = [config EXCEPT !.models = Emplaced(@, id, [chain |-> <<>>])]
         /\ current' = InModel(id)
  /\ UNCHANGED section
  /\ Consume

ChainLine == Reading("models") /\ AtChain(Line)

ReadChain ==
  /\ ChainLine
  /\ current' = InModel(current.model)
  /\ UNCHANGED <<section, config>>
  /\ Consume

Chain == config.models[current.model].chain

StepLine == Reading("models") /\ AtStep(Line) /\ StepApplies(Line.key, Line.value)

ReadStep ==
  /\ StepLine
  /\ LET step == ApplyStep(DefaultStep, Line.key, Line.value)
     IN  config' = [config EXCEPT !.models[current.model].chain = Append(@, step)]
  /\ current' = InStep(Len(Chain) + 1)
  /\ UNCHANGED section
  /\ Consume

Step == Chain[current.step]
WithStep(step) ==
  [config EXCEPT !.models[current.model].chain[current.step] = step]

TapsLine == Reading("models") /\ AtTaps(Line)

ReadTaps ==
  /\ TapsLine
  /\ config' = WithStep([Step EXCEPT !.taps_declared = TRUE])
  /\ current' = [current EXCEPT !.in_taps = TRUE, !.tap = 0, !.in_fading = FALSE]
  /\ UNCHANGED section
  /\ Consume

FadingLine == Reading("models") /\ AtFading(Line)

ReadFading ==
  /\ FadingLine
  /\ config' = WithStep([Step EXCEPT !.fading_enabled = TRUE])
  /\ current' = [current EXCEPT !.in_taps = FALSE, !.tap = 0, !.in_fading = TRUE]
  /\ UNCHANGED section
  /\ Consume

TapLine == Reading("models") /\ AtTap(Line) /\ Applies(TapKeys, Line.key, Line.value)

ReadTap ==
  /\ TapLine
  /\ LET tap == Apply(DefaultTap, TapKeys, Line.key, Line.value)
     IN  config' = WithStep([Step EXCEPT !.taps = Append(@, tap)])
  /\ current' = [current EXCEPT !.tap = Len(Step.taps) + 1]
  /\ UNCHANGED section
  /\ Consume

TapKeyLine ==
  /\ Reading("models") /\ AtTapKey(Line)
  /\ Applies(TapKeys, PlainKey(Line), Line.value)

ReadTapKey ==
  /\ TapKeyLine
  /\ config' = WithStep(
       [Step EXCEPT !.taps[current.tap] = Apply(@, TapKeys, Line.key, Line.value)])
  /\ UNCHANGED <<section, current>>
  /\ Consume

FadingKeyLine ==
  /\ Reading("models") /\ AtFadingKey(Line)
  /\ Applies(FadingKeys, PlainKey(Line), Line.value)

ReadFadingKey ==
  /\ FadingKeyLine
  /\ config' = WithStep(Apply(Step, FadingKeys, Line.key, Line.value))
  /\ UNCHANGED <<section, current>>
  /\ Consume

StepKeyLine ==
  /\ Reading("models") /\ AtStepKey(Line)
  /\ StepApplies(PlainKey(Line), Line.value)

ReadStepKey ==
  /\ StepKeyLine
  /\ config' = WithStep(ApplyStep(Step, PlainKey(Line), Line.value))
  /\ UNCHANGED <<section, current>>
  /\ Consume

\* Any other line throws, and nothing is loaded.
ReadFails ==
  /\ phase = "reading" /\ at < Len(file)
  /\ ~ \/ Reading("none") \/ TopLevel \/ RuntimeLine \/ DeviceLine \/ LinkLine \/ ModelLine
       \/ ChainLine \/ StepLine \/ TapsLine \/ FadingLine \/ TapLine \/ TapKeyLine
       \/ FadingKeyLine \/ StepKeyLine
  /\ phase' = "rejected"
  /\ UNCHANGED <<readerVars, config, parsed>>

EndOfFile ==
  /\ phase = "reading" /\ at = Len(file)
  /\ phase' = "folding"
  /\ parsed' = config
  /\ UNCHANGED <<readerVars, config>>

NoConfig ==
  [runtime |-> DefaultRuntime, devices |-> <<>>, links |-> <<>>, models |-> <<>>]

ReaderInit ==
  /\ file \in Files
  /\ at = 0
  /\ phase = "reading"
  /\ section = "none"
  /\ current = NoPointers
  /\ config = NoConfig
  /\ parsed = NoConfig

ReadLine ==
  \/ ReadSection \/ SkipLine \/ ReadRuntime \/ ReadDevice \/ ReadLink
  \/ ReadModel \/ ReadChain \/ ReadStep \/ ReadTaps \/ ReadFading \/ ReadTap
  \/ ReadTapKey \/ ReadFadingKey \/ ReadStepKey \/ ReadFails \/ EndOfFile

(***************************************************************************)
(* What a file says, by its nesting alone: the parent of a line is the     *)
(* last line before it that is indented less.                              *)
(***************************************************************************)

Lines == 1..Len(file)

Parent(i) == Max({0} \cup {j \in 1..(i - 1) : file[j].indent < file[i].indent})

\* No list of taps and no fading before line i in its parent.
NothingNested(i) ==
  \A j \in (Parent(i) + 1)..(i - 1) : file[j].indent <= file[i].indent =>
    ~Heading(file[j], "taps") /\ ~Heading(file[j], "fading")

\* What a line is within a line of some role; a model has a name.
RoleIn(i, within) ==
  LET l == file[i]
      Opens(k) == Heading(l, k)
      Plain == ~l.dash /\ l.value # Empty
  IN
  CASE within = "none" /\ l.indent = 0 /\ (\E s \in Sections : Opens(s)) -> l.key
    [] within = "runtime" /\ ~l.dash                           -> "runtime key"
    [] within = "devices" /\ l.dash                            -> "device"
    [] within = "device" /\ ~l.dash                            -> "device key"
    [] within = "links" /\ l.dash                              -> "link"
    [] within = "link" /\ ~l.dash                              -> "link key"
    [] within = "models" /\ l.indent = 2 /\ Opens(l.key) /\ l.key # "" -> "model"
    [] within = "model" /\ l.indent = 4 /\ Opens("chain")      -> "chain"
    [] within = "chain" /\ l.indent = 6 /\ l.dash              -> "step"
    [] within = "step" /\ l.indent = 8 /\ Opens("taps")        -> "taps"
    [] within = "step" /\ l.indent = 8 /\ Opens("fading")      -> "fading"
    [] within = "step" /\ l.indent = 8 /\ Plain /\ NothingNested(i) -> "step key"
    [] within = "taps" /\ l.indent = 10 /\ l.dash              -> "tap"
    [] within = "tap" /\ l.indent = 12 /\ Plain                -> "tap key"
    [] within = "fading" /\ l.indent = 10 /\ Plain             -> "fading key"
    [] OTHER                                                  -> "misplaced"

Role[i \in 0..Len(file)] == IF i = 0 THEN "none" ELSE RoleIn(i, Role[Parent(i)])

\* Among the first n lines: those of a role, and those of a role nested in line i.
Having(role, n)   == {i \in 1..n : Role[i] = role}
Under(i, role, n) == {j \in Having(role, n) : Parent(j) = i}

KeysOf(role) ==
  CASE role = "runtime key"             -> RuntimeKeys
    [] role \in {"device", "device key"} -> DeviceKeys
    [] role \in {"link", "link key"}     -> LinkKeys
    [] role \in {"tap", "tap key"}       -> TapKeys
    [] role = "fading key"              -> FadingKeys
    [] OTHER                            -> <<>>

WellFormed ==
  \A i \in Lines :
    LET l == file[i] IN
    /\ Role[i] # "misplaced" /\ l.value # Flow
    /\ KeysOf(Role[i]) # <<>> => Applies(KeysOf(Role[i]), l.key, l.value)
    /\ Role[i] \in {"step", "step key"} => StepApplies(l.key, l.value)

\* A block with the values of the lines in S: the last one of a key, 0 for none.
LastOf(S, key) == Max({0} \cup {i \in S : file[i].key = key})
Settled(block, keys, S) ==
  [k \in DOMAIN block |-> IF LastOf(S, k) = 0 THEN block[k]
                          ELSE Parsed(keys[k], file[LastOf(S, k)].value)]

\* Blocks that are told by their first lines, in the order of the lines.
Rank(S, i) == Cardinality({j \in S : j <= i})
Listed(blocks) ==
  LET first == DOMAIN blocks
  IN  [r \in 1..Cardinality(first) |-> blocks[CHOOSE i \in first : Rank(first, i) = r]]

Items(first, key, fresh, keys, n) ==
  Listed([i \in first |-> Settled(fresh, keys, {i} \cup Under(i, key, n))])

RuntimeSaid(n) ==
  LET S == Having("runtime key", n)
      batch == LastOf(S, "batch_samples")
      auto == batch = 0 \/ file[batch].value = Word("auto")
  IN  [Settled(DefaultRuntime, RuntimeKeys, S) EXCEPT
         !.batch_samples_auto = auto,
         !.batch_samples = IF auto THEN 0 ELSE file[batch].value.n]

\* The lines of a step's taps and of its fading, and of the steps of a model.
Within(i, role, n) == {j \in Having(role, n) : Parent(Parent(j)) = i}
StepsOf(model, n)  == {i \in Having("step", n) : <<file[Parent(Parent(i))].key>> = model}

DefaultFading == [f_d_max_hz |-> DefaultStep.f_d_max_hz, grid_us |-> DefaultStep.grid_us]

StepSaid(i, n) ==
  LET own == {i} \cup Under(i, "step key", n)
      fading == Settled(DefaultFading, FadingKeys, Within(i, "fading key", n))
  IN  [type |-> IF LastOf(own, "type") = 0 THEN DefaultStep.type
                ELSE file[LastOf(own, "type")].value.w,
       params |-> [k \in {file[j].key : j \in own} \ {"type"} |-> file[LastOf(own, k)].value.n],
       taps |-> Items(Within(i, "tap", n), "tap key", DefaultTap, TapKeys, n),
       taps_declared |-> Under(i, "taps", n) # {},
       fading_enabled |-> Under(i, "fading", n) # {},
       f_d_max_hz |-> fading.f_d_max_hz,
       grid_us |-> fading.grid_us]

ChainSaid(model, n) == Listed([i \in StepsOf(model, n) |-> StepSaid(i, n)])

SaidBy(n) ==
  [runtime |-> RuntimeSaid(n),
   devices |-> Items(Having("device", n), "device key", DefaultDevice, DeviceKeys, n),
   links   |-> Items(Having("link", n), "link key", DefaultLink, LinkKeys, n),
   models  |-> [model \in {<<file[i].key>> : i \in Having("model", n)} |->
                  [chain |-> ChainSaid(model, n)]]]

\* A file is refused while it is read only where its nesting, a key or a value is
\* not what the documents show.
WellFormedIsRead == phase = "rejected" /\ at < Len(file) => ~WellFormed

\* A file whose lines are nested as the documents show and whose keys and
\* values are known is read to its end, and what is read is what its nesting
\* says: no pointer of load_config_file is left on a block that a line before
\* has closed, and no value lands in a block it is not nested in.
ReadsAsNested ==
  /\ phase = "folding" /\ config = parsed /\ WellFormed => parsed = SaidBy(Len(file))
  /\ WellFormedIsRead
=============================================================================
