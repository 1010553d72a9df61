---------------------------- MODULE LinkControl -----------------------------
(***************************************************************************)
(* How a run-time update travels from the control thread (ControlServer)   *)
(* to the thread that serves a link (CpuChannelProcessor).                 *)
(*                                                                         *)
(* The control thread writes the plain fields of a BrokerLinkControl and   *)
(* then bumps its atomic seqno.  The serving thread, once per slot, loads  *)
(* seqno, checks the take_effect_at_slot gate and copies the fields into   *)
(* its live parameters.  No lock orders the two, so every plain write and  *)
(* every plain read is a step of its own.                                  *)
(*                                                                         *)
(* A value is named by the update that wrote it: the seqno that update     *)
(* bumps its link to, 0 for the value of the YAML configuration.           *)
(***************************************************************************)
EXTENDS Integers, Sequences, FiniteSets

CONSTANTS
  Link,         \* keys of collect_control_links
  Param,        \* the scalar parameters of kParamSpecs
  Leading,      \* links whose chain starts with a tdl step
  DelayLine,    \* samples of a link's first tdl delay line, 0 without a tdl step
  SlotHint,     \* slot_count_hint: samples of a full serve
  WarmupCap,    \* warmup_cap_slots, 0 when the check is disabled
  ServeSizes,   \* samples a serve may carry
  TakeEffect,   \* the values of take_effect_at_slot that requests carry
  BatchId,      \* ids of batches
  Forces,       \* the values of force that profile swaps carry
  ClosedLoop,   \* whether clients wait for telemetry to show their last update
  Rejected,     \* whether clients send requests that are rejected
  MaxMessages,  \* bound: requests
  MaxStaged,    \* bound: operations staged in one batch
  MaxSlot       \* bound: serves of each link

ProfileField == {"n_taps", "taps"}
Data == Param \cup ProfileField

ASSUME LinkAssumption ==
  /\ Leading \subseteq Link
  /\ DelayLine \in [Link -> Nat]
  /\ SlotHint \in [Link -> Nat]
  /\ WarmupCap \in Nat
  /\ Param \cap {"n_taps", "taps", "force", "profile_pending",
                 "take_effect_at_slot"} = {}

ASSUME InputAssumption ==
  /\ ServeSizes \subseteq Nat \ {0}
  /\ TakeEffect \subseteq Nat
  /\ Forces \subseteq BOOLEAN
  /\ ClosedLoop \in BOOLEAN
  /\ Rejected \in BOOLEAN
  /\ MaxMessages \in Nat
  /\ MaxStaged \in Nat
  /\ MaxSlot \in [Link -> Nat]

VARIABLES
  shadow, force, profile_pending, take_effect_at_slot, \* plain shared fields
  seqno, current_slot, telemetry,  \* atomics; telemetry is the published live_seqno
  slot_buffer,  \* a current_slot still in the store buffer of the serving thread
  phase,        \* where the control thread is
  todo, gate,   \* the operations being applied and their take_effect_at_slot
  writes,       \* plain fields the current operation has still to write
  committing,   \* the batch being committed, or NoBatch
  open_batches, counters,
  step,         \* where the serving thread of a link is
  next_slot, observed, to_copy,
  live, live_seqno, live_profile_active,
  warmup_until_slot, delay_line, force_inert_warnings,
  log,          \* history: the operations begun on each link
  promised      \* history: <<seqno, applied_at_slot>> of the replies sent

sharedVars  == <<shadow, force, profile_pending, take_effect_at_slot>>
slotVars    == <<current_slot, slot_buffer>>
controlVars == <<phase, todo, gate, writes, committing, open_batches, counters>>
liveVars    == <<live, live_seqno, live_profile_active>>
serveVars   == <<warmup_until_slot, delay_line, force_inert_warnings, telemetry,
                 next_slot>>
historyVars == <<log, promised>>
vars == <<sharedVars, seqno, slotVars, controlVars, step, observed, to_copy,
          liveVars, serveVars, historyVars>>

NoBatch == "none"
ASSUME BatchAssumption == NoBatch \notin BatchId

Counter == {"msgs_received", "updates_applied", "updates_rejected",
            "batches_committed", "batches_aborted"}
Min2(a, b) == IF a <= b THEN a ELSE b
FloorDiv(a, b) == a \div b  \* a mutated form of CeilDiv
CeilDiv(a, b) == (a + b - 1) \div b

Init ==
  /\ shadow = [l \in Link |-> [f \in Data |-> 0]]
  /\ force = [l \in Link |-> FALSE]
  /\ profile_pending = [l \in Link |-> FALSE]
  /\ take_effect_at_slot = [l \in Link |-> 0]
  /\ seqno = [l \in Link |-> 0]
  /\ current_slot = [l \in Link |-> 0]
  /\ slot_buffer = [l \in Link |-> {}]
  /\ telemetry = [l \in Link |-> 0]
  /\ phase = "recv"
  /\ todo = <<>>
  /\ gate = 0
  /\ writes = {}
  /\ committing = NoBatch
  /\ open_batches = [b \in {} |-> <<>>]
  /\ counters = [c \in Counter |-> 0]
  /\ step = [l \in Link |-> "idle"]
  /\ next_slot = [l \in Link |-> 0]
  /\ observed = [l \in Link |-> 0]
  /\ to_copy = [l \in Link |-> {}]
  /\ live = [l \in Link |-> [f \in Data |-> 0]]
  /\ live_seqno = [l \in Link |-> 0]
  /\ live_profile_active = [l \in Link |-> FALSE]
  /\ warmup_until_slot = [l \in Link |-> 0]
  /\ delay_line = DelayLine
  /\ force_inert_warnings = [l \in Link |-> 0]
  /\ log = [l \in Link |-> <<>>]
  /\ promised = [l \in Link |-> {}]

(***************************************************************************)
(* The control thread: handle_message, one request at a time.              *)
(***************************************************************************)
Scalar(l, p) == [link |-> l, fields |-> {p}, force |-> FALSE]
ProfileSwap(l, forced) ==
  [link |-> l, fields |-> ProfileField \cup {"force", "profile_pending"},
   force |-> forced]
IsSwap(op) == "profile_pending" \in op.fields

Count(cs) == counters' = [c \in Counter |-> counters[c] + (IF c \in cs THEN 1 ELSE 0)]

Receive == phase = "recv" /\ counters["msgs_received"] < MaxMessages

\* A client that closes the loop sends the next update of a link only when
\* telemetry shows the last one live, and stages one operation per link.
Settled(ops) ==
  ClosedLoop =>
    /\ \A i \in 1..Len(ops) : telemetry[ops[i].link] = Len(log[ops[i].link])
    /\ \A i, j \in 1..Len(ops) : ops[i].link = ops[j].link => i = j

Apply(ops, tea, batch) ==
  /\ Settled(ops)
  /\ todo' = ops
  /\ gate' = tea
  /\ committing' = batch
  /\ phase' = "next"
  /\ UNCHANGED <<writes, open_batches>>

\* A mutated form of Stage: a staged update counts only when it is committed.
StageUncounted(op, batch) ==
  /\ Len(open_batches[batch]) < MaxStaged
  /\ open_batches' = [open_batches EXCEPT ![batch] = Append(@, op)]
  /\ Count({"msgs_received"})
  /\ UNCHANGED <<phase, todo, gate, writes, committing>>

Stage(op, batch) ==
  /\ Len(open_batches[batch]) < MaxStaged
  /\ open_batches' = [open_batches EXCEPT ![batch] = Append(@, op)]
  /\ Count({"msgs_received", "updates_applied"})
  /\ UNCHANGED <<phase, todo, gate, writes, committing>>

\* A mutated form of ExceedsWarmupCap: the span rounded down.
ExceedsWarmupCapFloor(op) ==
  /\ IsSwap(op)
  /\ WarmupCap > 0
  /\ op.link \in Leading
  /\ SlotHint[op.link] > 0
  /\ DelayLine[op.link] \div SlotHint[op.link] > WarmupCap

ExceedsWarmupCap(op) ==
  /\ IsSwap(op)
  /\ WarmupCap > 0
  /\ op.link \in Leading
  /\ SlotHint[op.link] > 0
  /\ CeilDiv(DelayLine[op.link], SlotHint[op.link]) > WarmupCap

Ops == {Scalar(l, p) : l \in Link, p \in Param}
         \cup {ProfileSwap(l, forced) : l \in Link, forced \in Forces}

Outside == UNCHANGED <<sharedVars, seqno, slotVars, step, observed, to_copy,
                       liveVars, serveVars, historyVars>>

HandleUpdate(op, tea) ==
  /\ Receive
  /\ ~ExceedsWarmupCap(op)
  /\ Apply(<<op>>, tea, NoBatch)
  /\ Count({"msgs_received"})
  /\ Outside

HandleStagedUpdate(op, batch) ==
  /\ Receive
  /\ ~ExceedsWarmupCap(op)
  /\ batch \in DOMAIN open_batches
  /\ Stage(op, batch)
  /\ Outside

HandleBatchBegin(batch) ==
  /\ Receive
  /\ batch \notin DOMAIN open_batches
  /\ open_batches' = [b \in DOMAIN open_batches \cup {batch} |->
                        IF b = batch THEN <<>> ELSE open_batches[b]]
  /\ Count({"msgs_received"})
  /\ UNCHANGED <<phase, todo, gate, writes, committing>>
  /\ Outside

Without(batch) == [b \in DOMAIN open_batches \ {batch} |-> open_batches[b]]

HandleBatchCommit(batch, tea) ==
  /\ Receive
  /\ batch \in DOMAIN open_batches
  /\ Apply(open_batches[batch], tea, batch)
  /\ Count({"msgs_received"})
  /\ Outside

HandleBatchAbort(batch) ==
  /\ Receive
  /\ batch \in DOMAIN open_batches
  /\ open_batches' = Without(batch)
  /\ Count({"msgs_received", "batches_aborted"})
  /\ UNCHANGED <<phase, todo, gate, writes, committing>>
  /\ Outside

\* emit_rejection: a request that does not parse or validate, that names a
\* batch that is not open or opens one that is, or whose warm-up is too long.
Reject ==
  /\ Rejected
  /\ Receive
  /\ Count({"msgs_received", "updates_rejected"})
  /\ UNCHANGED <<phase, todo, gate, writes, committing, open_batches>>
  /\ Outside

(***************************************************************************)
(* Applying the operations of a request: the plain writes of an operation  *)
(* reach memory in any order, the seqno bump comes after all of them.      *)
(***************************************************************************)
Target == Head(todo).link

BeginOp ==
  /\ phase = "next"
  /\ todo # <<>>
  /\ writes' = Head(todo).fields \cup {"take_effect_at_slot"}
  /\ log' = [log EXCEPT ![Target] =
               Append(@, [fields |-> Head(todo).fields, gate |-> gate,
                          batch |-> IF committing = NoBatch THEN 0
                                    ELSE counters["batches_committed"] + 1])]
  /\ phase' = "write"
  /\ UNCHANGED <<todo, gate, committing, open_batches, counters, sharedVars, seqno,
                 slotVars, step, observed, to_copy, liveVars, serveVars, promised>>

Wrote(f) ==
  /\ phase = "write"
  /\ f \in writes
  /\ writes' = writes \ {f}
  /\ UNCHANGED <<phase, todo, gate, committing, open_batches, counters, seqno,
                 slotVars, step, observed, to_copy, liveVars, serveVars,
                 historyVars>>

WriteData(f) ==
  /\ Wrote(f)
  /\ shadow' = [shadow EXCEPT ![Target][f] = Len(log[Target])]
  /\ UNCHANGED <<force, profile_pending, take_effect_at_slot>>

WriteForce ==
  /\ Wrote("force")
  /\ force' = [force EXCEPT ![Target] = Head(todo).force]
  /\ UNCHANGED <<shadow, profile_pending, take_effect_at_slot>>

WritePending ==
  /\ Wrote("profile_pending")
  /\ profile_pending' = [profile_pending EXCEPT ![Target] = TRUE]
  /\ UNCHANGED <<shadow, force, take_effect_at_slot>>

WriteTakeEffect ==
  /\ Wrote("take_effect_at_slot")
  /\ take_effect_at_slot' = [take_effect_at_slot EXCEPT ![Target] = gate]
  /\ UNCHANGED <<shadow, force, profile_pending>>

\* A mutated form of BumpSeqno: a relaxed bump, which the plain writes may pass.
BumpSeqnoRelaxed ==
  /\ phase = "write"
  /\ \/ /\ seqno[Target] < Len(log[Target])
        /\ seqno' = [seqno EXCEPT ![Target] = @ + 1]
        /\ UNCHANGED <<todo, phase>>
     \/ /\ seqno[Target] = Len(log[Target])
        /\ writes = {}
        /\ todo' = IF committing = NoBatch THEN todo ELSE Tail(todo)
        /\ phase' = IF committing = NoBatch THEN "reply" ELSE "next"
        /\ UNCHANGED seqno
  /\ UNCHANGED <<gate, writes, committing, open_batches, counters, sharedVars,
                 slotVars, step, observed, to_copy, liveVars, serveVars,
                 historyVars>>

\* apply_update's release bump; the reply of an update still looks at its link.
BumpSeqno ==
  /\ phase = "write"
  /\ writes = {}
  /\ seqno' = [seqno EXCEPT ![Target] = @ + 1]
  /\ todo' = IF committing = NoBatch THEN todo ELSE Tail(todo)
  /\ phase' = IF committing = NoBatch THEN "reply" ELSE "next"
  /\ UNCHANGED <<gate, writes, committing, open_batches, counters, sharedVars,
                 slotVars, step, observed, to_copy, liveVars, serveVars,
                 historyVars>>

\* make_success_reply_v2: the slot the client is told.
AppliedAtSlot ==
  IF gate > current_slot[Target] THEN gate ELSE current_slot[Target]

ReplyUpdate ==
  /\ phase = "reply"
  /\ promised' = [promised EXCEPT ![Target] = @ \cup {<<seqno[Target], AppliedAtSlot>>}]
  /\ todo' = <<>>
  /\ Count({"updates_applied"})
  /\ phase' = "recv"
  /\ UNCHANGED <<gate, writes, committing, open_batches, sharedVars, seqno,
                 slotVars, step, observed, to_copy, liveVars, serveVars, log>>

\* The reply to a commit names the slot it asked for; that is a promise for the
\* links that have not reached it.
Committed(l) == {s \in 1..Len(log[l]) : log[l][s].batch = counters["batches_committed"] + 1}

ReplyCommit ==
  /\ phase = "next"
  /\ todo = <<>>
  /\ promised' = [l \in Link |->
       IF gate > current_slot[l]
       THEN promised[l] \cup {<<s, gate>> : s \in Committed(l)} ELSE promised[l]]
  /\ Count({"batches_committed"})
  /\ open_batches' = Without(committing)
  /\ committing' = NoBatch
  /\ phase' = "recv"
  /\ UNCHANGED <<todo, gate, writes, sharedVars, seqno, slotVars, step, observed,
                 to_copy, liveVars, serveVars, log>>

Control ==
  \/ \E op \in Ops, tea \in TakeEffect : HandleUpdate(op, tea)
  \/ \E op \in Ops, b \in BatchId : HandleStagedUpdate(op, b)
  \/ \E b \in BatchId : HandleBatchBegin(b)
  \/ \E b \in BatchId, tea \in TakeEffect : HandleBatchCommit(b, tea)
  \/ \E b \in BatchId : HandleBatchAbort(b)
  \/ Reject
  \/ BeginOp
  \/ \E f \in Data : WriteData(f)
  \/ WriteForce
  \/ WritePending
  \/ WriteTakeEffect
  \/ BumpSeqno
  \/ ReplyUpdate
  \/ ReplyCommit

(***************************************************************************)
(* The serving thread of link l: apply_chain_to_link.  On x86-64 a store   *)
(* may reach memory after a later load of another word, never after a      *)
(* later store, and the locked bump of seqno waits for the stores before   *)
(* it: current_slot is the one word that this lets be seen late.           *)
(***************************************************************************)
Serving(l) ==
  UNCHANGED <<controlVars, sharedVars, seqno, historyVars>>

Goto(l, s) == step' = [step EXCEPT ![l] = s]

\* A mutated form of StoreSlot: the slot that was finished last.
StoreSlotFinished(l) ==
  /\ step[l] = "idle"
  /\ next_slot[l] < MaxSlot[l]
  /\ slot_buffer' = [slot_buffer EXCEPT
                       ![l] = {IF next_slot[l] = 0 THEN 0 ELSE next_slot[l] - 1}]
  /\ Goto(l, "load")
  /\ Serving(l)
  /\ UNCHANGED <<current_slot, observed, to_copy, liveVars, serveVars>>

\* A relaxed store: it waits in the store buffer of the serving thread.
StoreSlot(l) ==
  /\ step[l] = "idle"
  /\ next_slot[l] < MaxSlot[l]
  /\ slot_buffer' = [slot_buffer EXCEPT ![l] = {next_slot[l]}]
  /\ Goto(l, "load")
  /\ Serving(l)
  /\ UNCHANGED <<current_slot, observed, to_copy, liveVars, serveVars>>

\* The store reaches memory: nothing orders it before the load of seqno.
DrainSlot(l) ==
  /\ \E slot \in slot_buffer[l] : current_slot' = [current_slot EXCEPT ![l] = slot]
  /\ slot_buffer' = [slot_buffer EXCEPT ![l] = {}]
  /\ Serving(l)
  /\ UNCHANGED <<step, observed, to_copy, liveVars, serveVars>>

LoadSeqno(l) ==
  /\ step[l] = "load"
  /\ observed' = [observed EXCEPT ![l] = seqno[l]]
  /\ Goto(l, IF seqno[l] = live_seqno[l] THEN "run" ELSE "gate")
  /\ Serving(l)
  /\ UNCHANGED <<slotVars, to_copy, liveVars, serveVars>>

\* Mutated forms of GateClosed: it opens a slot early, or a slot late.
GateClosedUntilNext(l) == take_effect_at_slot[l] > next_slot[l] + 1
GateClosedThrough(l) ==
  take_effect_at_slot[l] > 0 /\ take_effect_at_slot[l] >= next_slot[l]

GateClosed(l) == take_effect_at_slot[l] > next_slot[l]

CheckGate(l) ==
  /\ step[l] = "gate"
  /\ IF GateClosed(l)
     THEN Goto(l, "run") /\ UNCHANGED to_copy
     ELSE Goto(l, "copy") /\ to_copy' = [to_copy EXCEPT ![l] = Param]
  /\ Serving(l)
  /\ UNCHANGED <<slotVars, observed, liveVars, serveVars>>

CopyField(l, f) ==
  /\ f \in to_copy[l]
  /\ live' = [live EXCEPT ![l][f] = shadow[l][f]]
  /\ to_copy' = [to_copy EXCEPT ![l] = @ \ {f}]
  /\ Serving(l)
  /\ UNCHANGED <<step, slotVars, observed, live_seqno, live_profile_active,
                 serveVars>>

Eligible(l) == l \in Leading \/ force[l]

\* A mutated form of ProfileToCopy: the pending mark is taken once.
FirstProfileToCopy(l) ==
  profile_pending[l] /\ Eligible(l) /\ ~live_profile_active[l]

ProfileToCopy(l) == profile_pending[l] /\ Eligible(l)

\* A mutated form of Observed: seqno is read again when the copy is done.
SeqnoAfterCopy(l) == seqno[l]

Observed(l) == observed[l]

\* snap_mutable_params returns true; is a profile to be copied as well?
FinishSnap(l) ==
  /\ step[l] = "copy"
  /\ to_copy[l] = {}
  /\ live_seqno' = [live_seqno EXCEPT ![l] = Observed(l)]
  /\ IF ProfileToCopy(l)
     THEN Goto(l, "profile") /\ to_copy' = [to_copy EXCEPT ![l] = ProfileField]
     ELSE Goto(l, "run") /\ UNCHANGED to_copy
  /\ Serving(l)
  /\ UNCHANGED <<slotVars, observed, live, live_profile_active, serveVars>>

\* The rest of the serve, n samples of it: a profile just copied empties the
\* delay line and opens a warm-up, the warm-up that is over closes, telemetry
\* is published, behind what the store buffer still holds, and the chain shifts
\* the samples into the delay line.
JustActivated(l) == step[l] = "profile" /\ to_copy[l] = {}
SnapDone(l) == step[l] = "run" \/ JustActivated(l)

OpenedWarmup(l, n) ==
  IF JustActivated(l) THEN next_slot[l] + CeilDiv(DelayLine[l], n)
  ELSE warmup_until_slot[l]

History(l) == IF JustActivated(l) THEN 0 ELSE delay_line[l]

\* A mutated form of Shifted: the delay line grows with every serve.
ShiftedOnto(l, n) == History(l) + n

Shifted(l, n) == Min2(DelayLine[l], History(l) + n)

Run(l, n) ==
  /\ SnapDone(l)
  /\ slot_buffer[l] = {}
  /\ live_profile_active' =
       [live_profile_active EXCEPT ![l] = @ \/ JustActivated(l)]
  /\ force_inert_warnings' =
       [force_inert_warnings EXCEPT
          ![l] = @ + (IF JustActivated(l) /\ l \notin Leading THEN 1 ELSE 0)]
  /\ warmup_until_slot' =
       [warmup_until_slot EXCEPT
          ![l] = IF next_slot[l] >= OpenedWarmup(l, n) THEN 0 ELSE OpenedWarmup(l, n)]
  /\ telemetry' = [telemetry EXCEPT ![l] = live_seqno[l]]
  /\ delay_line' = [delay_line EXCEPT ![l] = Shifted(l, n)]
  /\ next_slot' = [next_slot EXCEPT ![l] = @ + 1]
  /\ Goto(l, "idle")
  /\ Serving(l)
  /\ UNCHANGED <<slotVars, observed, to_copy, live, live_seqno>>

Serve(l) ==
  \/ StoreSlot(l)
  \/ DrainSlot(l)
  \/ LoadSeqno(l)
  \/ CheckGate(l)
  \/ \E f \in Data : CopyField(l, f)
  \/ FinishSnap(l)
  \/ \E n \in ServeSizes : Run(l, n)

Next == Control \/ \E l \in Link : Serve(l)

Spec == Init /\ [][Next]_vars

\* Every serving thread keeps serving, and the control thread finishes what it
\* has accepted; nothing makes a client send a request.
Finish ==
  \/ BeginOp \/ WriteForce \/ WritePending \/ WriteTakeEffect \/ BumpSeqno
  \/ ReplyUpdate \/ ReplyCommit
  \/ \E f \in Data : WriteData(f)

FairSpec == Spec /\ WF_vars(Finish) /\ \A l \in Link : WF_vars(Serve(l))

(***************************************************************************)
(* Properties.                                                             *)
(***************************************************************************)

\* Every variable keeps the shape of the field it models.
TypeOK ==
  /\ shadow \in [Link -> [Data -> Nat]]
  /\ force \in [Link -> BOOLEAN]
  /\ profile_pending \in [Link -> BOOLEAN]
  /\ take_effect_at_slot \in [Link -> Nat]
  /\ seqno \in [Link -> Nat]
  /\ current_slot \in [Link -> Nat]
  /\ slot_buffer \in [Link -> SUBSET Nat]
  /\ telemetry \in [Link -> Nat]
  /\ phase \in {"recv", "next", "write", "reply"}
  /\ todo \in Seq(Ops)
  /\ gate \in Nat
  /\ writes \subseteq Data \cup {"force", "profile_pending", "take_effect_at_slot"}
  /\ committing \in BatchId \cup {NoBatch}
  /\ DOMAIN open_batches \subseteq BatchId
  /\ \A b \in DOMAIN open_batches : open_batches[b] \in Seq(Ops)
  /\ counters \in [Counter -> Nat]
  /\ step \in [Link -> {"idle", "load", "gate", "copy", "profile", "run"}]
  /\ next_slot \in [Link -> Nat]
  /\ observed \in [Link -> Nat]
  /\ to_copy \in [Link -> SUBSET Data]
  /\ live \in [Link -> [Data -> Nat]]
  /\ live_seqno \in [Link -> Nat]
  /\ live_profile_active \in [Link -> BOOLEAN]
  /\ warmup_until_slot \in [Link -> Nat]
  /\ DOMAIN delay_line = Link
  /\ \A l \in Link : delay_line[l] \in 0..DelayLine[l]
  /\ force_inert_warnings \in [Link -> Nat]
  /\ log \in [Link -> Seq([fields : SUBSET (Data \cup {"force", "profile_pending"}),
                           gate : Nat, batch : Nat])]
  /\ promised \in [Link -> SUBSET (Nat \X Nat)]

\* A link whose live_seqno reached s serves with every scalar that update s
\* wrote, or with a later update's value of it: neither the race between the
\* plain writes and the copy nor a deferred snap loses an update.
NoLostUpdate ==
  \A l \in Link : \A s \in 1..live_seqno[l] :
    \A p \in Param \cap log[l][s].fields : live[l][p] >= s

\* The same for the taps of a profile swap, once the link that starts with a
\* tdl step has passed the point where profiles are copied.
NoLostProfile ==
  \A l \in Leading : step[l] # "profile" =>
    \A s \in 1..live_seqno[l] :
      IsSwap(log[l][s]) =>
        live_profile_active[l] /\ \A f \in ProfileField : live[l][f] >= s

\* Every request the server received is applied, rejected, or part of a batch
\* that is open, committed or aborted, once it has been answered.
Accounted ==
  phase = "recv" =>
    counters["msgs_received"] =
      counters["updates_applied"] + counters["updates_rejected"]
        + 2 * (counters["batches_committed"] + counters["batches_aborted"])
        + Cardinality(DOMAIN open_batches)

\* No value is copied into the live parameters of a serve before the slot the
\* update that wrote it asked for.
NeverEarly ==
  [][\A l \in Link : \A f \in Data :
       live'[l][f] # live[l][f] => log[l][live'[l][f]].gate <= next_slot[l]]_vars

\* A serve runs with the taps of one profile, never with the tap count of one
\* update and the taps of another.
WholeProfile ==
  \A l \in Link : step[l] # "profile" => live[l]["n_taps"] = live[l]["taps"]

\* An update is live two slots after the applied_at_slot of its reply, at the
\* latest: one slot for the serve that loaded seqno just before the bump, and one
\* because that serve's current_slot may still have been in the store buffer.
KeepsPromise ==
  \A l \in Link : SnapDone(l) =>
    \A p \in promised[l] : p[1] > live_seqno[l] => next_slot[l] <= p[2] + 1

\* A warm-up is flagged in exactly the serves whose delay line does not yet hold
\* a full history of the new profile's input.
WarmupFlagged ==
  [][\A l \in Link : next_slot'[l] # next_slot[l] =>
       (warmup_until_slot'[l] # 0 <=> History(l) < DelayLine[l])]_vars

\* No swap that passed the cap check opens a warm-up longer than the cap.
WarmupCapped ==
  [][\A l \in Link : warmup_until_slot'[l] # warmup_until_slot[l] =>
       warmup_until_slot'[l] <= next_slot[l] + WarmupCap]_vars

\* An update that is in before the last two serves is live in the end.
EventuallyLive ==
  \A l \in Link : \A s \in 1..MaxMessages :
    (seqno[l] >= s /\ next_slot[l] < MaxSlot[l] - 1) ~> (live_seqno[l] >= s)
=============================================================================
