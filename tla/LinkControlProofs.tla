------------------------- MODULE LinkControlProofs --------------------------
(***************************************************************************)
(* What is proved of the hand-over of run-time updates for any links,      *)
(* parameters, batches and bounds: types, and that no update is lost       *)
(* between the control thread's writes and the serving thread's copies.    *)
(***************************************************************************)
EXTENDS LinkControl, TLAPS, SequenceTheorems

\* Where the control thread is, and what it has published of each link.
Busy == phase \in {"write", "reply"} => todo # <<>>

ControlInv ==
  /\ \A l \in Link :
       Len(log[l]) = IF phase = "write" /\ Target = l THEN seqno[l] + 1 ELSE seqno[l]
  /\ \A l \in Link : observed[l] <= seqno[l] /\ live_seqno[l] <= seqno[l]
  /\ \A l \in Link : \A s \in 1..Len(log[l]) :
       IsSwap(log[l][s]) => ProfileField \subseteq log[l][s].fields

\* A field that an update wrote holds that update or a later one, as soon as
\* the update is published or the write itself is done.
Written(l, s, f) ==
  /\ f \in log[l][s].fields
  /\ s <= seqno[l] \/ f \notin writes

ShadowInv ==
  \A l \in Link : \A s \in 1..Len(log[l]) :
    /\ \A f \in Data : Written(l, s, f) => shadow[l][f] >= s
    /\ Written(l, s, "profile_pending") => profile_pending[l]

\* How far the copies of a link have got.
CopyInv ==
  \A l \in Link :
    /\ step[l] = "copy" => to_copy[l] \subseteq Param
    /\ step[l] = "profile" => to_copy[l] \subseteq ProfileField
    /\ step[l] \notin {"copy", "profile"} => to_copy[l] = {}
    /\ step[l] = "copy" =>
         \A p \in Param \ to_copy[l] : \A s \in 1..observed[l] :
           p \in log[l][s].fields => live[l][p] >= s
    /\ l \in Leading /\ step[l] = "profile" =>
         \A f \in ProfileField \ to_copy[l] : \A s \in 1..live_seqno[l] :
           f \in log[l][s].fields => live[l][f] >= s

ControlLinkInv ==
  TypeOK /\ Busy /\ ControlInv /\ ShadowInv /\ CopyInv /\ NoLostUpdate /\ NoLostProfile

-----------------------------------------------------------------------------
OpFields == SUBSET (Data \cup {"force", "profile_pending"})

\* What requests apply: a link, the fields it writes, a value of force.
LEMMA OpShape ==
  ASSUME NEW op \in Ops
  PROVE  /\ op.link \in Link
         /\ op.fields \in OpFields
         /\ op.force \in BOOLEAN
         /\ IsSwap(op) => ProfileField \subseteq op.fields
<1>1. CASE \E l \in Link, p \in Param : op = Scalar(l, p)
  <2>1. PICK l \in Link, p \in Param : op = Scalar(l, p)
    BY <1>1
  <2>2. op.link = l /\ op.fields = {p} /\ op.force = FALSE
    BY <2>1 DEF Scalar
  <2>3. p # "profile_pending"
    BY LinkAssumption
  <2> QED BY <2>2, <2>3 DEF IsSwap, OpFields, Data
<1>2. CASE \E l \in Link, forced \in Forces : op = ProfileSwap(l, forced)
  <2>1. PICK l \in Link, forced \in Forces : op = ProfileSwap(l, forced)
    BY <1>2
  <2>2. /\ op.link = l
        /\ op.fields = ProfileField \cup {"force", "profile_pending"}
        /\ op.force = forced
    BY <2>1 DEF ProfileSwap
  <2> QED BY <2>2, InputAssumption DEF OpFields, Data
<1> QED BY <1>1, <1>2 DEF Ops

LEMMA TargetIsLink ==
  ASSUME TypeOK, todo # <<>>
  PROVE  Head(todo) \in Ops /\ Target \in Link
<1>1. Head(todo) \in Ops
  BY DEF TypeOK
<1> QED BY <1>1, OpShape DEF Target

\* Counting keeps the counters natural numbers.
LEMMA CountType ==
  ASSUME counters \in [Counter -> Nat], NEW cs, Count(cs)
  PROVE  counters' \in [Counter -> Nat]
BY DEF Count

\* The initial state has the types.
LEMMA InitType == Init => TypeOK
BY LinkAssumption DEF Init, TypeOK, NoBatch, Counter

\* Handling a request keeps the types.
LEMMA RequestType ==
  ASSUME TypeOK,
         \/ \E op \in Ops, tea \in TakeEffect : HandleUpdate(op, tea)
         \/ \E op \in Ops, b \in BatchId : HandleStagedUpdate(op, b)
         \/ \E b \in BatchId : HandleBatchBegin(b)
         \/ \E b \in BatchId, tea \in TakeEffect : HandleBatchCommit(b, tea)
         \/ \E b \in BatchId : HandleBatchAbort(b)
         \/ Reject
  PROVE  TypeOK'
<1> USE DEF TypeOK, Outside, sharedVars, slotVars, liveVars, serveVars, historyVars
<1>1. ASSUME NEW op \in Ops, NEW tea \in TakeEffect, HandleUpdate(op, tea)
      PROVE  TypeOK'
  <2>1. counters' \in [Counter -> Nat]
    BY <1>1, CountType DEF HandleUpdate
  <2>2. <<op>> \in Seq(Ops) /\ tea \in Nat
    BY InputAssumption
  <2>3. todo' \in Seq(Ops) /\ gate' \in Nat
    BY <1>1, <2>2, Zenon DEF HandleUpdate, Apply
  <2> QED BY <1>1, <2>1, <2>3 DEF HandleUpdate, Apply
<1>2. ASSUME NEW op \in Ops, NEW b \in BatchId, HandleStagedUpdate(op, b)
      PROVE  TypeOK'
  <2>1. counters' \in [Counter -> Nat]
    BY <1>2, CountType DEF HandleStagedUpdate, Stage
  <2>2. \A c \in DOMAIN open_batches' : open_batches'[c] \in Seq(Ops)
    BY <1>2 DEF HandleStagedUpdate, Stage
  <2>3. DOMAIN open_batches' \subseteq BatchId
    BY <1>2 DEF HandleStagedUpdate, Stage
  <2> QED BY <1>2, <2>1, <2>2, <2>3 DEF HandleStagedUpdate, Stage
<1>3. ASSUME NEW b \in BatchId, HandleBatchBegin(b)
      PROVE  TypeOK'
  <2>1. counters' \in [Counter -> Nat]
    BY <1>3, CountType DEF HandleBatchBegin
  <2>2. \A c \in DOMAIN open_batches' : open_batches'[c] \in Seq(Ops)
    BY <1>3 DEF HandleBatchBegin
  <2>3. DOMAIN open_batches' \subseteq BatchId
    BY <1>3 DEF HandleBatchBegin
  <2> QED BY <1>3, <2>1, <2>2, <2>3 DEF HandleBatchBegin
<1>4. ASSUME NEW b \in BatchId, NEW tea \in TakeEffect, HandleBatchCommit(b, tea)
      PROVE  TypeOK'
  <2>1. counters' \in [Counter -> Nat]
    BY <1>4, CountType DEF HandleBatchCommit
  <2> QED BY <1>4, <2>1, InputAssumption DEF HandleBatchCommit, Apply
<1>5. ASSUME NEW b \in BatchId, HandleBatchAbort(b)
      PROVE  TypeOK'
  <2>1. counters' \in [Counter -> Nat]
    BY <1>5, CountType DEF HandleBatchAbort
  <2> QED BY <1>5, <2>1 DEF HandleBatchAbort, Without
<1>6. ASSUME Reject
      PROVE  TypeOK'
  <2>1. counters' \in [Counter -> Nat]
    BY <1>6, CountType DEF Reject
  <2> QED BY <1>6, <2>1 DEF Reject
<1> QED BY <1>1, <1>2, <1>3, <1>4, <1>5, <1>6

\* Applying an operation, and answering, keeps the types.
LEMMA ApplyType ==
  ASSUME TypeOK, Busy,
         \/ BeginOp \/ (\E f \in Data : WriteData(f)) \/ WriteForce \/ WritePending
         \/ WriteTakeEffect \/ BumpSeqno \/ ReplyUpdate \/ ReplyCommit
  PROVE  TypeOK'
<1> USE DEF TypeOK, sharedVars, slotVars, liveVars, serveVars, historyVars
<1>1. CASE BeginOp
  <2>1. Target \in Link /\ Head(todo).fields \in OpFields
    BY <1>1, TargetIsLink, OpShape DEF BeginOp
  <2>2. counters["batches_committed"] \in Nat
    BY DEF Counter
  <2> DEFINE entry == [fields |-> Head(todo).fields, gate |-> gate,
                       batch |-> IF committing = NoBatch THEN 0
                                 ELSE counters["batches_committed"] + 1]
  <2>3. entry \in [fields : OpFields, gate : Nat, batch : Nat]
    BY SMTT(30), <2>1, <2>2
  <2>4. log' = [log EXCEPT ![Target] = Append(@, entry)]
    BY <1>1 DEF BeginOp
  <2> HIDE DEF entry
  <2>5. log' \in [Link -> Seq([fields : OpFields, gate : Nat, batch : Nat])]
    <3> DEFINE Entry == [fields : OpFields, gate : Nat, batch : Nat]
    <3>1. log \in [Link -> Seq(Entry)] /\ entry \in Entry
      BY <2>3 DEF OpFields
    <3> HIDE DEF Entry
    <3>2. log' \in [Link -> Seq(Entry)]
      BY <2>1, <2>4, <3>1
    <3> QED BY <3>2 DEF Entry
  <2>6. writes' \subseteq Data \cup {"force", "profile_pending", "take_effect_at_slot"}
    BY <1>1, <2>1 DEF BeginOp, OpFields
  <2>7. phase' \in {"recv", "next", "write", "reply"}
    BY <1>1 DEF BeginOp
  <2> QED BY <1>1, <2>5, <2>6, <2>7 DEF BeginOp, OpFields
<1>2. ASSUME NEW f \in Data, WriteData(f)
      PROVE  TypeOK'
  <2>1. Len(log[Target]) \in Nat
    <3>1. Target \in Link => Len(log[Target]) \in Nat
      OBVIOUS
    <3> QED BY <1>2, <3>1, TargetIsLink DEF WriteData, Wrote, Busy
  <2>2. shadow' \in [Link -> [Data -> Nat]]
    BY <1>2, <2>1 DEF WriteData
  <2> QED BY <1>2, <2>2 DEF WriteData, Wrote
<1>3. CASE WriteForce
  <2>1. Head(todo).force \in BOOLEAN
    BY <1>3, TargetIsLink, OpShape DEF WriteForce, Wrote, Busy
  <2>2. force' \in [Link -> BOOLEAN]
    BY <1>3, <2>1 DEF WriteForce
  <2> QED BY <1>3, <2>2 DEF WriteForce, Wrote
<1>4. CASE WritePending
  <2>1. profile_pending' \in [Link -> BOOLEAN]
    BY <1>4 DEF WritePending
  <2> QED BY <1>4, <2>1 DEF WritePending, Wrote
<1>5. CASE WriteTakeEffect
  <2>1. take_effect_at_slot' \in [Link -> Nat]
    BY <1>5 DEF WriteTakeEffect
  <2> QED BY <1>5, <2>1 DEF WriteTakeEffect, Wrote
<1>6. CASE BumpSeqno
  <2>1. seqno' \in [Link -> Nat]
    <3>1. seqno' = [seqno EXCEPT ![Target] = seqno[Target] + 1]
      BY <1>6 DEF BumpSeqno
    <3>2. Target \in Link
      BY <1>6, TargetIsLink DEF BumpSeqno, Busy
    <3> QED BY <3>1, <3>2 DEF TypeOK
  <2>2. todo' \in Seq(Ops)
    <3>1. todo \in Seq(Ops) /\ todo # <<>>
      BY <1>6 DEF BumpSeqno, Busy
    <3>2. todo' = todo \/ todo' = Tail(todo)
      BY <1>6 DEF BumpSeqno
    <3>3. Tail(todo) \in Seq(Ops)
      BY <3>1, HeadTailProperties, Zenon
    <3> QED BY <3>1, <3>2, <3>3
  <2>3. phase' \in {"recv", "next", "write", "reply"}
    BY <1>6 DEF BumpSeqno
  <2> QED BY <1>6, <2>1, <2>2, <2>3 DEF BumpSeqno
<1>7. CASE ReplyUpdate
  <2>1. counters' \in [Counter -> Nat]
    BY <1>7, CountType DEF ReplyUpdate
  <2>2. promised' \in [Link -> SUBSET (Nat \X Nat)]
    <3>1. Target \in Link
      BY <1>7, TargetIsLink DEF ReplyUpdate, Busy
    <3>2. <<seqno[Target], AppliedAtSlot>> \in Nat \X Nat
      BY <3>1 DEF AppliedAtSlot
    <3>3. promised' = [promised EXCEPT ![Target] =
                         promised[Target] \cup {<<seqno[Target], AppliedAtSlot>>}]
      BY <1>7 DEF ReplyUpdate
    <3>4. promised \in [Link -> SUBSET (Nat \X Nat)]
      OBVIOUS
    <3> HIDE DEF TypeOK
    <3> QED BY <3>1, <3>2, <3>3, <3>4
  <2>3. todo' \in Seq(Ops) /\ phase' \in {"recv", "next", "write", "reply"}
    BY <1>7 DEF ReplyUpdate
  <2> QED BY <1>7, <2>1, <2>2, <2>3 DEF ReplyUpdate
<1>8. CASE ReplyCommit
  <2>1. counters' \in [Counter -> Nat]
    BY <1>8, CountType DEF ReplyCommit
  <2>2. promised' \in [Link -> SUBSET (Nat \X Nat)]
    <3>1. ASSUME NEW l \in Link
          PROVE  {<<s, gate>> : s \in Committed(l)} \subseteq Nat \X Nat
      <4>1. Committed(l) \subseteq Nat
        BY DEF Committed
      <4>2. gate \in Nat
        OBVIOUS
      <4>3. ASSUME NEW s \in Committed(l) PROVE <<s, gate>> \in Nat \X Nat
        BY <4>1, <4>2
      <4> QED BY <4>3
    <3>2. promised' = [l \in Link |->
            IF gate > current_slot[l]
            THEN promised[l] \cup {<<s, gate>> : s \in Committed(l)} ELSE promised[l]]
      BY <1>8 DEF ReplyCommit
    <3>3. promised \in [Link -> SUBSET (Nat \X Nat)]
      OBVIOUS
    <3> HIDE DEF TypeOK
    <3> QED BY <3>1, <3>2, <3>3
  <2>3. /\ DOMAIN open_batches' \subseteq BatchId
        /\ \A b \in DOMAIN open_batches' : open_batches'[b] \in Seq(Ops)
    BY <1>8 DEF ReplyCommit, Without
  <2> QED BY <1>8, <2>1, <2>2, <2>3 DEF ReplyCommit
<1> QED BY <1>1, <1>2, <1>3, <1>4, <1>5, <1>6, <1>7, <1>8

\* Rounding up a quotient of naturals gives a natural.
LEMMA CeilDivNat ==
  ASSUME NEW a \in Nat, NEW b \in Nat \ {0}
  PROVE  CeilDiv(a, b) \in Nat
BY DEF CeilDiv

\* Serving keeps the types.
LEMMA ServeType ==
  ASSUME TypeOK, NEW l \in Link, Serve(l)
  PROVE  TypeOK'
<1> USE DEF TypeOK, Serving, Goto, sharedVars, slotVars, controlVars, liveVars, serveVars,
            historyVars
<1>1. CASE StoreSlot(l)
  <2>1. {next_slot[l]} \in SUBSET Nat
    OBVIOUS
  <2>2. slot_buffer' \in [Link -> SUBSET Nat]
    BY <1>1, <2>1 DEF StoreSlot
  <2>3. step' \in [Link -> {"idle", "load", "gate", "copy", "profile", "run"}]
    BY <1>1 DEF StoreSlot
  <2> QED BY <1>1, <2>2, <2>3 DEF StoreSlot
<1>7. CASE DrainSlot(l)
  <2>1. current_slot' \in [Link -> Nat]
    <3>1. PICK slot \in slot_buffer[l] : current_slot' = [current_slot EXCEPT ![l] = slot]
      BY <1>7 DEF DrainSlot
    <3>2. slot \in Nat
      OBVIOUS
    <3> QED BY <3>1, <3>2
  <2>2. slot_buffer' \in [Link -> SUBSET Nat]
    <3>1. slot_buffer' = [slot_buffer EXCEPT ![l] = {}]
      BY <1>7 DEF DrainSlot
    <3>2. {} \in SUBSET Nat
      OBVIOUS
    <3>3. slot_buffer \in [Link -> SUBSET Nat]
      OBVIOUS
    <3> HIDE DEF TypeOK
    <3> QED BY <3>1, <3>2, <3>3
  <2> QED BY <1>7, <2>1, <2>2 DEF DrainSlot
<1>2. CASE LoadSeqno(l)
  BY <1>2 DEF LoadSeqno
<1>3. CASE CheckGate(l)
  <2>1. to_copy' \in [Link -> SUBSET Data]
    <3>1. CASE GateClosed(l)
      BY <1>3, <3>1 DEF CheckGate
    <3>2. CASE ~GateClosed(l)
      <4>1. to_copy' = [to_copy EXCEPT ![l] = Param]
        BY <1>3, <3>2 DEF CheckGate
      <4>2. Param \in SUBSET Data
        BY DEF Data
      <4>3. to_copy \in [Link -> SUBSET Data]
        OBVIOUS
      <4> HIDE DEF TypeOK
      <4> QED BY <4>1, <4>2, <4>3
    <3> QED BY <3>1, <3>2
  <2>2. step' \in [Link -> {"idle", "load", "gate", "copy", "profile", "run"}]
    <3>1. \E s \in {"run", "copy"} : step' = [step EXCEPT ![l] = s]
      BY <1>3 DEF CheckGate
    <3>2. step \in [Link -> {"idle", "load", "gate", "copy", "profile", "run"}]
      OBVIOUS
    <3> HIDE DEF TypeOK
    <3> QED BY <3>1, <3>2
  <2>3. UNCHANGED <<controlVars, sharedVars, seqno, historyVars, slotVars, observed,
                    liveVars, serveVars>>
    BY <1>3 DEF CheckGate
  <2> QED BY <2>1, <2>2, <2>3
<1>4. ASSUME NEW f \in Data, CopyField(l, f)
      PROVE  TypeOK'
  <2>1. live' \in [Link -> [Data -> Nat]]
    BY <1>4 DEF CopyField
  <2> QED BY <1>4, <2>1 DEF CopyField
<1>5. CASE FinishSnap(l)
  <2>1. live_seqno' \in [Link -> Nat]
    BY <1>5 DEF FinishSnap, Observed
  <2>2. to_copy' \in [Link -> SUBSET Data]
    <3>1. CASE ProfileToCopy(l)
      <4>1. to_copy' = [to_copy EXCEPT ![l] = ProfileField]
        BY <1>5, <3>1 DEF FinishSnap
      <4>2. ProfileField \in SUBSET Data
        BY DEF Data
      <4>3. to_copy \in [Link -> SUBSET Data]
        OBVIOUS
      <4> HIDE DEF TypeOK
      <4> QED BY <4>1, <4>2, <4>3
    <3>2. CASE ~ProfileToCopy(l)
      BY <1>5, <3>2 DEF FinishSnap
    <3> QED BY <3>1, <3>2
  <2>3. step' \in [Link -> {"idle", "load", "gate", "copy", "profile", "run"}]
    <3>1. CASE ProfileToCopy(l)
      <4>1. step' = [step EXCEPT ![l] = "profile"]
        BY <1>5, <3>1 DEF FinishSnap, Goto
      <4>2. step \in [Link -> {"idle", "load", "gate", "copy", "profile", "run"}]
        OBVIOUS
      <4> HIDE DEF TypeOK
      <4> QED BY <4>1, <4>2
    <3>2. CASE ~ProfileToCopy(l)
      <4>1. step' = [step EXCEPT ![l] = "run"]
        BY <1>5, <3>2 DEF FinishSnap, Goto
      <4>2. step \in [Link -> {"idle", "load", "gate", "copy", "profile", "run"}]
        OBVIOUS
      <4> HIDE DEF TypeOK
      <4> QED BY <4>1, <4>2
    <3> QED BY <3>1, <3>2
  <2> QED BY <1>5, <2>1, <2>2, <2>3 DEF FinishSnap
<1>6. ASSUME NEW n \in ServeSizes, Run(l, n)
      PROVE  TypeOK'
  <2>1. n \in Nat \ {0} /\ DelayLine[l] \in Nat
    BY InputAssumption, LinkAssumption
  <2>2. OpenedWarmup(l, n) \in Nat
    <3>1. CeilDiv(DelayLine[l], n) \in Nat
      BY <2>1, CeilDivNat
    <3>2. next_slot[l] \in Nat /\ warmup_until_slot[l] \in Nat
      OBVIOUS
    <3> HIDE DEF TypeOK
    <3> QED BY <3>1, <3>2 DEF OpenedWarmup
  <2>3. Shifted(l, n) \in 0..DelayLine[l]
    <3>1. delay_line[l] \in 0..DelayLine[l]
      OBVIOUS
    <3>2. History(l) \in 0..DelayLine[l]
      BY <2>1, <3>1 DEF History
    <3> HIDE DEF TypeOK
    <3> QED BY <2>1, <3>2 DEF Shifted, Min2
  <2>4. warmup_until_slot' \in [Link -> Nat]
    BY <1>6, <2>2 DEF Run
  <2>5. \A k \in Link : delay_line'[k] \in 0..DelayLine[k]
    <3>1. delay_line' = [delay_line EXCEPT ![l] = Shifted(l, n)]
      BY <1>6 DEF Run
    <3>2. \A k \in Link : delay_line[k] \in 0..DelayLine[k]
      OBVIOUS
    <3> HIDE DEF TypeOK
    <3> QED BY <2>3, <3>1, <3>2
  <2>6. live_profile_active' \in [Link -> BOOLEAN]
    BY <1>6, Zenon DEF Run, JustActivated
  <2>7. force_inert_warnings' \in [Link -> Nat]
    BY SMTT(30), <1>6 DEF Run
  <2>8. /\ telemetry' \in [Link -> Nat]
        /\ next_slot' \in [Link -> Nat]
        /\ step' \in [Link -> {"idle", "load", "gate", "copy", "profile", "run"}]
    BY SMTT(30), <1>6 DEF Run
  <2> QED BY <1>6, <2>4, <2>5, <2>6, <2>7, <2>8 DEF Run
<1> QED BY <1>1, <1>2, <1>3, <1>4, <1>5, <1>6, <1>7 DEF Serve

\* A request in progress has an operation at its head.
LEMMA NextBusy == TypeOK /\ Busy /\ [Next]_vars => Busy'
<1> SUFFICES ASSUME TypeOK, Busy, [Next]_vars PROVE Busy'
  OBVIOUS
<1> USE DEF Busy
<1>1. CASE UNCHANGED vars
  BY <1>1 DEF vars, controlVars
<1>2. CASE \E l \in Link : Serve(l)
  BY <1>2 DEF Serve, StoreSlot, DrainSlot, LoadSeqno, CheckGate, CopyField, FinishSnap, Run,
              Serving, controlVars
<1>3. CASE BeginOp
  BY <1>3 DEF BeginOp
<1>4. ASSUME phase' = phase, todo' = todo
      PROVE  Busy'
  BY <1>4
<1>5. CASE \E f \in Data : WriteData(f)
  BY <1>5, <1>4 DEF WriteData, Wrote
<1>6. CASE WriteForce \/ WritePending \/ WriteTakeEffect
  BY <1>6, <1>4 DEF WriteForce, WritePending, WriteTakeEffect, Wrote
<1>7. CASE BumpSeqno
  BY <1>7 DEF BumpSeqno
<1>8. CASE ReplyUpdate \/ ReplyCommit
  BY <1>8 DEF ReplyUpdate, ReplyCommit
<1>9. CASE \/ \E op \in Ops, tea \in TakeEffect : HandleUpdate(op, tea)
           \/ \E b \in BatchId, tea \in TakeEffect : HandleBatchCommit(b, tea)
  BY <1>9 DEF HandleUpdate, HandleBatchCommit, Apply
<1>10. CASE \/ \E op \in Ops, b \in BatchId : HandleStagedUpdate(op, b)
            \/ \E b \in BatchId : HandleBatchBegin(b) \/ HandleBatchAbort(b)
            \/ Reject
  BY <1>10, <1>4 DEF HandleStagedUpdate, Stage, HandleBatchBegin, HandleBatchAbort, Reject
<1> QED BY <1>1, <1>2, <1>3, <1>5, <1>6, <1>7, <1>8, <1>9, <1>10 DEF Next, Control

LEMMA NextType == TypeOK /\ Busy /\ [Next]_vars => TypeOK'
<1> SUFFICES ASSUME TypeOK, Busy, [Next]_vars PROVE TypeOK'
  OBVIOUS
<1>1. CASE UNCHANGED vars
  BY <1>1 DEF TypeOK, vars, sharedVars, slotVars, controlVars, liveVars, serveVars,
              historyVars
<1>2. CASE Control
  BY <1>2, RequestType, ApplyType DEF Control
<1>3. CASE \E l \in Link : Serve(l)
  BY <1>3, ServeType
<1> QED BY <1>1, <1>2, <1>3 DEF Next

\* Every variable keeps its type, whatever the links, the batches and the bounds.
THEOREM TypeCorrect == Spec => []TypeOK
<1>1. Init => TypeOK /\ Busy
  BY InitType DEF Init, Busy
<1>2. TypeOK /\ Busy /\ [Next]_vars => TypeOK' /\ Busy'
  BY NextType, NextBusy
<1> QED BY <1>1, <1>2, PTL DEF Spec

-----------------------------------------------------------------------------
\* The parts a request leaves alone; only the control thread's place moves.
Request ==
  \/ \E op \in Ops, tea \in TakeEffect : HandleUpdate(op, tea)
  \/ \E op \in Ops, b \in BatchId : HandleStagedUpdate(op, b)
  \/ \E b \in BatchId : HandleBatchBegin(b)
  \/ \E b \in BatchId, tea \in TakeEffect : HandleBatchCommit(b, tea)
  \/ \E b \in BatchId : HandleBatchAbort(b)
  \/ Reject

Reply == ReplyUpdate \/ ReplyCommit

copyVars == <<step, observed, to_copy, live, live_seqno, live_profile_active>>

LEMMA RequestFrame ==
  ASSUME Request \/ Reply
  PROVE  /\ phase # "write" /\ phase' # "write"
         /\ UNCHANGED <<writes, log, seqno, shadow, profile_pending, copyVars>>
<1> USE DEF Outside, sharedVars, liveVars, serveVars, historyVars, copyVars
<1>1. CASE \E op \in Ops, tea \in TakeEffect : HandleUpdate(op, tea)
  BY <1>1 DEF HandleUpdate, Apply, Receive
<1>2. CASE \E op \in Ops, b \in BatchId : HandleStagedUpdate(op, b)
  BY <1>2 DEF HandleStagedUpdate, Stage, Receive
<1>3. CASE \E b \in BatchId : HandleBatchBegin(b)
  BY <1>3 DEF HandleBatchBegin, Receive
<1>4. CASE \E b \in BatchId, tea \in TakeEffect : HandleBatchCommit(b, tea)
  BY <1>4 DEF HandleBatchCommit, Apply, Receive
<1>5. CASE \E b \in BatchId : HandleBatchAbort(b)
  BY <1>5 DEF HandleBatchAbort, Receive
<1>6. CASE Reject
  BY <1>6 DEF Reject, Receive
<1>7. CASE Reply
  BY <1>7 DEF Reply, ReplyUpdate, ReplyCommit
<1> QED BY <1>1, <1>2, <1>3, <1>4, <1>5, <1>6, <1>7 DEF Request

LEMMA ServeFrame ==
  ASSUME NEW l \in Link, Serve(l)
  PROVE  UNCHANGED <<phase, todo, writes, log, seqno, shadow, profile_pending>>
BY DEF Serve, StoreSlot, DrainSlot, LoadSeqno, CheckGate, CopyField, FinishSnap, Run,
       Serving, controlVars, sharedVars, historyVars

LEMMA WriteFrame ==
  ASSUME NEW f, Wrote(f)
  PROVE  /\ phase = "write" /\ f \in writes /\ writes' = writes \ {f}
         /\ UNCHANGED <<phase, todo, log, seqno, copyVars>>
BY DEF Wrote, liveVars, historyVars, copyVars

Write == (\E f \in Data : WriteData(f)) \/ WriteForce \/ WritePending \/ WriteTakeEffect

LEMMA NextCases ==
  ASSUME [Next]_vars
  PROVE  \/ Request \/ Reply \/ BeginOp \/ Write \/ BumpSeqno
         \/ (\E l \in Link : Serve(l)) \/ UNCHANGED vars
BY DEF Next, Control, Request, Reply, Write

\* Beginning an operation appends it to the log of its link.
LEMMA BeginOpLog ==
  ASSUME TypeOK, BeginOp
  PROVE  /\ Target \in Link
         /\ \A l \in Link :
              /\ Len(log'[l]) = IF l = Target THEN Len(log[l]) + 1 ELSE Len(log[l])
              /\ \A s \in 1..Len(log[l]) : log'[l][s] = log[l][s]
              /\ l # Target => log'[l] = log[l]
         /\ log'[Target][Len(log[Target]) + 1].fields = Head(todo).fields
         /\ log'[Target][Len(log[Target]) + 1].gate = gate
         /\ log'[Target][Len(log[Target]) + 1].batch =
              IF committing = NoBatch THEN 0 ELSE counters["batches_committed"] + 1
<1> DEFINE entry == [fields |-> Head(todo).fields, gate |-> gate,
                     batch |-> IF committing = NoBatch THEN 0
                               ELSE counters["batches_committed"] + 1]
           Entry == [fields : OpFields, gate : Nat, batch : Nat]
<1>1. Target \in Link
  BY TargetIsLink DEF BeginOp
<1>2. log' = [log EXCEPT ![Target] = Append(log[Target], entry)]
  BY DEF BeginOp
<1>3. /\ entry.fields = Head(todo).fields /\ entry.gate = gate
      /\ entry.batch = IF committing = NoBatch THEN 0
                       ELSE counters["batches_committed"] + 1
  OBVIOUS
<1>4. log \in [Link -> Seq(Entry)]
  BY DEF TypeOK, OpFields
<1> HIDE DEF entry, Entry
<1>5. log[Target] \in Seq(Entry) /\ log'[Target] = Append(log[Target], entry)
  BY <1>1, <1>2, <1>4
<1>6. /\ Len(log'[Target]) = Len(log[Target]) + 1
      /\ \A s \in 1..Len(log[Target]) : log'[Target][s] = log[Target][s]
      /\ log'[Target][Len(log[Target]) + 1] = entry
  BY <1>5
<1>7. \A l \in Link : l # Target => log'[l] = log[l]
  BY <1>2, <1>4
<1> QED BY <1>1, <1>3, <1>6, <1>7

LEMMA NextControl ==
  ASSUME TypeOK, Busy, ControlInv, [Next]_vars
  PROVE  ControlInv'
<1>0. /\ seqno \in [Link -> Nat] /\ observed \in [Link -> Nat]
      /\ live_seqno \in [Link -> Nat]
      /\ \A l \in Link : Len(log[l]) \in Nat
  BY DEF TypeOK
<1>1. CASE Request \/ Reply
  BY <1>1, RequestFrame DEF ControlInv, copyVars
<1>2. CASE BeginOp
  <2>1. UNCHANGED <<todo, seqno, observed, live_seqno>> /\ phase = "next" /\ phase' = "write"
    BY <1>2 DEF BeginOp, liveVars
  <2>2. Target' = Target
    BY <2>1 DEF Target
  <2>3. \A l \in Link : Len(log'[l]) =
          IF phase' = "write" /\ Target' = l THEN seqno'[l] + 1 ELSE seqno'[l]
    BY <1>2, <2>1, <2>2, BeginOpLog DEF ControlInv
  <2>4. ASSUME NEW l \in Link, NEW s \in 1..Len(log'[l]), IsSwap(log'[l][s])
        PROVE  ProfileField \subseteq log'[l][s].fields
    <3>1. CASE s \in 1..Len(log[l])
      <4>1. log'[l][s] = log[l][s]
        BY <1>2, <3>1, BeginOpLog
      <4> QED BY <2>4, <3>1, <4>1 DEF ControlInv, IsSwap
    <3>2. CASE s \notin 1..Len(log[l])
      <4>1. l = Target /\ s = Len(log[l]) + 1
        BY SMTT(30), <1>0, <1>2, <3>2, BeginOpLog
      <4>2. log'[l][s].fields = Head(todo).fields
        BY <1>2, <4>1, BeginOpLog
      <4>3. Head(todo) \in Ops
        BY <1>2, TargetIsLink DEF BeginOp
      <4> QED BY <2>4, <4>2, <4>3, OpShape DEF IsSwap
    <3> QED BY <3>1, <3>2
  <2> QED BY <2>1, <2>3, <2>4 DEF ControlInv
<1>3. CASE Write
  <2>1. UNCHANGED <<phase, todo, log, seqno, observed, live_seqno>>
    BY <1>3, WriteFrame DEF Write, WriteData, WriteForce, WritePending,
                            WriteTakeEffect, copyVars
  <2> QED BY <2>1 DEF ControlInv, Target
<1>4. CASE BumpSeqno
  <2>1. /\ phase = "write" /\ phase' # "write"
        /\ seqno' = [seqno EXCEPT ![Target] = seqno[Target] + 1]
        /\ UNCHANGED <<log, observed, live_seqno>>
    BY <1>4 DEF BumpSeqno, liveVars, historyVars
  <2>2. Target \in Link
    BY <2>1, TargetIsLink DEF Busy
  <2>3. \A l \in Link : seqno'[l] = IF l = Target THEN seqno[l] + 1 ELSE seqno[l]
    BY <1>0, <2>1
  <2>4. \A l \in Link : Len(log'[l]) = seqno'[l]
    BY <2>1, <2>3 DEF ControlInv
  <2>5. \A l \in Link : observed'[l] <= seqno'[l] /\ live_seqno'[l] <= seqno'[l]
    BY <1>0, <2>1, <2>3 DEF ControlInv
  <2>6. \A l \in Link : \A s \in 1..Len(log'[l]) :
          IsSwap(log'[l][s]) => ProfileField \subseteq log'[l][s].fields
    BY <2>1 DEF ControlInv
  <2> QED BY <2>1, <2>4, <2>5, <2>6 DEF ControlInv
<1>5. ASSUME NEW l \in Link, Serve(l)
      PROVE  ControlInv'
  <2>1. UNCHANGED <<phase, todo, log, seqno>>
    BY <1>5, ServeFrame
  <2>2. \A k \in Link : observed'[k] <= seqno[k] /\ live_seqno'[k] <= seqno[k]
    <3>1. CASE LoadSeqno(l)
      BY <1>0, <3>1 DEF LoadSeqno, ControlInv, liveVars
    <3>2. CASE FinishSnap(l)
      BY <1>0, <3>2 DEF FinishSnap, Observed, ControlInv
    <3>3. CASE UNCHANGED <<observed, live_seqno>>
      BY <3>3 DEF ControlInv
    <3>4. CASE StoreSlot(l) \/ DrainSlot(l) \/ CheckGate(l) \/ (\E f \in Data : CopyField(l, f))
                 \/ \E n \in ServeSizes : Run(l, n)
      BY <3>3, <3>4 DEF StoreSlot, DrainSlot, CheckGate, CopyField, Run, liveVars
    <3> QED BY <1>5, <3>1, <3>2, <3>4 DEF Serve
  <2> QED BY <2>1, <2>2 DEF ControlInv, Target
<1>6. CASE UNCHANGED vars
  BY <1>6 DEF ControlInv, Target, vars, controlVars, liveVars, historyVars
<1> QED BY <1>1, <1>2, <1>3, <1>4, <1>5, <1>6, NextCases

\* The names of the plain fields are distinct.
LEMMA DistinctFields ==
  /\ \A f \in Data : f \notin {"force", "profile_pending", "take_effect_at_slot"}
  /\ Param \cap ProfileField = {}
BY LinkAssumption DEF Data, ProfileField

\* Whatever a step does not write stays written.
LEMMA ShadowFrame ==
  ASSUME ShadowInv,
         UNCHANGED <<log, shadow, profile_pending>>,
         \A l \in Link : \A s \in 1..Len(log[l]) :
           \A f \in Data \cup {"profile_pending"} :
             Written(l, s, f)' => Written(l, s, f)
  PROVE  ShadowInv'
BY DEF ShadowInv

LEMMA NextShadow ==
  ASSUME TypeOK, Busy, ControlInv, ShadowInv, [Next]_vars
  PROVE  ShadowInv'
<1>0. /\ seqno \in [Link -> Nat]
      /\ shadow \in [Link -> [Data -> Nat]]
      /\ profile_pending \in [Link -> BOOLEAN]
      /\ \A l \in Link : Len(log[l]) \in Nat
  BY DEF TypeOK
<1>1. CASE Request \/ Reply
  BY <1>1, RequestFrame, ShadowFrame DEF Written
<1>2. CASE BeginOp
  <2>1. /\ phase = "next" /\ UNCHANGED <<seqno, shadow, profile_pending>>
        /\ writes' = Head(todo).fields \cup {"take_effect_at_slot"}
    BY <1>2 DEF BeginOp, sharedVars
  <2>2. SUFFICES ASSUME NEW l \in Link, NEW s \in 1..Len(log'[l]), NEW f, Written(l, s, f)'
                 PROVE  /\ f \in Data => shadow[l][f] >= s
                        /\ f = "profile_pending" => profile_pending[l]
    BY <2>1, Zenon DEF ShadowInv
  <2>3. CASE s \in 1..Len(log[l])
    <3>1. log'[l][s] = log[l][s] /\ s <= seqno[l]
      BY <1>2, <2>1, <2>3, BeginOpLog DEF ControlInv
    <3>2. Written(l, s, f)
      BY <2>2, <3>1 DEF Written
    <3> QED BY <2>3, <3>2 DEF ShadowInv
  <2>4. CASE s \notin 1..Len(log[l])
    <3>1. l = Target /\ s = Len(log[l]) + 1
      BY <1>0, <1>2, <2>4, BeginOpLog
    <3>2. log'[l][s].fields \subseteq writes'
      BY <1>2, <2>1, <3>1, BeginOpLog
    <3>3. ~(s <= seqno'[l])
      BY <1>0, <2>1, <3>1 DEF ControlInv
    <3> QED BY <2>2, <3>2, <3>3 DEF Written
  <2> QED BY <2>3, <2>4
<1>3. ASSUME NEW f \in Data, WriteData(f)
      PROVE  ShadowInv'
  <2>1. /\ phase = "write" /\ writes' = writes \ {f}
        /\ UNCHANGED <<todo, log, seqno, profile_pending>>
        /\ shadow' = [shadow EXCEPT ![Target][f] = Len(log[Target])]
    BY <1>3, WriteFrame DEF WriteData
  <2>2. Target \in Link
    BY <2>1, TargetIsLink DEF Busy
  <2>3. SUFFICES ASSUME NEW l \in Link, NEW s \in 1..Len(log[l]), NEW g, Written(l, s, g)'
                 PROVE  /\ g \in Data => shadow'[l][g] >= s
                        /\ g = "profile_pending" => profile_pending[l]
    BY <2>1, Zenon DEF ShadowInv
  <2>4. CASE l = Target /\ g = f
    <3>1. shadow'[l][g] = Len(log[l])
      BY <1>0, <2>1, <2>2, <2>4
    <3>2. g # "profile_pending"
      BY <2>4, DistinctFields
    <3> QED BY <1>0, <3>1, <3>2
  <2>5. CASE ~(l = Target /\ g = f)
    <3>1. Written(l, s, g)
      <4>1. CASE l = Target
        BY <2>1, <2>3, <2>5, <4>1 DEF Written
      <4>2. CASE l # Target
        <5>1. s <= seqno[l]
          BY <4>2 DEF ControlInv
        <5> QED BY <2>1, <2>3, <5>1 DEF Written
      <4> QED BY <4>1, <4>2
    <3>2. g \in Data => shadow'[l][g] = shadow[l][g]
      BY <1>0, <2>1, <2>5
    <3> QED BY <3>1, <3>2 DEF ShadowInv
  <2> QED BY <2>4, <2>5
<1>4. CASE WriteForce \/ WriteTakeEffect
  <2>1. PICK f \in {"force", "take_effect_at_slot"} :
          /\ writes' = writes \ {f}
          /\ UNCHANGED <<log, seqno, shadow, profile_pending>>
    BY <1>4, WriteFrame DEF WriteForce, WriteTakeEffect
  <2>2. f \notin Data \cup {"profile_pending"}
    BY DistinctFields
  <2> QED BY <2>1, <2>2, ShadowFrame DEF Written
<1>5. CASE WritePending
  <2>1. /\ phase = "write" /\ writes' = writes \ {"profile_pending"}
        /\ UNCHANGED <<todo, log, seqno, shadow>>
        /\ profile_pending' = [profile_pending EXCEPT ![Target] = TRUE]
    BY <1>5, WriteFrame DEF WritePending
  <2>2. ASSUME NEW l \in Link, NEW s \in 1..Len(log[l]), NEW g \in Data, Written(l, s, g)'
        PROVE  shadow[l][g] >= s
    <3>1. Written(l, s, g)
      BY <2>1, <2>2, DistinctFields DEF Written
    <3> QED BY <3>1 DEF ShadowInv
  <2>3. ASSUME NEW l \in Link, NEW s \in 1..Len(log[l]), Written(l, s, "profile_pending")'
        PROVE  profile_pending'[l]
    <3>1. CASE l = Target
      BY <1>0, <2>1, <3>1
    <3>2. CASE l # Target
      <4>1. s <= seqno[l]
        BY <2>1, <3>2 DEF ControlInv
      <4>2. Written(l, s, "profile_pending")
        BY <2>1, <2>3, <4>1 DEF Written
      <4> QED BY <1>0, <2>1, <3>2, <4>2 DEF ShadowInv
    <3> QED BY <3>1, <3>2
  <2> QED BY <2>1, <2>2, <2>3 DEF ShadowInv
<1>6. CASE BumpSeqno
  <2>1. writes = {} /\ UNCHANGED <<log, shadow, profile_pending>>
    BY <1>6 DEF BumpSeqno, sharedVars, historyVars
  <2> QED BY <2>1, ShadowFrame DEF Written
<1>7. CASE (\E l \in Link : Serve(l)) \/ UNCHANGED vars
  <2>1. UNCHANGED <<writes, log, seqno, shadow, profile_pending>>
    BY <1>7, ServeFrame DEF vars, controlVars, sharedVars, historyVars
  <2> QED BY <2>1, ShadowFrame DEF Written
<1> QED BY <1>1, <1>2, <1>3, <1>4, <1>5, <1>6, <1>7, NextCases DEF Write

-----------------------------------------------------------------------------
\* CopyInv, NoLostUpdate and NoLostProfile for one link.
Copied(l) ==
  /\ step[l] = "copy" => to_copy[l] \subseteq Param
  /\ step[l] = "profile" => to_copy[l] \subseteq ProfileField
  /\ step[l] \notin {"copy", "profile"} => to_copy[l] = {}
  /\ step[l] = "copy" =>
       \A p \in Param \ to_copy[l] : \A s \in 1..observed[l] :
         p \in log[l][s].fields => live[l][p] >= s
  /\ l \in Leading /\ step[l] = "profile" =>
       \A f \in ProfileField \ to_copy[l] : \A s \in 1..live_seqno[l] :
         f \in log[l][s].fields => live[l][f] >= s
  /\ \A s \in 1..live_seqno[l] :
       \A p \in Param \cap log[l][s].fields : live[l][p] >= s
  /\ l \in Leading /\ step[l] # "profile" =>
       \A s \in 1..live_seqno[l] :
         IsSwap(log[l][s]) =>
           live_profile_active[l] /\ \A f \in ProfileField : live[l][f] >= s

LEMMA CopiedLinks ==
  (\A l \in Link : Copied(l)) <=> CopyInv /\ NoLostUpdate /\ NoLostProfile
BY LinkAssumption, Zenon DEF Copied, CopyInv, NoLostUpdate, NoLostProfile

SameLink(l) ==
  /\ step'[l] = step[l] /\ observed'[l] = observed[l] /\ to_copy'[l] = to_copy[l]
  /\ live'[l] = live[l] /\ live_seqno'[l] = live_seqno[l]
  /\ live_profile_active'[l] = live_profile_active[l]

\* A link that no serve moves keeps what it has copied, though its log may grow.
LEMMA CopiedFrame ==
  ASSUME TypeOK, ControlInv, NEW l \in Link, Copied(l), SameLink(l),
         \A s \in 1..Len(log[l]) : log'[l][s] = log[l][s]
  PROVE  Copied(l)'
<1>1. /\ observed[l] \in Nat /\ live_seqno[l] \in Nat /\ Len(log[l]) \in Nat
      /\ observed[l] <= Len(log[l]) /\ live_seqno[l] <= Len(log[l])
  BY SMTT(30) DEF TypeOK, ControlInv
<1>2. /\ \A s \in 1..observed[l] : log'[l][s] = log[l][s]
      /\ \A s \in 1..live_seqno[l] : log'[l][s] = log[l][s]
  BY <1>1
<1> QED BY <1>2 DEF Copied, SameLink, IsSwap

\* What an update published, the shared fields still hold.
LEMMA Published ==
  ASSUME TypeOK, ControlInv, ShadowInv, NEW l \in Link,
         NEW s \in 1..seqno[l], NEW f \in log[l][s].fields
  PROVE  /\ s \in 1..Len(log[l])
         /\ f \in Data => shadow[l][f] >= s
         /\ f = "profile_pending" => profile_pending[l]
<1>1. seqno[l] \in Nat /\ Len(log[l]) \in Nat /\ seqno[l] <= Len(log[l])
  <2>1. seqno[l] \in Nat
    BY DEF TypeOK
  <2>2. Len(log[l]) = seqno[l] + 1 \/ Len(log[l]) = seqno[l]
    BY DEF ControlInv
  <2> QED BY <2>1, <2>2
<1>2. s \in 1..Len(log[l]) /\ Written(l, s, f)
  BY <1>1 DEF Written
<1> QED BY <1>2 DEF ShadowInv

\* A serve moves one link only.
LEMMA ServeOther ==
  ASSUME TypeOK, NEW l \in Link, Serve(l), NEW k \in Link, k # l
  PROVE  SameLink(k)
<1> USE DEF TypeOK, SameLink, Goto, liveVars
<1>1. CASE StoreSlot(l) \/ DrainSlot(l) \/ LoadSeqno(l)
  BY <1>1 DEF StoreSlot, DrainSlot, LoadSeqno
<1>2. CASE CheckGate(l)
  BY <1>2 DEF CheckGate
<1>3. CASE \E f \in Data : CopyField(l, f)
  BY <1>3 DEF CopyField
<1>4. CASE FinishSnap(l)
  BY <1>4 DEF FinishSnap
<1>5. CASE \E n \in ServeSizes : Run(l, n)
  BY <1>5 DEF Run
<1> QED BY <1>1, <1>2, <1>3, <1>4, <1>5 DEF Serve

\* Copying a field brings it up to every update published so far.
LEMMA CopyFieldCopied ==
  ASSUME TypeOK, ControlInv, ShadowInv, NEW l \in Link, Copied(l),
         NEW f \in Data, CopyField(l, f)
  PROVE  Copied(l)'
<1>1. /\ f \in to_copy[l] /\ to_copy'[l] = to_copy[l] \ {f}
      /\ live'[l][f] = shadow[l][f]
      /\ \A g \in Data : g # f => live'[l][g] = live[l][g]
      /\ UNCHANGED <<log, step, observed, live_seqno, live_profile_active>>
  BY DEF CopyField, TypeOK, Serving, historyVars
<1>2. \A s \in 1..seqno[l] : f \in log[l][s].fields => live'[l][f] >= s
  BY <1>1, Published
<1>3. /\ observed[l] \in Nat /\ live_seqno[l] \in Nat /\ seqno[l] \in Nat
      /\ observed[l] <= seqno[l] /\ live_seqno[l] <= seqno[l]
  BY DEF TypeOK, ControlInv
<1>4. /\ \A s \in 1..observed[l] : f \in log[l][s].fields => live'[l][f] >= s
      /\ \A s \in 1..live_seqno[l] : f \in log[l][s].fields => live'[l][f] >= s
  BY <1>2, <1>3
<1>5. ASSUME NEW s \in 1..live_seqno[l], NEW p \in Param \cap log[l][s].fields
      PROVE  live'[l][p] >= s
  <2>1. p = f \/ live'[l][p] = live[l][p]
    BY <1>1 DEF Data
  <2> QED BY <1>4, <2>1 DEF Copied
<1>6. CASE step[l] = "copy"
  <2>1. f \in Param /\ f \notin ProfileField
    BY <1>1, <1>6, DistinctFields DEF Copied
  <2>2. ASSUME NEW p \in Param \ to_copy'[l], NEW s \in 1..observed[l],
               p \in log[l][s].fields
        PROVE  live'[l][p] >= s
    <3>1. CASE p = f
      BY <1>4, <2>2, <3>1
    <3>2. CASE p # f
      BY <1>1, <1>6, <2>2, <3>2 DEF Copied, Data
    <3> QED BY <3>1, <3>2
  <2>3. \A g \in ProfileField : live'[l][g] = live[l][g]
    BY <1>1, <2>1 DEF Data
  <2> QED BY <1>1, <1>5, <1>6, <2>2, <2>3 DEF Copied
<1>7. CASE step[l] = "profile"
  <2>1. f \in ProfileField
    BY <1>1, <1>7 DEF Copied
  <2>2. ASSUME l \in Leading, NEW g \in ProfileField \ to_copy'[l],
               NEW s \in 1..live_seqno[l], g \in log[l][s].fields
        PROVE  live'[l][g] >= s
    <3>1. CASE g = f
      BY <1>4, <2>2, <3>1
    <3>2. CASE g # f
      BY <1>1, <1>7, <2>2, <3>2 DEF Copied, Data
    <3> QED BY <3>1, <3>2
  <2> QED BY <1>1, <1>5, <1>7, <2>2 DEF Copied
<1> QED BY <1>1, <1>6, <1>7 DEF Copied

\* A snap ends with every published update in the live parameters, its profile
\* at least marked for copying.
LEMMA FinishSnapCopied ==
  ASSUME TypeOK, ControlInv, ShadowInv, NEW l \in Link, Copied(l), FinishSnap(l)
  PROVE  Copied(l)'
<1>1. /\ step[l] = "copy" /\ to_copy[l] = {} /\ live_seqno'[l] = observed[l]
      /\ UNCHANGED <<log, observed, live, live_profile_active>>
  BY DEF FinishSnap, Observed, TypeOK, Serving, historyVars
<1>2. \A s \in 1..live_seqno'[l] : \A p \in Param \cap log[l][s].fields : live[l][p] >= s
  BY <1>1 DEF Copied
<1>3. CASE ProfileToCopy(l)
  <2>1. step'[l] = "profile" /\ to_copy'[l] = ProfileField
    BY <1>3 DEF FinishSnap, Goto, TypeOK
  <2> QED BY <1>1, <1>2, <2>1 DEF Copied
<1>4. CASE ~ProfileToCopy(l)
  <2>1. step'[l] = "run" /\ to_copy'[l] = {}
    BY <1>1, <1>4 DEF FinishSnap, Goto, TypeOK
  <2>2. ASSUME l \in Leading, NEW s \in 1..live_seqno'[l], IsSwap(log[l][s])
        PROVE  FALSE
    <3>1. s \in 1..seqno[l]
      BY <1>1 DEF ControlInv, TypeOK
    <3>2. profile_pending[l]
      BY <2>2, <3>1, Published DEF IsSwap
    <3> QED BY <1>4, <2>2, <3>2 DEF ProfileToCopy, Eligible
  <2> QED BY <1>1, <1>2, <2>1, <2>2 DEF Copied
<1> QED BY <1>3, <1>4

\* The rest of a serve makes a copied profile the active one.
LEMMA RunCopied ==
  ASSUME TypeOK, ControlInv, NEW l \in Link, Copied(l), NEW n \in ServeSizes, Run(l, n)
  PROVE  Copied(l)'
<1>1. /\ step'[l] = "idle"
      /\ live_profile_active'[l] = (live_profile_active[l] \/ JustActivated(l))
      /\ UNCHANGED <<log, observed, to_copy, live, live_seqno>>
  BY Zenon DEF Run, Goto, TypeOK, Serving, historyVars
<1>2. to_copy[l] = {}
  BY DEF Run, SnapDone, JustActivated, Copied
<1>3. ASSUME l \in Leading, NEW s \in 1..live_seqno[l], IsSwap(log[l][s])
      PROVE  live_profile_active'[l] /\ \A f \in ProfileField : live[l][f] >= s
  <2>1. CASE JustActivated(l)
    <3>1. s \in 1..Len(log[l])
      BY DEF ControlInv, TypeOK
    <3>2. ProfileField \subseteq log[l][s].fields
      BY <1>3, <3>1 DEF ControlInv
    <3> QED BY <1>1, <1>2, <1>3, <2>1, <3>2 DEF JustActivated, Copied
  <2>2. CASE ~JustActivated(l)
    <3>1. step[l] # "profile"
      BY <2>2 DEF Run, SnapDone
    <3> QED BY <1>1, <1>3, <3>1 DEF Copied
  <2> QED BY <2>1, <2>2
<1> QED BY <1>1, <1>2, <1>3 DEF Copied

LEMMA ServeCopied ==
  ASSUME TypeOK, ControlInv, ShadowInv, NEW l \in Link, Copied(l), Serve(l)
  PROVE  Copied(l)'
<1> USE DEF TypeOK, Goto, Serving, historyVars, liveVars
<1>1. CASE StoreSlot(l) \/ DrainSlot(l)
  BY <1>1 DEF StoreSlot, DrainSlot, Copied
<1>2. CASE LoadSeqno(l)
  BY <1>2 DEF LoadSeqno, Copied
<1>3. CASE CheckGate(l)
  <2>1. step[l] = "gate" /\ to_copy[l] = {}
    BY <1>3 DEF CheckGate, Copied
  <2>2. \/ step'[l] = "run" /\ to_copy'[l] = {}
        \/ step'[l] = "copy" /\ to_copy'[l] = Param
    BY <1>3, <2>1 DEF CheckGate
  <2>3. UNCHANGED <<log, observed, live, live_seqno, live_profile_active>>
    BY <1>3 DEF CheckGate
  <2> QED BY <2>1, <2>2, <2>3 DEF Copied
<1>4. CASE \E f \in Data : CopyField(l, f)
  BY <1>4, CopyFieldCopied
<1>5. CASE FinishSnap(l)
  BY <1>5, FinishSnapCopied
<1>6. CASE \E n \in ServeSizes : Run(l, n)
  BY <1>6, RunCopied
<1> QED BY <1>1, <1>2, <1>3, <1>4, <1>5, <1>6 DEF Serve

LEMMA NextCopied ==
  ASSUME TypeOK, ControlInv, ShadowInv, [Next]_vars, \A k \in Link : Copied(k)
  PROVE  \A k \in Link : Copied(k)'
<1> SUFFICES ASSUME NEW k \in Link PROVE Copied(k)'
  OBVIOUS
<1>1. CASE Request \/ Reply \/ Write \/ BumpSeqno \/ UNCHANGED vars
  <2>1. UNCHANGED <<log, copyVars>>
    BY <1>1, RequestFrame, WriteFrame
    DEF Write, WriteData, WriteForce, WritePending, WriteTakeEffect, BumpSeqno, vars,
        historyVars, liveVars, copyVars
  <2> QED BY <2>1, CopiedFrame DEF SameLink, copyVars
<1>2. CASE BeginOp
  <2>1. UNCHANGED copyVars
    BY <1>2 DEF BeginOp, liveVars, copyVars
  <2> QED BY <1>2, <2>1, BeginOpLog, CopiedFrame DEF SameLink, copyVars
<1>3. ASSUME NEW l \in Link, Serve(l)
      PROVE  Copied(k)'
  <2>1. log' = log
    BY <1>3, ServeFrame
  <2>2. CASE k = l
    BY <1>3, <2>2, ServeCopied
  <2>3. CASE k # l
    BY <1>3, <2>1, <2>3, ServeOther, CopiedFrame
  <2> QED BY <2>2, <2>3
<1> QED BY <1>1, <1>2, <1>3, NextCases

\* The invariant is inductive.
LEMMA InitInv == Init => ControlLinkInv
<1> SUFFICES ASSUME Init PROVE ControlLinkInv
  OBVIOUS
<1>1. TypeOK /\ Busy
  BY InitType DEF Init, Busy
<1>2. \A l \in Link : /\ log[l] = <<>> /\ seqno[l] = 0 /\ observed[l] = 0
                      /\ live_seqno[l] = 0 /\ to_copy[l] = {} /\ step[l] = "idle"
  BY DEF Init
<1>3. ControlInv /\ ShadowInv
  BY <1>2 DEF Init, ControlInv, ShadowInv
<1>4. \A l \in Link : Copied(l)
  BY <1>2 DEF Copied
<1> QED BY <1>1, <1>3, <1>4, CopiedLinks DEF ControlLinkInv

LEMMA NextInv == ControlLinkInv /\ [Next]_vars => ControlLinkInv'
<1> SUFFICES ASSUME ControlLinkInv, [Next]_vars PROVE ControlLinkInv'
  OBVIOUS
<1>1. TypeOK' /\ Busy' /\ ControlInv' /\ ShadowInv'
  BY NextType, NextBusy, NextControl, NextShadow DEF ControlLinkInv
<1>2. \A k \in Link : Copied(k)
  BY CopiedLinks DEF ControlLinkInv
<1>3. \A k \in Link : Copied(k)'
  BY <1>2, NextCopied DEF ControlLinkInv
<1>4. CopyInv' /\ NoLostUpdate' /\ NoLostProfile'
  BY <1>3, LinkAssumption, Zenon DEF Copied, CopyInv, NoLostUpdate, NoLostProfile
<1> QED BY <1>1, <1>4 DEF ControlLinkInv

\* A link that reports update s live serves with the scalars that update s, or
\* a later one, wrote: snap_mutable_params against apply_update.
THEOREM NoUpdateLost == Spec => []NoLostUpdate
<1>1. ControlLinkInv => NoLostUpdate
  BY DEF ControlLinkInv
<1> QED BY <1>1, InitInv, NextInv, PTL DEF Spec

\* The same for the taps of a profile swap on a link that starts with a tdl step.
THEOREM NoProfileLost == Spec => []NoLostProfile
<1>1. ControlLinkInv => NoLostProfile
  BY DEF ControlLinkInv
<1> QED BY <1>1, InitInv, NextInv, PTL DEF Spec
=============================================================================
