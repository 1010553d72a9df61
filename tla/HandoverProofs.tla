--------------------------- MODULE HandoverProofs ---------------------------
(***************************************************************************)
(* What is proved beyond LinkControlProofs: the control thread's books for *)
(* any client; for clients that close the loop (each waits for telemetry   *)
(* to show its last update of a link before it sends the next), when and   *)
(* how whole an update goes live; and the warm-ups a profile swap opens.   *)
(***************************************************************************)
EXTENDS LinkControlProofs, FiniteSetTheorems

\* The books as the handlers keep them, a request in progress included.
Accounts ==
  /\ IsFiniteSet(DOMAIN open_batches)
  /\ phase # "recv" /\ committing # NoBatch => committing \in DOMAIN open_batches
  /\ phase = "reply" => committing = NoBatch
  /\ phase = "next" /\ todo = <<>> => committing # NoBatch
  /\ counters["msgs_received"] =
       counters["updates_applied"] + counters["updates_rejected"]
         + 2 * (counters["batches_committed"] + counters["batches_aborted"])
         + Cardinality(DOMAIN open_batches)
         + (IF phase = "recv" THEN 0 ELSE 1)

\* Counting adds one to the counters named.
LEMMA Counted ==
  ASSUME counters \in [Counter -> Nat], NEW cs, Count(cs)
  PROVE  \A c \in Counter : counters'[c] = counters[c] + (IF c \in cs THEN 1 ELSE 0)
BY DEF Count

LEMMA InitAccounts == Init => Accounts
<1>1. IsFiniteSet({}) /\ Cardinality({}) = 0
  BY FS_EmptySet
<1> QED BY <1>1 DEF Init, Accounts, Counter

\* A batch is opened by its begin message and closed by its commit or abort.
LEMMA NextAccounts == TypeOK /\ Busy /\ Accounts /\ [Next]_vars => Accounts'
<1> SUFFICES ASSUME TypeOK, Busy, Accounts, [Next]_vars PROVE Accounts'
  OBVIOUS
<1> DEFINE M == counters["msgs_received"]
           A == counters["updates_applied"]
           R == counters["updates_rejected"]
           C == counters["batches_committed"]
           B == counters["batches_aborted"]
           N == Cardinality(DOMAIN open_batches)
<1>0. /\ counters \in [Counter -> Nat] /\ IsFiniteSet(DOMAIN open_batches)
      /\ N \in Nat
      /\ M \in Nat /\ A \in Nat /\ R \in Nat /\ C \in Nat /\ B \in Nat
      /\ {"msgs_received", "updates_applied", "updates_rejected",
          "batches_committed", "batches_aborted"} = Counter
  BY FS_CardinalityType DEF Accounts, TypeOK, Counter
<1>1. ASSUME NEW op \in Ops, NEW tea \in TakeEffect, HandleUpdate(op, tea)
      PROVE  Accounts'
  <2>1. /\ phase = "recv" /\ phase' = "next" /\ todo' # <<>> /\ committing' = NoBatch
        /\ UNCHANGED open_batches /\ Count({"msgs_received"})
    BY <1>1 DEF HandleUpdate, Receive, Apply
  <2>2. M' = M + 1 /\ UNCHANGED <<A, R, C, B>>
    BY <1>0, <2>1, Counted
  <2> QED BY <1>0, <2>1, <2>2 DEF Accounts
<1>2. ASSUME NEW op \in Ops, NEW b \in BatchId, HandleStagedUpdate(op, b)
      PROVE  Accounts'
  <2>1. /\ phase = "recv" /\ phase' = "recv"
        /\ DOMAIN open_batches' = DOMAIN open_batches
        /\ Count({"msgs_received", "updates_applied"})
    BY <1>2 DEF HandleStagedUpdate, Receive, Stage
  <2>2. M' = M + 1 /\ A' = A + 1 /\ UNCHANGED <<R, C, B>>
    BY <1>0, <2>1, Counted
  <2> QED BY <1>0, <2>1, <2>2 DEF Accounts
<1>3. ASSUME NEW b \in BatchId, HandleBatchBegin(b)
      PROVE  Accounts'
  <2>1. /\ phase = "recv" /\ phase' = "recv" /\ b \notin DOMAIN open_batches
        /\ DOMAIN open_batches' = DOMAIN open_batches \cup {b}
        /\ Count({"msgs_received"})
    BY <1>3 DEF HandleBatchBegin, Receive
  <2>2. M' = M + 1 /\ UNCHANGED <<A, R, C, B>>
    BY <1>0, <2>1, Counted
  <2>3. IsFiniteSet(DOMAIN open_batches') /\ N' = N + 1
    BY <1>0, <2>1, FS_AddElement
  <2> HIDE DEF N
  <2> QED BY <1>0, <2>1, <2>2, <2>3 DEF Accounts, N
<1>4. ASSUME NEW b \in BatchId, NEW tea \in TakeEffect, HandleBatchCommit(b, tea)
      PROVE  Accounts'
  <2>1. /\ phase = "recv" /\ phase' = "next" /\ committing' = b
        /\ b \in DOMAIN open_batches /\ UNCHANGED open_batches
        /\ Count({"msgs_received"})
    BY <1>4 DEF HandleBatchCommit, Receive, Apply
  <2>2. M' = M + 1 /\ UNCHANGED <<A, R, C, B>>
    BY <1>0, <2>1, Counted
  <2>3. b # NoBatch
    BY BatchAssumption
  <2> QED BY <1>0, <2>1, <2>2, <2>3 DEF Accounts
<1>5. ASSUME NEW b \in BatchId, HandleBatchAbort(b)
      PROVE  Accounts'
  <2>1. /\ phase = "recv" /\ phase' = "recv" /\ b \in DOMAIN open_batches
        /\ DOMAIN open_batches' = DOMAIN open_batches \ {b}
        /\ Count({"msgs_received", "batches_aborted"})
    BY <1>5 DEF HandleBatchAbort, Receive, Without
  <2>2. M' = M + 1 /\ B' = B + 1 /\ UNCHANGED <<A, R, C>>
    BY <1>0, <2>1, Counted
  <2>3. IsFiniteSet(DOMAIN open_batches') /\ N' = N - 1
    BY <1>0, <2>1, FS_RemoveElement
  <2> HIDE DEF N
  <2> QED BY <1>0, <2>1, <2>2, <2>3 DEF Accounts, N
<1>6. CASE Reject
  <2>1. /\ phase = "recv" /\ phase' = "recv" /\ UNCHANGED open_batches
        /\ Count({"msgs_received", "updates_rejected"})
    BY <1>6 DEF Reject, Receive
  <2>2. M' = M + 1 /\ R' = R + 1 /\ UNCHANGED <<A, C, B>>
    BY <1>0, <2>1, Counted
  <2> QED BY <1>0, <2>1, <2>2 DEF Accounts
<1>7. CASE ReplyUpdate
  <2>1. /\ phase = "reply" /\ phase' = "recv" /\ UNCHANGED open_batches
        /\ Count({"updates_applied"})
    BY <1>7 DEF ReplyUpdate
  <2>2. A' = A + 1 /\ UNCHANGED <<M, R, C, B>>
    BY <1>0, <2>1, Counted
  <2> QED BY <1>0, <2>1, <2>2 DEF Accounts
<1>8. CASE ReplyCommit
  <2>1. /\ phase = "next" /\ todo = <<>> /\ phase' = "recv"
        /\ DOMAIN open_batches' = DOMAIN open_batches \ {committing}
        /\ Count({"batches_committed"})
    BY <1>8 DEF ReplyCommit, Without
  <2>2. C' = C + 1 /\ UNCHANGED <<M, A, R, B>>
    BY <1>0, <2>1, Counted
  <2>3. committing \in DOMAIN open_batches
    BY <2>1 DEF Accounts
  <2>4. IsFiniteSet(DOMAIN open_batches') /\ N' = N - 1
    BY <1>0, <2>1, <2>3, FS_RemoveElement
  <2>5. M = A + R + 2 * (C + B) + N + 1
    BY <2>1 DEF Accounts
  <2> HIDE DEF M, A, R, C, B, N
  <2>6. M' = A' + R' + 2 * (C' + B') + N' + (IF phase' = "recv" THEN 0 ELSE 1)
    BY <1>0, <2>1, <2>2, <2>4, <2>5
  <2>7. phase' # "next" /\ phase' # "reply" /\ ~(phase' # "recv")
    BY <2>1
  <2> QED BY <2>4, <2>6, <2>7 DEF Accounts, M, A, R, C, B, N
<1>9. CASE BeginOp
  <2>1. /\ phase = "next" /\ phase' = "write"
        /\ UNCHANGED <<committing, open_batches, counters>>
    BY <1>9 DEF BeginOp
  <2> QED BY <2>1 DEF Accounts
<1>10. CASE BumpSeqno
  <2>1. /\ phase = "write" /\ phase' = IF committing = NoBatch THEN "reply" ELSE "next"
        /\ UNCHANGED <<committing, open_batches, counters>>
    BY <1>10 DEF BumpSeqno
  <2> QED BY <2>1 DEF Accounts
<1>11. CASE UNCHANGED <<phase, todo, committing, open_batches, counters>>
  BY <1>11 DEF Accounts
<1>12. CASE Write
  BY <1>11, <1>12 DEF Write, WriteData, WriteForce, WritePending, WriteTakeEffect, Wrote
<1>13. CASE (\E l \in Link : Serve(l)) \/ UNCHANGED vars
  BY <1>11, <1>13 DEF Serve, StoreSlot, DrainSlot, LoadSeqno, CheckGate, CopyField,
                      FinishSnap, Run, Serving, vars, controlVars
<1> QED BY <1>1, <1>2, <1>3, <1>4, <1>5, <1>6, <1>7, <1>8, <1>9, <1>10, <1>12, <1>13,
           NextCases DEF Request, Reply

\* Whenever the server has answered, every request it received shows up in its
\* counters exactly once, whatever the client sends.
THEOREM BooksBalance == Spec => []Accounted
<1>1. Init => TypeOK /\ Busy /\ Accounts
  BY InitType, InitAccounts DEF Init, Busy
<1>2. TypeOK /\ Busy /\ Accounts /\ [Next]_vars => (TypeOK /\ Busy /\ Accounts)'
  BY NextType, NextBusy, NextAccounts
<1>3. TypeOK /\ Accounts => Accounted
  <2> SUFFICES ASSUME TypeOK, Accounts, phase = "recv"
               PROVE  counters["msgs_received"] =
                        counters["updates_applied"] + counters["updates_rejected"]
                          + 2 * (counters["batches_committed"]
                                   + counters["batches_aborted"])
                          + Cardinality(DOMAIN open_batches)
    BY DEF Accounted
  <2>1. Cardinality(DOMAIN open_batches) \in Nat
    BY FS_CardinalityType DEF Accounts
  <2> QED BY <2>1 DEF Accounts, TypeOK, Counter
<1> QED BY <1>1, <1>2, <1>3, PTL DEF Spec

-----------------------------------------------------------------------------
(***************************************************************************)
(* The hand-over: what holds of a link whatever the client does.           *)
(***************************************************************************)
BeingWritten(l) == phase = "write" /\ Target = l

\* What a serving thread has published, live and seen, in this order; a snap is
\* under way only if there is something to snap; the current_slot in memory is
\* the slot being served, or the one before it while the store is buffered.
ServerOrder(l) ==
  /\ telemetry[l] <= live_seqno[l] /\ live_seqno[l] <= observed[l]
  /\ step[l] \in {"gate", "copy"} => live_seqno[l] < observed[l]
  /\ step[l] = "profile" => telemetry[l] < live_seqno[l] /\ live_seqno[l] = observed[l]
  /\ slot_buffer[l] \subseteq {next_slot[l]}
  /\ slot_buffer[l] # {} => step[l] # "idle"
  /\ slot_buffer[l] = {} /\ step[l] # "idle" => current_slot[l] = next_slot[l]
  /\ next_slot[l] <= current_slot[l] + 1

\* The request in progress is the last entry of its link's log, and a batch's
\* number marks the entries of the commit in progress only.
RequestInv ==
  /\ phase \in {"write", "reply"} =>
       Len(log[Target]) > 0 /\ log[Target][Len(log[Target])].gate = gate
  /\ phase = "reply" => committing = NoBatch
  /\ \A l \in Link : \A s \in 1..Len(log[l]) :
       /\ log[l][s].batch <= counters["batches_committed"] + 1
       /\ log[l][s].batch = counters["batches_committed"] + 1
            => phase # "recv" /\ committing # NoBatch /\ log[l][s].gate = gate

\* The shared gate is that of the last update, once written.
LatestGate(l) ==
  Len(log[l]) > 0 /\ ~(BeingWritten(l) /\ "take_effect_at_slot" \in writes) =>
    take_effect_at_slot[l] = log[l][Len(log[l])].gate

\* Values only get newer on their way to the serving thread.
ValueOrder(l) ==
  \A f \in Data : live[l][f] <= shadow[l][f] /\ shadow[l][f] <= Len(log[l])

\* Between updates the shared tap count and taps are of one profile.
WholeShadow(l) ==
  IF BeingWritten(l) /\ IsSwap(Head(todo))
  THEN \A f \in ProfileField \ writes : shadow[l][f] = Len(log[l])
  ELSE /\ BeingWritten(l) => ProfileField \cap writes = {}
       /\ shadow[l]["n_taps"] = shadow[l]["taps"]

\* A promise is not below its update's gate, and a serve that began before the
\* update was published is at most one slot past the slot the reply looked at.
PromiseInv(l) ==
  \A p \in promised[l] :
    /\ p[1] \in 1..seqno[l]
    /\ log[l][p[1]].gate <= p[2]
    /\ p[1] > observed[l] /\ step[l] \notin {"idle", "load"} =>
         next_slot[l] <= p[2] + 1

serverSide == <<copyVars, telemetry, slotVars, next_slot>>
shared == <<phase, todo, gate, writes, committing, counters, shadow, profile_pending,
            take_effect_at_slot, seqno, log, promised>>

\* The control thread leaves the serving threads alone.
LEMMA ControlKeeps ==
  ASSUME Request \/ Reply \/ BeginOp \/ Write \/ BumpSeqno \/ UNCHANGED vars
  PROVE  UNCHANGED serverSide
<1> USE DEF serverSide, copyVars, slotVars, liveVars, serveVars
<1>1. CASE Request
  BY <1>1 DEF Request, HandleUpdate, HandleStagedUpdate, HandleBatchBegin,
              HandleBatchCommit, HandleBatchAbort, Reject, Outside
<1>2. CASE Reply \/ BeginOp \/ BumpSeqno \/ UNCHANGED vars
  BY <1>2 DEF Reply, ReplyUpdate, ReplyCommit, BeginOp, BumpSeqno, vars
<1>3. CASE Write
  BY <1>3 DEF Write, WriteData, WriteForce, WritePending, WriteTakeEffect, Wrote
<1> QED BY <1>1, <1>2, <1>3

\* A serving thread leaves the control thread and the other links alone.
LEMMA ServeKeeps ==
  ASSUME TypeOK, NEW k \in Link, Serve(k)
  PROVE  /\ UNCHANGED shared
         /\ \A l \in Link \ {k} :
              /\ SameLink(l)
              /\ telemetry'[l] = telemetry[l] /\ current_slot'[l] = current_slot[l]
              /\ slot_buffer'[l] = slot_buffer[l] /\ next_slot'[l] = next_slot[l]
<1>1. UNCHANGED shared
  BY DEF shared, Serve, StoreSlot, DrainSlot, LoadSeqno, CheckGate, CopyField,
         FinishSnap, Run, Serving, controlVars, sharedVars, historyVars
<1>2. \A l \in Link \ {k} : SameLink(l)
  BY ServeOther
<1>3. ASSUME NEW l \in Link \ {k}
      PROVE  /\ telemetry'[l] = telemetry[l] /\ current_slot'[l] = current_slot[l]
             /\ slot_buffer'[l] = slot_buffer[l] /\ next_slot'[l] = next_slot[l]
  <2>1. CASE StoreSlot(k) \/ DrainSlot(k)
    BY <2>1 DEF StoreSlot, DrainSlot, serveVars, TypeOK
  <2>2. CASE \E n \in ServeSizes : Run(k, n)
    BY <2>2 DEF Run, slotVars, TypeOK
  <2> QED BY <2>1, <2>2
          DEF Serve, LoadSeqno, CheckGate, CopyField, FinishSnap, slotVars, serveVars
<1> QED BY <1>1, <1>2, <1>3

\* A request leaves what is shared alone; it may be the next to be applied.
LEMMA RequestKeeps ==
  ASSUME TypeOK, Request
  PROVE  /\ phase = "recv" /\ phase' \in {"recv", "next"}
         /\ UNCHANGED <<writes, shadow, take_effect_at_slot, seqno, log, promised>>
         /\ counters'["batches_committed"] = counters["batches_committed"]
<1>1. phase = "recv" /\ phase' \in {"recv", "next"}
  BY DEF Request, HandleUpdate, HandleStagedUpdate, HandleBatchBegin, HandleBatchCommit,
         HandleBatchAbort, Reject, Receive, Apply, Stage
<1>2. UNCHANGED <<writes, shadow, take_effect_at_slot, seqno, log, promised>>
  BY DEF Request, HandleUpdate, HandleStagedUpdate, HandleBatchBegin, HandleBatchCommit,
         HandleBatchAbort, Reject, Apply, Stage, Outside, sharedVars, historyVars
<1>3. \E cs : Count(cs) /\ "batches_committed" \notin cs
  <2>1. CASE Count({"msgs_received"})
    BY <2>1
  <2>2. CASE Count({"msgs_received", "updates_applied"})
    BY <2>2
  <2>3. CASE Count({"msgs_received", "updates_rejected"})
    BY <2>3
  <2>4. CASE Count({"msgs_received", "batches_aborted"})
    BY <2>4
  <2> QED BY <2>1, <2>2, <2>3, <2>4
          DEF Request, HandleUpdate, HandleStagedUpdate, HandleBatchBegin,
              HandleBatchCommit, HandleBatchAbort, Reject, Stage
<1>4. counters \in [Counter -> Nat] /\ "batches_committed" \in Counter
  BY DEF TypeOK, Counter
<1> QED BY <1>1, <1>2, <1>3, <1>4, Counted

\* The order of the serving threads is inductive on its own.
LEMMA NextOrder ==
  ASSUME TypeOK, ControlInv, [Next]_vars, NEW l \in Link, ServerOrder(l)
  PROVE  ServerOrder(l)'
<1>1. CASE UNCHANGED serverSide
  BY <1>1 DEF ServerOrder, serverSide, copyVars, slotVars
<1>2. ASSUME NEW k \in Link \ {l}, Serve(k)
      PROVE  ServerOrder(l)'
  BY <1>2, ServeKeeps DEF ServerOrder, SameLink
<1>3. CASE Serve(l)
  <2> USE DEF TypeOK, Goto, slotVars, liveVars, serveVars
  <2>1. CASE StoreSlot(l)
    BY <2>1 DEF StoreSlot, ServerOrder
  <2>7. CASE DrainSlot(l)
    <3>1. slot_buffer[l] = {next_slot[l]} /\ current_slot'[l] = next_slot[l]
      BY <2>7 DEF DrainSlot, ServerOrder
    <3> QED BY <2>7, <3>1 DEF DrainSlot, ServerOrder
  <2>2. CASE LoadSeqno(l)
    BY <2>2 DEF LoadSeqno, ServerOrder, ControlInv
  <2>3. CASE CheckGate(l)
    BY <2>3 DEF CheckGate, ServerOrder
  <2>4. CASE \E f \in Data : CopyField(l, f)
    BY <2>4 DEF CopyField, ServerOrder
  <2>5. CASE FinishSnap(l)
    BY <2>5 DEF FinishSnap, Observed, ServerOrder
  <2>6. CASE \E n \in ServeSizes : Run(l, n)
    BY <2>6 DEF Run, SnapDone, JustActivated, ServerOrder
  <2> QED BY <1>3, <2>1, <2>2, <2>3, <2>4, <2>5, <2>6, <2>7 DEF Serve
<1> QED BY <1>1, <1>2, <1>3, NextCases, ControlKeeps

\* Priming what is said of the request in progress.
LEMMA SameTarget ==
  ASSUME UNCHANGED <<phase, todo>>
  PROVE  Target' = Target /\ \A l \in Link : BeingWritten(l)' = BeingWritten(l)
BY DEF Target, BeingWritten

\* The types of an entry of the log.
LEMMA LogEntry ==
  ASSUME TypeOK, NEW l \in Link, NEW s \in 1..Len(log[l])
  PROVE  log[l][s].gate \in Nat /\ log[l][s].batch \in Nat
<1> DEFINE Entry == [fields : OpFields, gate : Nat, batch : Nat]
<1>1. log \in [Link -> Seq(Entry)]
  BY DEF TypeOK, OpFields
<1>2. \A e \in Entry : e.gate \in Nat /\ e.batch \in Nat
  OBVIOUS
<1> HIDE DEF Entry
<1>3. log[l][s] \in Entry
  BY <1>1
<1> QED BY <1>2, <1>3

LEMMA NextRequest ==
  ASSUME TypeOK, Busy, ControlInv, RequestInv, [Next]_vars
  PROVE  RequestInv'
<1>0. counters["batches_committed"] \in Nat /\ \A l \in Link : Len(log[l]) \in Nat
  BY DEF TypeOK, Counter
<1> DEFINE C == counters["batches_committed"]
<1>1. CASE Request
  <2>1. /\ phase = "recv" /\ phase' \in {"recv", "next"}
        /\ UNCHANGED log /\ C' = C
    BY <1>1, RequestKeeps
  <2>2. \A l \in Link : \A s \in 1..Len(log[l]) :
          log[l][s].batch <= C + 1 /\ log[l][s].batch # C + 1
    BY <2>1 DEF RequestInv
  <2> QED BY <2>1, <2>2, Zenon DEF RequestInv
<1>2. CASE ReplyUpdate
  <2>1. phase = "reply" /\ phase' = "recv" /\ UNCHANGED log /\ C' = C
    <3>1. Count({"updates_applied"}) /\ phase = "reply" /\ phase' = "recv" /\ UNCHANGED log
      BY <1>2 DEF ReplyUpdate
    <3>2. counters \in [Counter -> Nat] /\ "batches_committed" \in Counter
      BY DEF TypeOK, Counter
    <3> QED BY <3>1, <3>2, Counted
  <2>2. \A l \in Link : \A s \in 1..Len(log[l]) :
          log[l][s].batch <= C + 1 /\ log[l][s].batch # C + 1
    BY <2>1 DEF RequestInv
  <2> QED BY <2>1, <2>2, Zenon DEF RequestInv
<1>3. CASE ReplyCommit
  <2>1. phase' = "recv" /\ UNCHANGED log /\ C' = C + 1
    <3>1. Count({"batches_committed"}) /\ phase' = "recv" /\ UNCHANGED log
      BY <1>3 DEF ReplyCommit
    <3>2. counters \in [Counter -> Nat] /\ "batches_committed" \in Counter
      BY DEF TypeOK, Counter
    <3> QED BY <3>1, <3>2, Counted
  <2>2. \A l \in Link : \A s \in 1..Len(log[l]) : log[l][s].batch \in Nat
    BY LogEntry
  <2>3. \A l \in Link : \A s \in 1..Len(log[l]) :
          log[l][s].batch <= (C + 1) + 1 /\ log[l][s].batch # (C + 1) + 1
    BY <1>0, <2>2 DEF RequestInv
  <2> QED BY <2>1, <2>3, Zenon DEF RequestInv
<1>4. CASE BeginOp
  <2>1. /\ phase = "next" /\ phase' = "write"
        /\ UNCHANGED <<todo, gate, committing, counters>>
    BY <1>4 DEF BeginOp
  <2>2. /\ Target \in Link /\ Target' = Target
        /\ Len(log'[Target]) = Len(log[Target]) + 1
        /\ log'[Target][Len(log[Target]) + 1].gate = gate
        /\ log'[Target][Len(log[Target]) + 1].batch =
             IF committing = NoBatch THEN 0 ELSE C + 1
    BY <1>4, <2>1, BeginOpLog DEF Target
  <2>3. ASSUME NEW l \in Link, NEW s \in 1..Len(log'[l])
        PROVE  /\ log'[l][s].batch <= C + 1
               /\ log'[l][s].batch = C + 1
                    => committing # NoBatch /\ log'[l][s].gate = gate
    <3>1. CASE s \in 1..Len(log[l])
      <4>1. log'[l][s] = log[l][s]
        BY <1>4, <3>1, BeginOpLog
      <4> QED BY <3>1, <4>1 DEF RequestInv
    <3>2. CASE s \notin 1..Len(log[l])
      <4>1. l = Target /\ s = Len(log[l]) + 1
        BY SMTT(30), <1>0, <1>4, <3>2, BeginOpLog
      <4> QED BY <1>0, <2>2, <4>1
    <3> QED BY <3>1, <3>2
  <2>4. Len(log'[Target']) > 0 /\ log'[Target'][Len(log'[Target'])].gate = gate'
    BY <1>0, <2>1, <2>2
  <2> QED BY <2>1, <2>3, <2>4, Zenon DEF RequestInv
<1>5. CASE Write
  <2>1. UNCHANGED <<phase, todo, gate, committing, counters, log>>
    BY <1>5 DEF Write, WriteData, WriteForce, WritePending, WriteTakeEffect, Wrote,
                historyVars
  <2> QED BY <2>1, SameTarget DEF RequestInv
<1>6. CASE BumpSeqno
  <2>1. /\ phase = "write" /\ UNCHANGED <<gate, committing, counters, log>>
        /\ \/ committing = NoBatch /\ phase' = "reply" /\ todo' = todo
           \/ committing # NoBatch /\ phase' = "next"
    BY <1>6 DEF BumpSeqno, historyVars
  <2>2. phase' = "reply" => Target' = Target
    BY <2>1 DEF Target
  <2> QED BY <2>1, <2>2 DEF RequestInv
<1>7. CASE (\E l \in Link : Serve(l)) \/ UNCHANGED vars
  <2>1. UNCHANGED <<phase, todo, gate, committing, counters, log>>
    BY <1>7, ServeKeeps DEF shared, vars, controlVars, historyVars
  <2> QED BY <2>1, SameTarget DEF RequestInv
<1> QED BY <1>1, <1>2, <1>3, <1>4, <1>5, <1>6, <1>7, NextCases DEF Reply

LEMMA NextLatest ==
  ASSUME TypeOK, Busy, RequestInv, [Next]_vars, NEW l \in Link, LatestGate(l)
  PROVE  LatestGate(l)'
<1>1. CASE Request
  <2>1. /\ phase = "recv" /\ phase' # "write" /\ UNCHANGED <<take_effect_at_slot, log>>
    BY <1>1, RequestKeeps
  <2> QED BY <2>1 DEF LatestGate, BeingWritten
<1>2. CASE Reply
  <2>1. /\ phase # "write" /\ phase' # "write" /\ UNCHANGED <<take_effect_at_slot, log>>
    BY <1>2 DEF Reply, ReplyUpdate, ReplyCommit, sharedVars
  <2> QED BY <2>1 DEF LatestGate, BeingWritten
<1>3. CASE BeginOp
  <2>1. /\ phase = "next" /\ phase' = "write" /\ "take_effect_at_slot" \in writes'
        /\ UNCHANGED <<todo, take_effect_at_slot>>
    BY <1>3 DEF BeginOp, sharedVars
  <2>2. CASE l = Target
    BY <2>1, <2>2 DEF LatestGate, BeingWritten, Target
  <2>3. CASE l # Target
    <3>1. log'[l] = log[l]
      BY <1>3, <2>3, BeginOpLog DEF TypeOK, BeginOp
    <3> QED BY <2>1, <2>3, <3>1 DEF LatestGate, BeingWritten, Target
  <2> QED BY <2>2, <2>3
<1>4. CASE WriteTakeEffect
  <2>1. /\ phase = "write" /\ UNCHANGED <<phase, todo, log>>
        /\ take_effect_at_slot' = [take_effect_at_slot EXCEPT ![Target] = gate]
        /\ writes' \subseteq writes
    BY <1>4 DEF WriteTakeEffect, Wrote, historyVars
  <2>2. Target \in Link /\ DOMAIN take_effect_at_slot = Link
    BY <2>1, TargetIsLink DEF Busy, TypeOK
  <2>3. CASE l = Target
    BY <2>1, <2>2, <2>3 DEF LatestGate, RequestInv
  <2>4. CASE l # Target
    BY <2>1, <2>2, <2>4, SameTarget DEF LatestGate, BeingWritten
  <2> QED BY <2>3, <2>4
<1>5. ASSUME NEW f \in Data \cup {"force", "profile_pending"}, Wrote(f),
             UNCHANGED take_effect_at_slot
      PROVE  LatestGate(l)'
  <2>1. writes' = writes \ {f} /\ UNCHANGED <<phase, todo, log>>
    BY <1>5, WriteFrame
  <2>2. f # "take_effect_at_slot"
    BY DistinctFields
  <2> QED BY <1>5, <2>1, <2>2, SameTarget DEF LatestGate
<1>6. CASE BumpSeqno
  <2>1. writes = {} /\ UNCHANGED <<take_effect_at_slot, log>>
    BY <1>6 DEF BumpSeqno, sharedVars, historyVars
  <2> QED BY <2>1 DEF LatestGate
<1>7. CASE (\E k \in Link : Serve(k)) \/ UNCHANGED vars
  <2>1. UNCHANGED <<phase, todo, writes, take_effect_at_slot, log>>
    BY <1>7, ServeKeeps DEF shared, vars, controlVars, sharedVars, historyVars
  <2> QED BY <2>1, SameTarget DEF LatestGate
<1> QED BY <1>1, <1>2, <1>3, <1>4, <1>5, <1>6, <1>7, NextCases
        DEF Write, WriteData, WriteForce, WritePending

LEMMA NextValue ==
  ASSUME TypeOK, Busy, [Next]_vars, NEW l \in Link, ValueOrder(l)
  PROVE  ValueOrder(l)'
<1>0. /\ \A f \in Data : live[l][f] \in Nat /\ shadow[l][f] \in Nat
      /\ Len(log[l]) \in Nat
  BY DEF TypeOK
<1>1. CASE Request \/ Reply \/ BumpSeqno \/ UNCHANGED vars
  <2>1. UNCHANGED <<live, shadow, log>>
    BY <1>1, RequestFrame DEF BumpSeqno, vars, copyVars, liveVars, sharedVars, historyVars
  <2> QED BY <2>1 DEF ValueOrder
<1>2. CASE BeginOp
  <2>1. UNCHANGED <<live, shadow>>
    BY <1>2 DEF BeginOp, liveVars, sharedVars
  <2>2. Len(log'[l]) \in Nat /\ Len(log'[l]) >= Len(log[l])
    BY <1>0, <1>2, BeginOpLog
  <2> QED BY <1>0, <2>1, <2>2 DEF ValueOrder
<1>3. ASSUME NEW f \in Data, WriteData(f)
      PROVE  ValueOrder(l)'
  <2>1. /\ phase = "write" /\ UNCHANGED <<log, live>>
        /\ shadow' = [shadow EXCEPT ![Target][f] = Len(log[Target])]
    BY <1>3, WriteFrame DEF WriteData, copyVars
  <2>2. Target \in Link /\ shadow \in [Link -> [Data -> Nat]]
    BY <2>1, TargetIsLink DEF Busy, TypeOK
  <2>3. \A g \in Data : shadow'[l][g] = IF l = Target /\ g = f THEN Len(log[l]) ELSE shadow[l][g]
    BY <2>1, <2>2
  <2> QED BY <1>0, <2>1, <2>3 DEF ValueOrder
<1>4. CASE WriteForce \/ WritePending \/ WriteTakeEffect
  <2>1. UNCHANGED <<live, shadow, log>>
    BY <1>4, WriteFrame DEF WriteForce, WritePending, WriteTakeEffect, copyVars
  <2> QED BY <2>1 DEF ValueOrder
<1>5. ASSUME NEW k \in Link, Serve(k)
      PROVE  ValueOrder(l)'
  <2>1. UNCHANGED <<shadow, log>>
    BY <1>5, ServeFrame
  <2>2. CASE \E f \in Data : CopyField(k, f)
    <3>1. PICK f \in Data : live' = [live EXCEPT ![k][f] = shadow[k][f]]
      BY <2>2 DEF CopyField
    <3>2. live \in [Link -> [Data -> Nat]]
      BY DEF TypeOK
    <3>3. \A g \in Data : live'[l][g] = IF l = k /\ g = f THEN shadow[l][g] ELSE live[l][g]
      BY <3>1, <3>2
    <3> QED BY <1>0, <2>1, <3>3 DEF ValueOrder
  <2>3. CASE UNCHANGED live
    BY <2>1, <2>3 DEF ValueOrder
  <2> QED BY <1>5, <2>2, <2>3
          DEF Serve, StoreSlot, DrainSlot, LoadSeqno, CheckGate, FinishSnap, Run, liveVars
<1> QED BY <1>1, <1>2, <1>3, <1>4, <1>5, NextCases DEF Write

\* A scalar update writes no part of a profile.
LEMMA ScalarShape ==
  ASSUME NEW op \in Ops, ~IsSwap(op)
  PROVE  ProfileField \cap op.fields = {}
<1>1. ASSUME NEW l \in Link, NEW forced \in Forces, op = ProfileSwap(l, forced)
      PROVE  FALSE
  BY <1>1 DEF ProfileSwap, IsSwap
<1>2. PICK l \in Link, p \in Param : op = Scalar(l, p)
  BY <1>1 DEF Ops
<1>3. op.fields = {p} /\ p \notin ProfileField
  BY <1>2, DistinctFields DEF Scalar
<1> QED BY <1>3

LEMMA NextWhole ==
  ASSUME TypeOK, Busy, [Next]_vars, NEW l \in Link, WholeShadow(l)
  PROVE  WholeShadow(l)'
<1>0. /\ shadow \in [Link -> [Data -> Nat]] /\ ProfileField = {"n_taps", "taps"}
      /\ ProfileField \subseteq Data
  BY DEF TypeOK, ProfileField, Data
<1>1. CASE Request \/ Reply
  <2>1. phase # "write" /\ phase' # "write" /\ UNCHANGED shadow
    BY <1>1, RequestFrame
  <2> QED BY <2>1 DEF WholeShadow, BeingWritten
<1>2. CASE BeginOp
  <2>1. /\ phase = "next" /\ phase' = "write" /\ UNCHANGED <<todo, shadow>>
        /\ writes' = Head(todo).fields \cup {"take_effect_at_slot"}
        /\ Head(todo) \in Ops
    BY <1>2, TargetIsLink DEF BeginOp, sharedVars
  <2>2. shadow[l]["n_taps"] = shadow[l]["taps"]
    BY <2>1 DEF WholeShadow, BeingWritten
  <2>3. IsSwap(Head(todo)) => ProfileField \subseteq writes'
    BY <2>1, OpShape
  <2>4. ~IsSwap(Head(todo)) => ProfileField \cap writes' = {}
    BY <1>0, <2>1, ScalarShape
  <2> QED BY <2>1, <2>2, <2>3, <2>4 DEF WholeShadow, IsSwap
<1>3. ASSUME NEW f \in Data, WriteData(f)
      PROVE  WholeShadow(l)'
  <2>1. /\ phase = "write" /\ f \in writes /\ writes' = writes \ {f}
        /\ UNCHANGED <<phase, todo, log>>
        /\ shadow' = [shadow EXCEPT ![Target][f] = Len(log[Target])]
    BY <1>3, WriteFrame DEF WriteData
  <2>2. Target \in Link
    BY <2>1, TargetIsLink DEF Busy
  <2>3. \A g \in Data : shadow'[l][g] = IF l = Target /\ g = f THEN Len(log[l]) ELSE shadow[l][g]
    BY <1>0, <2>1, <2>2
  <2>4. BeingWritten(l)' = BeingWritten(l) /\ (BeingWritten(l) <=> l = Target)
    BY <2>1, SameTarget DEF BeingWritten
  <2>5. CASE BeingWritten(l) /\ IsSwap(Head(todo))
    <3>1. \A g \in ProfileField \ writes' : shadow'[l][g] = Len(log'[l])
      BY <1>0, <2>1, <2>3, <2>4, <2>5 DEF WholeShadow
    <3> QED BY <2>1, <2>4, <2>5, <3>1 DEF WholeShadow, IsSwap
  <2>6. CASE BeingWritten(l) /\ ~IsSwap(Head(todo))
    <3>1. ProfileField \cap writes = {} /\ shadow[l]["n_taps"] = shadow[l]["taps"]
      BY <2>6 DEF WholeShadow
    <3>2. ProfileField \cap writes' = {} /\ shadow'[l]["n_taps"] = shadow'[l]["taps"]
      BY <1>0, <2>1, <2>3, <3>1
    <3> QED BY <2>1, <2>4, <2>6, <3>2 DEF WholeShadow, IsSwap
  <2>7. CASE ~BeingWritten(l)
    <3>1. shadow'[l]["n_taps"] = shadow'[l]["taps"]
      BY <1>0, <2>3, <2>4, <2>7 DEF WholeShadow
    <3> QED BY <2>4, <2>7, <3>1 DEF WholeShadow
  <2> QED BY <2>5, <2>6, <2>7
<1>4. CASE WriteForce \/ WritePending \/ WriteTakeEffect
  <2>1. PICK f \in {"force", "profile_pending", "take_effect_at_slot"} :
          /\ writes' = writes \ {f}
          /\ UNCHANGED <<phase, todo, log, shadow>>
    BY <1>4, WriteFrame DEF WriteForce, WritePending, WriteTakeEffect
  <2>2. f \notin ProfileField
    BY <1>0, DistinctFields
  <2>3. BeingWritten(l)' = BeingWritten(l)
    BY <2>1, SameTarget
  <2> QED BY <2>1, <2>2, <2>3 DEF WholeShadow, IsSwap
<1>5. CASE BumpSeqno
  <2>1. phase = "write" /\ phase' # "write" /\ writes = {} /\ UNCHANGED <<log, shadow>>
    BY <1>5 DEF BumpSeqno, sharedVars, historyVars
  <2>2. shadow[l]["n_taps"] = shadow[l]["taps"]
    BY <1>0, <2>1 DEF WholeShadow
  <2> QED BY <2>1, <2>2 DEF WholeShadow, BeingWritten
<1>6. CASE (\E k \in Link : Serve(k)) \/ UNCHANGED vars
  <2>1. UNCHANGED <<phase, todo, writes, shadow, log>>
    BY <1>6, ServeFrame DEF vars, controlVars, sharedVars, historyVars
  <2> QED BY <2>1, SameTarget DEF WholeShadow, IsSwap
<1> QED BY <1>1, <1>2, <1>3, <1>4, <1>5, <1>6, NextCases DEF Write

\* A reply's promise, at the moment it is made.
LEMMA NewPromise ==
  ASSUME TypeOK, Busy, ControlInv, RequestInv, NEW l \in Link, ServerOrder(l), Reply,
         NEW p \in promised'[l] \ promised[l]
  PROVE  /\ p[1] \in 1..seqno[l]
         /\ log[l][p[1]].gate <= p[2]
         /\ next_slot[l] <= p[2] + 1
<1>0. /\ seqno[l] \in Nat /\ current_slot[l] \in Nat /\ next_slot[l] \in Nat
      /\ gate \in Nat /\ Len(log[l]) \in Nat /\ DOMAIN promised = Link
  BY DEF TypeOK
<1>1. Len(log[l]) = seqno[l] /\ next_slot[l] <= current_slot[l] + 1
  BY DEF Reply, ReplyUpdate, ReplyCommit, ControlInv, ServerOrder
<1>2. CASE ReplyUpdate
  <2>1. /\ phase = "reply"
        /\ promised' = [promised EXCEPT
              ![Target] = promised[Target] \cup {<<seqno[Target], AppliedAtSlot>>}]
    BY <1>2 DEF ReplyUpdate
  <2>2. l = Target /\ p = <<seqno[l], AppliedAtSlot>>
    BY <1>0, <2>1
  <2>3. p[1] = seqno[l] /\ p[2] \in Nat /\ p[2] >= gate /\ p[2] >= current_slot[l]
    BY <1>0, <2>2 DEF AppliedAtSlot
  <2>4. Len(log[l]) > 0 /\ log[l][Len(log[l])].gate = gate
    BY <2>1, <2>2 DEF RequestInv
  <2>5. log[l][p[1]].gate <= p[2]
    BY <1>0, <1>1, <2>3, <2>4
  <2> QED BY <1>0, <1>1, <2>3, <2>4, <2>5
<1>3. CASE ReplyCommit
  <2>1. promised' = [k \in Link |->
          IF gate > current_slot[k]
          THEN promised[k] \cup {<<s, gate>> : s \in Committed(k)} ELSE promised[k]]
    BY <1>3 DEF ReplyCommit
  <2>2. gate > current_slot[l] /\ \E s \in Committed(l) : p = <<s, gate>>
    BY <2>1
  <2>3. PICK s \in Committed(l) : p = <<s, gate>>
    BY <2>2
  <2>4. /\ s \in 1..Len(log[l]) /\ log[l][s].gate = gate
        /\ p[1] = s /\ p[2] = gate
    BY <2>3 DEF Committed, RequestInv
  <2> QED BY <1>0, <1>1, <2>2, <2>4
<1> QED BY <1>2, <1>3 DEF Reply

LEMMA NextPromise ==
  ASSUME TypeOK, Busy, ControlInv, RequestInv, [Next]_vars,
         NEW l \in Link, ServerOrder(l), Copied(l), PromiseInv(l)
  PROVE  PromiseInv(l)'
<1>0. /\ seqno[l] \in Nat /\ Len(log[l]) \in Nat /\ seqno[l] <= Len(log[l])
      /\ DOMAIN step = Link /\ DOMAIN observed = Link
  <2>1. seqno \in [Link -> Nat] /\ Len(log[l]) \in Nat /\ DOMAIN step = Link
        /\ DOMAIN observed = Link
    BY DEF TypeOK
  <2>2. Len(log[l]) = seqno[l] + 1 \/ Len(log[l]) = seqno[l]
    BY DEF ControlInv
  <2> QED BY <2>1, <2>2
<1>1. ASSUME UNCHANGED <<promised, seqno, serverSide>>,
             \A s \in 1..Len(log[l]) : log'[l][s] = log[l][s]
      PROVE  PromiseInv(l)'
  <2>1. \A s \in 1..seqno[l] : log'[l][s] = log[l][s]
    BY <1>0, <1>1
  <2> QED BY <1>1, <2>1 DEF PromiseInv, serverSide, copyVars
<1>2. CASE Request \/ Write \/ UNCHANGED vars
  <2>1. UNCHANGED <<promised, seqno, log>>
    BY <1>2, RequestKeeps, WriteFrame
    DEF Write, WriteData, WriteForce, WritePending, WriteTakeEffect, Wrote, vars,
        historyVars
  <2> QED BY <1>1, <1>2, <2>1, ControlKeeps
<1>3. CASE Reply
  <2>1. UNCHANGED <<seqno, log>> /\ UNCHANGED serverSide
    BY <1>3, RequestFrame, ControlKeeps
  <2>2. ASSUME NEW p \in promised'[l]
        PROVE  /\ p[1] \in 1..seqno[l]
               /\ log[l][p[1]].gate <= p[2]
               /\ p[1] > observed[l] /\ step[l] \notin {"idle", "load"} =>
                    next_slot[l] <= p[2] + 1
    <3>1. CASE p \in promised[l]
      BY <3>1 DEF PromiseInv
    <3>2. CASE p \notin promised[l]
      BY <1>3, <3>2, NewPromise
    <3> QED BY <3>1, <3>2
  <2> QED BY <2>1, <2>2 DEF PromiseInv, serverSide, copyVars
<1>4. CASE BeginOp
  <2>1. UNCHANGED <<promised, seqno>> /\ UNCHANGED serverSide
    BY <1>4, ControlKeeps DEF BeginOp
  <2> QED BY <1>1, <1>4, <2>1, BeginOpLog
<1>5. CASE BumpSeqno
  <2>1. /\ UNCHANGED <<promised, log>> /\ UNCHANGED serverSide
        /\ seqno' = [seqno EXCEPT ![Target] = seqno[Target] + 1]
    BY <1>5, ControlKeeps DEF BumpSeqno, historyVars
  <2>2. seqno'[l] \in Nat /\ seqno'[l] >= seqno[l]
    BY <1>0, <2>1 DEF TypeOK
  <2> QED BY <1>0, <2>1, <2>2 DEF PromiseInv, serverSide, copyVars
<1>6. ASSUME NEW k \in Link \ {l}, Serve(k)
      PROVE  PromiseInv(l)'
  BY <1>6, ServeKeeps DEF PromiseInv, SameLink, shared
<1>7. CASE Serve(l)
  <2>1. UNCHANGED <<promised, log, seqno>>
    BY <1>7, ServeKeeps DEF shared
  <2>2. CASE StoreSlot(l) \/ \E n \in ServeSizes : Run(l, n)
    <3>1. step'[l] \in {"idle", "load"}
      BY <1>0, <2>2 DEF StoreSlot, Run, Goto
    <3> QED BY <2>1, <3>1 DEF PromiseInv
  <2>3. CASE LoadSeqno(l)
    <3>1. observed'[l] = seqno[l]
      BY <1>0, <2>3 DEF LoadSeqno
    <3> QED BY <1>0, <2>1, <3>1 DEF PromiseInv
  <2>5. CASE DrainSlot(l)
    BY <2>1, <2>5 DEF DrainSlot, serveVars, PromiseInv
  <2>4. CASE CheckGate(l) \/ (\E f \in Data : CopyField(l, f)) \/ FinishSnap(l)
    <3>1. UNCHANGED <<observed, next_slot>>
      BY <2>4 DEF CheckGate, CopyField, FinishSnap, serveVars
    <3>2. step[l] \notin {"idle", "load"}
      <4>1. CASE CheckGate(l) \/ FinishSnap(l)
        BY <4>1 DEF CheckGate, FinishSnap
      <4>2. CASE \E f \in Data : CopyField(l, f)
        BY <4>2 DEF CopyField, Copied
      <4> QED BY <2>4, <4>1, <4>2
    <3> QED BY <2>1, <3>1, <3>2 DEF PromiseInv
  <2> QED BY <1>7, <2>2, <2>3, <2>4, <2>5 DEF Serve
<1> QED BY <1>2, <1>3, <1>4, <1>5, <1>6, <1>7, NextCases

HandoverInv ==
  /\ ControlLinkInv /\ RequestInv
  /\ \A l \in Link :
       ServerOrder(l) /\ LatestGate(l) /\ ValueOrder(l) /\ WholeShadow(l) /\ PromiseInv(l)

LEMMA InitHandover == Init => HandoverInv
<1> SUFFICES ASSUME Init PROVE HandoverInv
  OBVIOUS
<1>1. RequestInv
  BY DEF Init, RequestInv
<1>2. ASSUME NEW l \in Link
      PROVE  ServerOrder(l) /\ LatestGate(l) /\ ValueOrder(l) /\ WholeShadow(l) /\ PromiseInv(l)
  BY DEF Init, ServerOrder, LatestGate, ValueOrder, WholeShadow, PromiseInv, BeingWritten,
         ProfileField, Data
<1> QED BY <1>1, <1>2, InitInv DEF HandoverInv

LEMMA NextHandover == HandoverInv /\ [Next]_vars => HandoverInv'
<1> SUFFICES ASSUME HandoverInv, [Next]_vars PROVE HandoverInv'
  OBVIOUS
<1>1. ControlLinkInv' /\ RequestInv'
  BY NextInv, NextRequest DEF HandoverInv, ControlLinkInv
<1>2. \A l \in Link : Copied(l)
  BY CopiedLinks DEF HandoverInv, ControlLinkInv
<1>3. TypeOK /\ Busy /\ ControlInv /\ RequestInv
  BY DEF HandoverInv, ControlLinkInv
<1>4. ASSUME NEW l \in Link
      PROVE  /\ ServerOrder(l)' /\ LatestGate(l)' /\ ValueOrder(l)'
             /\ WholeShadow(l)' /\ PromiseInv(l)'
  <2>1. ServerOrder(l) /\ LatestGate(l) /\ ValueOrder(l) /\ WholeShadow(l) /\ PromiseInv(l)
    BY DEF HandoverInv
  <2> QED BY <1>2, <1>3, <2>1, NextOrder, NextLatest, NextValue, NextWhole, NextPromise
<1> QED BY <1>1, <1>4 DEF HandoverInv

-----------------------------------------------------------------------------
(***************************************************************************)
(* The closed loop: a link is at most one update ahead of its telemetry.   *)
(***************************************************************************)
Unpublished(l) ==
  phase \in {"next", "write"} /\ \E i \in 1..Len(todo) : todo[i].link = l

OneOfEach == \A i, j \in 1..Len(todo) : todo[i].link = todo[j].link => i = j

OneAhead(l) ==
  /\ Unpublished(l) => telemetry[l] = seqno[l]
  /\ Len(log[l]) <= telemetry[l] + 1

\* What the gate let through, and what of it has been copied.
SnapInv(l) ==
  /\ step[l] = "run" /\ observed[l] # live_seqno[l]
       => next_slot[l] < take_effect_at_slot[l]
  /\ step[l] \in {"copy", "profile"} => take_effect_at_slot[l] <= next_slot[l]
  /\ \A s \in 1..live_seqno[l] : log[l][s].gate <= next_slot[l]
  /\ step[l] = "profile" =>
       \A f \in ProfileField \ to_copy[l] : live[l][f] = shadow[l][f]
  /\ step[l] # "profile" => live[l]["n_taps"] = live[l]["taps"]

ClosedInv == OneOfEach /\ \A l \in Link : OneAhead(l) /\ SnapInv(l)

\* The operation at the head is the first of those to be applied.
LEMMA TargetUnpublished ==
  ASSUME TypeOK, todo # <<>>, phase \in {"next", "write"}
  PROVE  1 \in 1..Len(todo) /\ Target = todo[1].link /\ Unpublished(Target)
<1>1. todo \in Seq(Ops)
  BY DEF TypeOK
<1>2. 1 \in 1..Len(todo) /\ Head(todo) = todo[1]
  BY <1>1
<1> QED BY <1>2 DEF Target, Unpublished

\* While a link is about to be written, its serving thread has nothing to snap.
LEMMA Quiet ==
  ASSUME TypeOK, ControlInv, NEW l \in Link, ServerOrder(l), OneAhead(l), Unpublished(l)
  PROVE  /\ live_seqno[l] = seqno[l] /\ observed[l] = seqno[l]
         /\ step[l] \notin {"gate", "copy", "profile"}
<1>1. /\ telemetry[l] = seqno[l] /\ observed[l] <= seqno[l]
      /\ telemetry[l] \in Nat /\ live_seqno[l] \in Nat /\ observed[l] \in Nat
      /\ seqno[l] \in Nat
  BY DEF OneAhead, ControlInv, TypeOK
<1>2. live_seqno[l] = seqno[l] /\ observed[l] = seqno[l]
  BY <1>1 DEF ServerOrder
<1> QED BY <1>1, <1>2 DEF ServerOrder

LEMMA WrittenQuiet ==
  ASSUME TypeOK, Busy, ControlInv, NEW l \in Link, ServerOrder(l), OneAhead(l),
         BeingWritten(l)
  PROVE  /\ live_seqno[l] = seqno[l] /\ observed[l] = seqno[l]
         /\ step[l] \notin {"gate", "copy", "profile"}
BY TargetUnpublished, Quiet DEF BeingWritten, Busy

\* An update that is not live yet is the last one, and it is fully written.
LEMMA Ahead ==
  ASSUME TypeOK, Busy, ControlInv, NEW l \in Link, ServerOrder(l), OneAhead(l),
         LatestGate(l), ValueOrder(l),
         \/ step[l] \in {"copy", "profile"}
         \/ observed[l] # live_seqno[l]
  PROVE  /\ ~BeingWritten(l)
         /\ Len(log[l]) = seqno[l] /\ Len(log[l]) > 0 /\ observed[l] = Len(log[l])
         /\ telemetry[l] + 1 = Len(log[l])
         /\ take_effect_at_slot[l] = log[l][Len(log[l])].gate
<1>1. ~BeingWritten(l)
  BY WrittenQuiet
<1>2. Len(log[l]) = seqno[l]
  BY <1>1 DEF ControlInv, BeingWritten
<1>3. /\ telemetry[l] \in Nat /\ live_seqno[l] \in Nat /\ observed[l] \in Nat
      /\ seqno[l] \in Nat /\ observed[l] <= seqno[l]
  BY DEF TypeOK, ControlInv
<1>4. telemetry[l] < observed[l]
  BY <1>3 DEF ServerOrder
<1>5. Len(log[l]) > 0 /\ observed[l] = Len(log[l]) /\ telemetry[l] + 1 = Len(log[l])
  BY <1>2, <1>3, <1>4 DEF OneAhead
<1> QED BY <1>1, <1>2, <1>5 DEF LatestGate

LEMMA NextOneOfEach ==
  ASSUME ClosedLoop, TypeOK, Busy, OneOfEach, [Next]_vars
  PROVE  OneOfEach'
<1>1. CASE UNCHANGED todo
  BY <1>1 DEF OneOfEach
<1>2. ASSUME NEW ops, NEW tea, NEW b, Apply(ops, tea, b)
      PROVE  OneOfEach'
  BY <1>2 DEF Apply, Settled, OneOfEach
<1>3. CASE Request
  BY <1>1, <1>2, <1>3
  DEF Request, HandleUpdate, HandleStagedUpdate, HandleBatchBegin, HandleBatchCommit,
      HandleBatchAbort, Reject, Stage
<1>4. CASE ReplyUpdate
  BY <1>4 DEF ReplyUpdate, OneOfEach
<1>5. CASE BumpSeqno
  <2>1. todo # <<>> /\ todo \in Seq(Ops) /\ (todo' = todo \/ todo' = Tail(todo))
    BY <1>5 DEF BumpSeqno, Busy, TypeOK
  <2>2. ASSUME todo' = Tail(todo)
        PROVE  OneOfEach'
    <3>1. /\ Len(Tail(todo)) = Len(todo) - 1 /\ Len(todo) \in Nat
          /\ \A i \in 1..Len(Tail(todo)) : Tail(todo)[i] = todo[i + 1]
      BY <2>1
    <3> QED BY <2>2, <3>1 DEF OneOfEach
  <2> QED BY <1>1, <2>1, <2>2
<1>6. CASE ReplyCommit \/ BeginOp \/ Write \/ (\E l \in Link : Serve(l)) \/ UNCHANGED vars
  BY <1>1, <1>6, ServeFrame
  DEF ReplyCommit, BeginOp, Write, WriteData, WriteForce, WritePending, WriteTakeEffect,
      Wrote, vars, controlVars
<1> QED BY <1>3, <1>4, <1>5, <1>6, NextCases DEF Reply

LEMMA NextAhead ==
  ASSUME ClosedLoop, TypeOK, Busy, ControlInv, OneOfEach, [Next]_vars,
         NEW l \in Link, ServerOrder(l), OneAhead(l)
  PROVE  OneAhead(l)'
<1>0. /\ telemetry[l] \in Nat /\ live_seqno[l] \in Nat /\ seqno[l] \in Nat
      /\ Len(log[l]) \in Nat /\ telemetry \in [Link -> Nat] /\ todo \in Seq(Ops)
  BY DEF TypeOK
<1>1. CASE Request
  <2>1. phase = "recv" /\ UNCHANGED <<seqno, log, telemetry>>
    BY <1>1, RequestKeeps, ControlKeeps DEF serverSide
  <2>2. Len(log[l]) = seqno[l]
    BY <2>1 DEF ControlInv
  <2>3. ASSUME NEW ops, NEW tea, NEW b, Apply(ops, tea, b)
        PROVE  OneAhead(l)'
    <3>1. Unpublished(l)' => telemetry[l] = Len(log[l])
      BY <2>3 DEF Apply, Settled, Unpublished
    <3> QED BY <2>1, <2>2, <3>1 DEF OneAhead
  <2>4. CASE phase' = "recv"
    BY <2>1, <2>4 DEF OneAhead, Unpublished
  <2> QED BY <1>1, <2>1, <2>3, <2>4
          DEF Request, HandleUpdate, HandleStagedUpdate, HandleBatchBegin,
              HandleBatchCommit, HandleBatchAbort, Reject, Stage
<1>2. CASE Reply
  <2>1. phase' = "recv" /\ UNCHANGED <<seqno, log, telemetry>>
    BY <1>2, RequestFrame, ControlKeeps DEF serverSide, Reply, ReplyUpdate, ReplyCommit
  <2> QED BY <2>1 DEF OneAhead, Unpublished
<1>3. CASE BeginOp
  <2>1. /\ phase = "next" /\ phase' = "write" /\ todo # <<>>
        /\ UNCHANGED <<todo, seqno, telemetry>>
    BY <1>3, ControlKeeps DEF BeginOp, serverSide
  <2>2. Unpublished(l)' = Unpublished(l)
    BY <2>1 DEF Unpublished
  <2>3. Len(log'[l]) <= telemetry[l] + 1
    <3>1. CASE l = Target
      <4>1. telemetry[l] = seqno[l] /\ Len(log[l]) = seqno[l]
        BY <2>1, <3>1, TargetUnpublished DEF OneAhead, ControlInv
      <4> QED BY <1>0, <1>3, <3>1, <4>1, BeginOpLog
    <3>2. CASE l # Target
      BY <1>3, <3>2, BeginOpLog DEF OneAhead
    <3> QED BY <3>1, <3>2
  <2> QED BY <2>1, <2>2, <2>3 DEF OneAhead
<1>4. CASE Write \/ UNCHANGED vars
  <2>1. UNCHANGED <<phase, todo, seqno, log, telemetry>>
    BY <1>4, WriteFrame, ControlKeeps
    DEF Write, WriteData, WriteForce, WritePending, WriteTakeEffect, vars, serverSide,
        controlVars, historyVars
  <2> QED BY <2>1 DEF OneAhead, Unpublished
<1>5. CASE BumpSeqno
  <2>1. /\ phase = "write" /\ todo # <<>> /\ UNCHANGED <<log, telemetry>>
        /\ seqno' = [seqno EXCEPT ![Target] = seqno[Target] + 1]
        /\ \/ phase' = "reply"
           \/ phase' = "next" /\ todo' = Tail(todo)
    BY <1>5, ControlKeeps DEF BumpSeqno, Busy, historyVars, serverSide
  <2>2. ASSUME phase' = "next", todo' = Tail(todo), Unpublished(l)'
        PROVE  Unpublished(l) /\ l # Target
    <3>1. PICK i \in 1..Len(Tail(todo)) : Tail(todo)[i].link = l
      BY <2>2 DEF Unpublished
    <3>2. /\ Len(Tail(todo)) = Len(todo) - 1 /\ Len(todo) \in Nat
          /\ Tail(todo)[i] = todo[i + 1]
      BY <1>0, <2>1
    <3>3. i + 1 \in 1..Len(todo) /\ i + 1 # 1 /\ todo[i + 1].link = l
      BY <3>1, <3>2
    <3>4. 1 \in 1..Len(todo) /\ Target = todo[1].link
      BY <2>1, TargetUnpublished
    <3> QED BY <2>1, <3>3, <3>4 DEF OneOfEach, Unpublished
  <2>3. l # Target => seqno'[l] = seqno[l]
    BY <2>1 DEF TypeOK
  <2> QED BY <2>1, <2>2, <2>3 DEF OneAhead, Unpublished
<1>6. ASSUME NEW k \in Link, Serve(k)
      PROVE  OneAhead(l)'
  <2>1. UNCHANGED <<phase, todo, seqno, log>>
    BY <1>6, ServeFrame
  <2>2. Unpublished(l)' = Unpublished(l)
    BY <2>1 DEF Unpublished
  <2>3. CASE telemetry'[l] = telemetry[l]
    BY <2>1, <2>2, <2>3 DEF OneAhead
  <2>4. CASE k = l /\ \E n \in ServeSizes : Run(l, n)
    <3>1. telemetry'[l] = live_seqno[l] /\ telemetry[l] <= live_seqno[l]
      BY <1>0, <2>4 DEF Run, ServerOrder
    <3>2. Unpublished(l) => live_seqno[l] = seqno[l]
      BY Quiet
    <3> QED BY <1>0, <2>1, <2>2, <3>1, <3>2 DEF OneAhead
  <2>5. telemetry'[l] = telemetry[l] \/ (k = l /\ \E n \in ServeSizes : Run(l, n))
    BY <1>6, ServeKeeps
    DEF Serve, StoreSlot, DrainSlot, LoadSeqno, CheckGate, CopyField, FinishSnap, serveVars
  <2> QED BY <2>3, <2>4, <2>5
<1> QED BY <1>1, <1>2, <1>3, <1>4, <1>5, <1>6, NextCases

\* What the control thread writes while a snap is under way is of other links.
LEMMA SnapFrame ==
  ASSUME TypeOK, ControlInv, NEW l \in Link, SnapInv(l),
         UNCHANGED serverSide,
         \A s \in 1..Len(log[l]) : log'[l][s] = log[l][s],
         \/ /\ take_effect_at_slot'[l] = take_effect_at_slot[l]
            /\ \A f \in ProfileField : shadow'[l][f] = shadow[l][f]
         \/ observed[l] = live_seqno[l] /\ step[l] \notin {"gate", "copy", "profile"}
  PROVE  SnapInv(l)'
<1>1. live_seqno[l] \in Nat /\ Len(log[l]) \in Nat /\ live_seqno[l] <= Len(log[l])
  <2>1. live_seqno[l] \in Nat /\ seqno[l] \in Nat /\ Len(log[l]) \in Nat
    BY DEF TypeOK
  <2>2. Len(log[l]) = seqno[l] + 1 \/ Len(log[l]) = seqno[l]
    BY DEF ControlInv
  <2> QED BY <2>1, <2>2 DEF ControlInv
<1>2. \A s \in 1..live_seqno[l] : log'[l][s] = log[l][s]
  BY <1>1
<1> QED BY <1>2 DEF SnapInv, serverSide, copyVars

LEMMA ControlSnap ==
  ASSUME TypeOK, Busy, ControlInv, NEW l \in Link, ServerOrder(l), OneAhead(l), SnapInv(l),
         Request \/ Reply \/ BeginOp \/ Write \/ BumpSeqno \/ UNCHANGED vars
  PROVE  SnapInv(l)'
<1>0. UNCHANGED serverSide
  BY ControlKeeps
<1>1. CASE Request
  BY <1>0, <1>1, RequestKeeps, SnapFrame
<1>2. CASE Reply \/ BumpSeqno \/ UNCHANGED vars
  <2>1. UNCHANGED <<take_effect_at_slot, shadow, log>>
    BY <1>2 DEF Reply, ReplyUpdate, ReplyCommit, BumpSeqno, vars, sharedVars, historyVars
  <2> QED BY <1>0, <2>1, SnapFrame
<1>3. CASE BeginOp
  <2>1. UNCHANGED <<take_effect_at_slot, shadow>>
    BY <1>3 DEF BeginOp, sharedVars
  <2> QED BY <1>0, <1>3, <2>1, BeginOpLog, SnapFrame
<1>4. CASE Write
  <2>1. phase = "write" /\ UNCHANGED log
    BY <1>4, WriteFrame DEF Write, WriteData, WriteForce, WritePending, WriteTakeEffect
  <2>2. Target \in Link
    BY <2>1, TargetIsLink DEF Busy
  <2>3. CASE l = Target
    <3>1. observed[l] = live_seqno[l] /\ step[l] \notin {"gate", "copy", "profile"}
      BY <2>1, <2>3, WrittenQuiet DEF BeingWritten
    <3> QED BY <1>0, <2>1, <3>1, SnapFrame
  <2>4. CASE l # Target
    <3>1. take_effect_at_slot'[l] = take_effect_at_slot[l] /\ shadow'[l] = shadow[l]
      BY <1>4, <2>2, <2>4
      DEF Write, WriteData, WriteForce, WritePending, WriteTakeEffect, TypeOK
    <3> QED BY <1>0, <2>1, <3>1, SnapFrame
  <2> QED BY <2>3, <2>4
<1> QED BY <1>1, <1>2, <1>3, <1>4

LEMMA ServeSnap ==
  ASSUME TypeOK, Busy, ControlInv, NEW l \in Link, ServerOrder(l), LatestGate(l),
         ValueOrder(l), WholeShadow(l), Copied(l), OneAhead(l), SnapInv(l), Serve(l)
  PROVE  SnapInv(l)'
<1>0. /\ DOMAIN step = Link /\ DOMAIN observed = Link /\ DOMAIN live_seqno = Link
      /\ next_slot \in [Link -> Nat] /\ to_copy \in [Link -> SUBSET Data]
      /\ live \in [Link -> [Data -> Nat]]
      /\ live_seqno[l] \in Nat /\ take_effect_at_slot[l] \in Nat
      /\ ProfileField = {"n_taps", "taps"} /\ ProfileField \subseteq Data
  BY DEF TypeOK, ProfileField, Data
<1>1. UNCHANGED <<take_effect_at_slot, shadow, log>>
  BY ServeKeeps DEF shared
<1> USE DEF SnapInv
<1>2. CASE StoreSlot(l)
  <2>1. step[l] = "idle" /\ step'[l] = "load" /\ UNCHANGED <<observed, live, live_seqno, next_slot>>
    BY <1>0, <1>2 DEF StoreSlot, Goto, liveVars, serveVars
  <2> QED BY <1>1, <2>1
<1>8. CASE DrainSlot(l)
  BY <1>1, <1>8 DEF DrainSlot, liveVars, serveVars
<1>3. CASE LoadSeqno(l)
  <2>1. /\ step[l] = "load" /\ observed'[l] = seqno[l]
        /\ step'[l] = IF seqno[l] = live_seqno[l] THEN "run" ELSE "gate"
        /\ UNCHANGED <<live, live_seqno, next_slot>>
    BY <1>0, <1>3 DEF LoadSeqno, Goto, liveVars, serveVars
  <2> QED BY <1>1, <2>1
<1>4. CASE CheckGate(l)
  <2>1. step[l] = "gate" /\ UNCHANGED <<observed, live, live_seqno, next_slot>>
    BY <1>4 DEF CheckGate, liveVars, serveVars
  <2>2. CASE GateClosed(l)
    <3>1. step'[l] = "run" /\ next_slot[l] < take_effect_at_slot[l]
      BY <1>0, <1>4, <2>2 DEF CheckGate, GateClosed, Goto
    <3> QED BY <1>1, <2>1, <3>1
  <2>3. CASE ~GateClosed(l)
    <3>1. step'[l] = "copy" /\ take_effect_at_slot[l] <= next_slot[l]
      BY <1>0, <1>4, <2>3 DEF CheckGate, GateClosed, Goto
    <3> QED BY <1>1, <2>1, <3>1
  <2> QED BY <2>2, <2>3
<1>5. ASSUME NEW f \in Data, CopyField(l, f)
      PROVE  SnapInv(l)'
  <2>1. /\ f \in to_copy[l] /\ to_copy'[l] = to_copy[l] \ {f}
        /\ live'[l][f] = shadow[l][f]
        /\ \A g \in Data : g # f => live'[l][g] = live[l][g]
        /\ UNCHANGED <<step, observed, live_seqno, next_slot>>
    BY <1>0, <1>5 DEF CopyField, serveVars
  <2>2. CASE step[l] = "copy"
    <3>1. f \notin ProfileField
      BY <2>1, <2>2, DistinctFields DEF Copied
    <3> QED BY <1>0, <1>1, <2>1, <2>2, <3>1
  <2>3. CASE step[l] = "profile"
    BY <1>0, <1>1, <2>1, <2>3
  <2> QED BY <2>1, <2>2, <2>3 DEF Copied
<1>6. CASE FinishSnap(l)
  <2>1. /\ step[l] = "copy" /\ live_seqno'[l] = observed[l]
        /\ UNCHANGED <<observed, live, next_slot>>
        /\ \/ step'[l] = "profile" /\ to_copy'[l] = ProfileField
           \/ step'[l] = "run"
    BY <1>0, <1>6 DEF FinishSnap, Observed, Goto, serveVars
  <2>2. /\ observed[l] = Len(log[l]) /\ telemetry[l] + 1 = Len(log[l])
        /\ take_effect_at_slot[l] = log[l][Len(log[l])].gate
    BY <2>1, Ahead
  <2>3. \A s \in 1..live_seqno'[l] : log[l][s].gate <= next_slot[l]
    <3> TAKE s \in 1..live_seqno'[l]
    <3>1. live_seqno[l] >= telemetry[l] /\ telemetry[l] \in Nat
      BY DEF ServerOrder, TypeOK
    <3>2. s \in 1..live_seqno[l] \/ s = Len(log[l])
      BY <1>0, <2>1, <2>2, <3>1
    <3> QED BY <2>1, <2>2, <3>2
  <2> QED BY <1>1, <2>1, <2>3
<1>7. ASSUME NEW n \in ServeSizes, Run(l, n)
      PROVE  SnapInv(l)'
  <2>1. /\ step'[l] = "idle" /\ next_slot'[l] = next_slot[l] + 1
        /\ UNCHANGED <<observed, live, live_seqno>>
    BY <1>0, <1>7 DEF Run, Goto
  <2>2. \A s \in 1..live_seqno[l] : log[l][s].gate <= next_slot'[l]
    <3> TAKE s \in 1..live_seqno[l]
    <3>1. s \in 1..Len(log[l])
      <4>1. seqno[l] \in Nat /\ Len(log[l]) \in Nat /\ live_seqno[l] <= seqno[l]
        BY DEF TypeOK, ControlInv
      <4>2. Len(log[l]) = seqno[l] + 1 \/ Len(log[l]) = seqno[l]
        BY DEF ControlInv
      <4> QED BY <1>0, <4>1, <4>2
    <3>2. log[l][s].gate \in Nat /\ log[l][s].gate <= next_slot[l]
      BY <3>1, LogEntry
    <3> QED BY <1>0, <2>1, <3>2
  <2>3. live[l]["n_taps"] = live[l]["taps"]
    <3>1. CASE step[l] = "profile"
      <4>1. to_copy[l] = {}
        BY <1>7, <3>1 DEF Run, SnapDone, JustActivated
      <4>2. ~BeingWritten(l)
        BY <3>1, Ahead
      <4> QED BY <1>0, <3>1, <4>1, <4>2 DEF WholeShadow
    <3> QED BY <3>1
  <2> QED BY <1>1, <2>1, <2>2, <2>3
<1> QED BY <1>2, <1>3, <1>4, <1>5, <1>6, <1>7, <1>8 DEF Serve

LEMMA NextSnap ==
  ASSUME HandoverInv, [Next]_vars, NEW l \in Link, OneAhead(l), SnapInv(l)
  PROVE  SnapInv(l)'
<1>1. /\ TypeOK /\ Busy /\ ControlInv
      /\ ServerOrder(l) /\ LatestGate(l) /\ ValueOrder(l) /\ WholeShadow(l)
  BY DEF HandoverInv, ControlLinkInv
<1>2. Copied(l)
  BY CopiedLinks DEF HandoverInv, ControlLinkInv
<1>3. CASE Request \/ Reply \/ BeginOp \/ Write \/ BumpSeqno \/ UNCHANGED vars
  BY <1>1, <1>3, ControlSnap
<1>4. CASE Serve(l)
  BY <1>1, <1>2, <1>4, ServeSnap
<1>5. ASSUME NEW k \in Link \ {l}, Serve(k)
      PROVE  SnapInv(l)'
  BY <1>1, <1>5, ServeKeeps DEF SnapInv, SameLink, shared
<1> QED BY <1>3, <1>4, <1>5, NextCases

\* The closed-loop invariant is inductive on top of the hand-over's.
LEMMA InitClosed == Init => ClosedInv
<1> SUFFICES ASSUME Init PROVE ClosedInv
  OBVIOUS
<1>1. OneOfEach
  BY DEF Init, OneOfEach
<1>2. ASSUME NEW l \in Link PROVE OneAhead(l) /\ SnapInv(l)
  BY DEF Init, OneAhead, SnapInv, Unpublished, ProfileField, Data
<1> QED BY <1>1, <1>2 DEF ClosedInv

LEMMA NextClosed == ClosedLoop /\ HandoverInv /\ ClosedInv /\ [Next]_vars => ClosedInv'
<1> SUFFICES ASSUME ClosedLoop, HandoverInv, ClosedInv, [Next]_vars PROVE ClosedInv'
  OBVIOUS
<1>1. TypeOK /\ Busy /\ ControlInv /\ OneOfEach
  BY DEF HandoverInv, ControlLinkInv, ClosedInv
<1>2. OneOfEach'
  BY <1>1, NextOneOfEach
<1>3. ASSUME NEW l \in Link PROVE OneAhead(l)' /\ SnapInv(l)'
  <2>1. ServerOrder(l) /\ OneAhead(l) /\ SnapInv(l)
    BY DEF HandoverInv, ClosedInv
  <2> QED BY <1>1, <2>1, NextAhead, NextSnap
<1> QED BY <1>2, <1>3 DEF ClosedInv

\* What holds of every update and every serve, if clients close the loop.
THEOREM ClosedLoopInvariant == ClosedLoop => (Spec => [](HandoverInv /\ ClosedInv))
<1> DEFINE Inv == ClosedLoop /\ HandoverInv /\ ClosedInv
<1>1. ClosedLoop /\ Init => Inv
  BY InitHandover, InitClosed
<1>2. Inv /\ [Next]_vars => Inv'
  BY NextHandover, NextClosed
<1>3. Inv => HandoverInv /\ ClosedInv
  OBVIOUS
<1> HIDE DEF Inv
<1> QED BY <1>1, <1>2, <1>3, PTL DEF Spec

\* snap_mutable_params copies n_taps and taps of one profile: no serve runs with
\* the tap count of one swap and the taps of another.
THEOREM ProfilesWhole == ClosedLoop => (Spec => []WholeProfile)
<1>1. ClosedInv => WholeProfile
  BY DEF ClosedInv, SnapInv, WholeProfile
<1> QED BY <1>1, ClosedLoopInvariant, PTL

\* An update that a reply said is applied at slot s is live two slots after s at
\* the latest: in the slot after s, or in the one after that if current_slot was
\* still in the store buffer of the serving thread when the reply read it.
THEOREM PromisesKept == ClosedLoop => (Spec => []KeepsPromise)
<1>1. HandoverInv /\ ClosedInv => KeepsPromise
  <2> SUFFICES ASSUME HandoverInv, ClosedInv, NEW l \in Link, SnapDone(l),
                      NEW p \in promised[l], p[1] > live_seqno[l]
               PROVE  next_slot[l] <= p[2] + 1
    BY DEF KeepsPromise
  <2>1. /\ TypeOK /\ Busy /\ ControlInv /\ OneAhead(l) /\ SnapInv(l)
        /\ ServerOrder(l) /\ LatestGate(l) /\ ValueOrder(l) /\ PromiseInv(l)
    BY DEF HandoverInv, ControlLinkInv, ClosedInv
  <2>2. step[l] \in {"run", "profile"}
    BY DEF SnapDone, JustActivated
  <2>3. /\ live_seqno[l] \in Nat /\ observed[l] \in Nat /\ seqno[l] \in Nat
        /\ telemetry[l] \in Nat /\ next_slot[l] \in Nat /\ p[1] \in 1..seqno[l]
        /\ p[2] \in Nat
    <3>1. promised[l] \subseteq Nat \X Nat
      BY <2>1 DEF TypeOK
    <3>2. p[2] \in Nat
      BY <3>1
    <3> QED BY <2>1, <3>2 DEF TypeOK, PromiseInv
  <2>4. CASE p[1] > observed[l]
    BY <2>1, <2>2, <2>4 DEF PromiseInv
  <2>5. CASE p[1] <= observed[l]
    <3>1. observed[l] # live_seqno[l]
      BY <2>3, <2>5
    <3>2. step[l] = "run" /\ next_slot[l] < take_effect_at_slot[l]
      BY <2>1, <2>2, <3>1 DEF ServerOrder, SnapInv
    <3>3. /\ observed[l] = Len(log[l]) /\ telemetry[l] + 1 = Len(log[l])
          /\ take_effect_at_slot[l] = log[l][Len(log[l])].gate
      BY <2>1, <3>1, Ahead
    <3>4. p[1] = Len(log[l])
      BY <2>1, <2>3, <2>5, <3>3 DEF ServerOrder
    <3>5. take_effect_at_slot[l] <= p[2] /\ take_effect_at_slot[l] \in Nat
      BY <2>1, <3>3, <3>4 DEF PromiseInv, TypeOK
    <3> QED BY <2>3, <3>2, <3>5
  <2> QED BY <2>3, <2>4, <2>5
<1> QED BY <1>1, ClosedLoopInvariant, PTL

\* The take_effect_at_slot gate holds an update back until its slot: no field it
\* wrote is copied in an earlier serve.
THEOREM GateHolds == ClosedLoop => (Spec => NeverEarly)
<1> DEFINE Held == \A l \in Link : \A f \in Data :
       live'[l][f] # live[l][f] => log[l][live'[l][f]].gate <= next_slot[l]
<1>1. HandoverInv /\ ClosedInv /\ [Next]_vars => Held
  <2> SUFFICES ASSUME HandoverInv, ClosedInv, [Next]_vars, NEW l \in Link, NEW f \in Data,
                      live'[l][f] # live[l][f]
               PROVE  log[l][live'[l][f]].gate <= next_slot[l]
    OBVIOUS
  <2>1. /\ TypeOK /\ Busy /\ ControlInv /\ OneAhead(l) /\ SnapInv(l)
        /\ ServerOrder(l) /\ LatestGate(l) /\ ValueOrder(l)
    BY DEF HandoverInv, ControlLinkInv, ClosedInv
  <2>2. Copied(l)
    BY CopiedLinks DEF HandoverInv, ControlLinkInv
  <2>3. PICK k \in Link, g \in Data : CopyField(k, g)
    BY NextCases, ControlKeeps
    DEF serverSide, copyVars, slotVars, Serve, StoreSlot, DrainSlot, LoadSeqno, CheckGate,
        FinishSnap, Run, liveVars
  <2>4. f \in to_copy[l] /\ live'[l][f] = shadow[l][f]
    BY <2>1, <2>3 DEF CopyField, TypeOK
  <2>5. step[l] \in {"copy", "profile"}
    BY <2>2, <2>4 DEF Copied
  <2>6. /\ observed[l] = Len(log[l]) /\ telemetry[l] + 1 = Len(log[l])
        /\ take_effect_at_slot[l] = log[l][Len(log[l])].gate
    BY <2>1, <2>5, Ahead
  <2>7. /\ live[l][f] \in Nat /\ shadow[l][f] \in Nat /\ telemetry[l] \in Nat
        /\ live_seqno[l] \in Nat /\ Len(log[l]) \in Nat
        /\ live[l][f] <= shadow[l][f] /\ shadow[l][f] <= Len(log[l])
        /\ telemetry[l] <= live_seqno[l]
    BY <2>1 DEF TypeOK, ValueOrder, ServerOrder
  <2>8. shadow[l][f] \in 1..live_seqno[l] \/ shadow[l][f] = Len(log[l])
    BY <2>4, <2>6, <2>7
  <2> QED BY <2>1, <2>4, <2>5, <2>6, <2>8 DEF SnapInv
<1>2. HandoverInv /\ ClosedInv /\ [Next]_vars => [Held]_vars
  BY <1>1
<1> HIDE DEF Held
<1>3. ClosedLoop => (Spec => [][Held]_vars)
  BY <1>2, ClosedLoopInvariant, PTL DEF Spec
<1> QED BY <1>3 DEF NeverEarly, Held

-----------------------------------------------------------------------------
(***************************************************************************)
(* Warm-ups                                                                *)
(***************************************************************************)
LEMMA DivBounds ==
  ASSUME NEW a \in Int, NEW n \in Nat \ {0}
  PROVE  a \div n \in Int /\ n * (a \div n) <= a /\ a < n * (a \div n) + n
OBVIOUS

LEMMA DivUnique ==
  ASSUME NEW a \in Int, NEW n \in Nat \ {0}, NEW q \in Int,
         n * q <= a, a < n * q + n
  PROVE  a \div n = q
OBVIOUS

\* Rounding up: nothing takes no slots, and each slot takes n samples off.
LEMMA CeilDivSteps ==
  ASSUME NEW x \in Nat, NEW n \in Nat \ {0}
  PROVE  /\ CeilDiv(x, n) \in Nat
         /\ CeilDiv(x, n) = 0 <=> x = 0
         /\ x > 0 => CeilDiv(x - Min2(x, n), n) = CeilDiv(x, n) - 1
<1> DEFINE q == (x + n - 1) \div n
<1>1. q \in Int /\ n * q <= x + n - 1 /\ x + n - 1 < n * q + n
  BY DivBounds
<1>2. CeilDiv(x, n) = q /\ q \in Nat
  BY <1>1, CeilDivNat DEF CeilDiv
<1> HIDE DEF q
<1>3. x = 0 => q = 0
  BY <1>1, <1>2
<1>4. x > 0 => q >= 1
  BY <1>1, <1>2
<1>5. ASSUME x > 0
      PROVE  CeilDiv(x - Min2(x, n), n) = q - 1
  <2>1. CASE x <= n
    <3>1. q = 1
      <4>1. q < 2
        <5>1. CASE q >= 2
          <6>1. n * q >= n * 2
            BY <1>2, <5>1
          <6> QED BY <1>1, <2>1, <6>1
        <5> QED BY <1>2, <5>1
      <4> QED BY <1>2, <1>4, <1>5, <4>1
    <3>2. (0 + n - 1) \div n = 0
      BY DivUnique
    <3> QED BY <2>1, <3>1, <3>2 DEF CeilDiv, Min2
  <2>2. CASE x > n
    <3>1. n * (q - 1) = n * q - n
      BY <1>2
    <3>2. /\ n * (q - 1) <= x - 1
          /\ x - 1 < n * (q - 1) + n
          /\ x - 1 \in Int /\ q - 1 \in Int
      BY <1>1, <1>2, <3>1
    <3>3. (x - 1) \div n = q - 1
      BY <3>2, DivUnique
    <3>4. (x - n) + n - 1 = x - 1
      OBVIOUS
    <3> QED BY <2>2, <3>3, <3>4 DEF CeilDiv, Min2
  <2> QED BY <2>1, <2>2
<1> QED BY <1>2, <1>3, <1>4, <1>5

\* A larger serve takes no more slots.
LEMMA CeilDivAntitone ==
  ASSUME NEW x \in Nat, NEW m \in Nat \ {0}, NEW n \in Nat \ {0}, m <= n
  PROVE  CeilDiv(x, n) <= CeilDiv(x, m)
<1> DEFINE p == (x + m - 1) \div m
           q == (x + n - 1) \div n
<1>1. p \in Int /\ m * p <= x + m - 1 /\ x + m - 1 < m * p + m
  BY DivBounds
<1>2. q \in Int /\ n * q <= x + n - 1 /\ x + n - 1 < n * q + n
  BY DivBounds
<1>3. p \in Nat /\ q \in Nat /\ CeilDiv(x, m) = p /\ CeilDiv(x, n) = q
  BY CeilDivNat DEF CeilDiv
<1> HIDE DEF p, q
<1>4. x <= n * p
  <2>1. m * p <= n * p
    BY <1>3
  <2>2. x <= m * p
    BY <1>1, <1>3
  <2> QED BY <1>3, <2>1, <2>2
<1>5. ASSUME q >= p + 1
      PROVE  FALSE
  <2>1. n * q >= n * p + n
    BY <1>3, <1>5
  <2> QED BY <1>2, <1>3, <1>4, <2>1
<1> QED BY <1>3, <1>5

\* A warm-up ends when the samples that the delay line lacks have been served.
WarmupInv(n) ==
  \A l \in Link :
    IF warmup_until_slot[l] = 0
    THEN delay_line[l] = DelayLine[l]
    ELSE /\ warmup_until_slot[l] >= next_slot[l]
         /\ warmup_until_slot[l] - next_slot[l] = CeilDiv(DelayLine[l] - delay_line[l], n)

\* One serve of n samples in a warm-up, or out of it.
LEMMA WarmupRun ==
  ASSUME TypeOK, NEW n \in ServeSizes, WarmupInv(n), NEW l \in Link, Run(l, n)
  PROVE  /\ IF warmup_until_slot'[l] = 0
            THEN delay_line'[l] = DelayLine[l]
            ELSE /\ warmup_until_slot'[l] >= next_slot'[l]
                 /\ warmup_until_slot'[l] - next_slot'[l]
                      = CeilDiv(DelayLine[l] - delay_line'[l], n)
         /\ warmup_until_slot'[l] # 0 <=> History(l) < DelayLine[l]
<1> DEFINE D == DelayLine[l]
           h == History(l)
           o == OpenedWarmup(l, n)
           t == next_slot[l]
<1>1. /\ n \in Nat \ {0} /\ D \in Nat /\ t \in Nat
      /\ warmup_until_slot[l] \in Nat /\ delay_line[l] \in 0..D
  BY InputAssumption, LinkAssumption DEF TypeOK
<1>2. /\ warmup_until_slot'[l] = IF t >= o THEN 0 ELSE o
      /\ delay_line'[l] = Shifted(l, n)
      /\ next_slot'[l] = t + 1
  <2>1. l \in DOMAIN warmup_until_slot /\ l \in DOMAIN next_slot /\ l \in DOMAIN delay_line
    BY DEF TypeOK
  <2>2. /\ warmup_until_slot' = [warmup_until_slot EXCEPT ![l] = IF t >= o THEN 0 ELSE o]
        /\ delay_line' = [delay_line EXCEPT ![l] = Shifted(l, n)]
        /\ next_slot' = [next_slot EXCEPT ![l] = @ + 1]
    BY DEF Run
  <2> HIDE DEF o
  <2> QED BY <2>1, <2>2
<1>3. h \in 0..D /\ o \in Nat
      /\ IF o = 0 THEN h = D ELSE o >= t /\ o - t = CeilDiv(D - h, n)
  <2>1. CASE JustActivated(l)
    <3>1. h = 0 /\ o = t + CeilDiv(D, n)
      BY <2>1 DEF History, OpenedWarmup
    <3>2. CeilDiv(D, n) \in Nat /\ (CeilDiv(D, n) = 0 <=> D = 0)
      BY <1>1, CeilDivSteps
    <3>3. D - h = D
      BY <1>1, <3>1
    <3> HIDE DEF D, h, o, t
    <3> QED BY <1>1, <3>1, <3>2, <3>3
  <2>2. CASE ~JustActivated(l)
    <3>1. h = delay_line[l] /\ o = warmup_until_slot[l]
      BY <2>2 DEF History, OpenedWarmup
    <3> QED BY <1>1, <3>1 DEF WarmupInv
  <2> QED BY <2>1, <2>2
<1>4. delay_line'[l] = Min2(D, h + n)
  BY <1>2 DEF Shifted
<1> HIDE DEF D, h, o, t
<1>5. D - h \in Nat /\ D - Min2(D, h + n) = (D - h) - Min2(D - h, n)
  BY <1>1, <1>3 DEF Min2
<1>6. /\ CeilDiv(D - h, n) \in Nat /\ (CeilDiv(D - h, n) = 0 <=> D - h = 0)
      /\ D - h > 0 => CeilDiv((D - h) - Min2(D - h, n), n) = CeilDiv(D - h, n) - 1
  BY <1>1, <1>5, CeilDivSteps
<1>7. CASE t >= o
  <2>1. warmup_until_slot'[l] = 0 /\ h = D
    BY <1>1, <1>2, <1>3, <1>5, <1>6, <1>7
  <2>2. Min2(D, h + n) = D
    BY <1>1, <2>1 DEF Min2
  <2> QED BY <1>1, <1>4, <2>1, <2>2 DEF D, h
<1>8. CASE t < o
  <2>1. D - h > 0 /\ o - t = CeilDiv(D - h, n)
    BY <1>1, <1>3, <1>5, <1>6, <1>8
  <2>2. warmup_until_slot'[l] = o /\ o >= t + 1
    BY <1>1, <1>2, <1>3, <1>8
  <2>3. o - (t + 1) = CeilDiv(D - Min2(D, h + n), n)
    BY <1>1, <1>3, <1>5, <1>6, <2>1
  <2>4. o # 0 /\ h < D
    BY <1>1, <1>3, <1>8, <2>1
  <2> QED BY <1>2, <1>4, <2>2, <2>3, <2>4 DEF D, h
<1> QED BY <1>1, <1>3, <1>7, <1>8

\* Only the rest of a serve moves a link's slot, delay line and warm-up.
warmupVars == <<warmup_until_slot, delay_line, next_slot>>

LEMMA WarmupFrame ==
  ASSUME [Next]_vars
  PROVE  UNCHANGED warmupVars \/ \E l \in Link, n \in ServeSizes : Run(l, n)
<1> USE DEF warmupVars, serveVars
<1>1. CASE Request
  BY <1>1 DEF Request, HandleUpdate, HandleStagedUpdate, HandleBatchBegin,
              HandleBatchCommit, HandleBatchAbort, Reject, Outside
<1>2. CASE Reply \/ BeginOp \/ BumpSeqno \/ UNCHANGED vars
  BY <1>2 DEF Reply, ReplyUpdate, ReplyCommit, BeginOp, BumpSeqno, vars
<1>3. CASE Write
  BY <1>3 DEF Write, WriteData, WriteForce, WritePending, WriteTakeEffect, Wrote
<1>4. CASE \E l \in Link : Serve(l)
  BY <1>4 DEF Serve, StoreSlot, DrainSlot, LoadSeqno, CheckGate, CopyField, FinishSnap
<1> QED BY <1>1, <1>2, <1>3, <1>4, NextCases

\* Other links keep theirs.
LEMMA RunOther ==
  ASSUME TypeOK, NEW k \in Link, NEW n \in ServeSizes, Run(k, n), NEW l \in Link, l # k
  PROVE  /\ warmup_until_slot'[l] = warmup_until_slot[l]
         /\ delay_line'[l] = delay_line[l]
         /\ next_slot'[l] = next_slot[l]
BY DEF TypeOK, Run

LEMMA NextWarmup ==
  ASSUME TypeOK, NEW n \in ServeSizes, ServeSizes = {n}, WarmupInv(n), [Next]_vars
  PROVE  /\ WarmupInv(n)'
         /\ \A l \in Link : next_slot'[l] # next_slot[l] =>
              (warmup_until_slot'[l] # 0 <=> History(l) < DelayLine[l])
<1>1. CASE UNCHANGED warmupVars
  BY <1>1 DEF WarmupInv, warmupVars
<1>2. ASSUME NEW k \in Link, Run(k, n)
      PROVE  /\ WarmupInv(n)'
             /\ \A l \in Link : next_slot'[l] # next_slot[l] =>
                  (warmup_until_slot'[l] # 0 <=> History(l) < DelayLine[l])
  <2>1. ASSUME NEW l \in Link, l # k
        PROVE  /\ warmup_until_slot'[l] = warmup_until_slot[l]
               /\ delay_line'[l] = delay_line[l]
               /\ next_slot'[l] = next_slot[l]
    BY <1>2, <2>1, RunOther
  <2>2. WarmupInv(n)'
    BY <1>2, <2>1, WarmupRun DEF WarmupInv
  <2> QED BY <1>2, <2>1, <2>2, WarmupRun
<1> QED BY <1>1, <1>2, WarmupFrame

UniformServes == \E n \in ServeSizes : ServeSizes = {n}

\* With serves of one size, warm-up is flagged for exactly the slots in which the
\* delay line of a new profile is still filling: update_warmup_window.
THEOREM WarmupExact == UniformServes => (Spec => WarmupFlagged)
<1> SUFFICES ASSUME UniformServes PROVE Spec => WarmupFlagged
  OBVIOUS
<1>1. PICK n \in ServeSizes : ServeSizes = {n}
  BY DEF UniformServes
<1> DEFINE Flagged == \A l \in Link : next_slot'[l] # next_slot[l] =>
             (warmup_until_slot'[l] # 0 <=> History(l) < DelayLine[l])
<1>2. Init => WarmupInv(n)
  BY DEF Init, WarmupInv
<1>3. TypeOK /\ WarmupInv(n) /\ [Next]_vars => WarmupInv(n)' /\ [Flagged]_vars
  BY <1>1, NextWarmup
<1> HIDE DEF Flagged, WarmupInv
<1>4. Spec => [][Flagged]_vars
  BY <1>2, <1>3, TypeCorrect, PTL DEF Spec
<1> QED BY <1>4 DEF WarmupFlagged, Flagged

\* A link passed the cap check, as far as its configuration lets the check see.
TooLong(l) ==
  /\ WarmupCap > 0
  /\ l \in Leading
  /\ SlotHint[l] > 0
  /\ CeilDiv(DelayLine[l], SlotHint[l]) > WarmupCap

Passed(ops) == \A i \in 1..Len(ops) : IsSwap(ops[i]) => ~TooLong(ops[i].link)

\* No swap gets past the check of its request, on whatever way it takes.
CapInv ==
  /\ Passed(todo)
  /\ \A b \in DOMAIN open_batches : Passed(open_batches[b])
  /\ phase = "write" /\ "profile_pending" \in writes => IsSwap(Head(todo))
  /\ \A l \in Link : profile_pending[l] \/ step[l] = "profile" => ~TooLong(l)

LEMMA InitCap == Init => CapInv
BY DEF Init, CapInv, Passed

\* What was checked stays checked.
LEMMA PassedTail ==
  ASSUME NEW ops \in Seq(Ops), ops # <<>>, Passed(ops)
  PROVE  Passed(Tail(ops)) /\ (IsSwap(Head(ops)) => ~TooLong(Head(ops).link))
<1>1. /\ Len(Tail(ops)) = Len(ops) - 1 /\ Len(ops) \in Nat /\ Len(ops) >= 1
      /\ \A i \in 1..Len(Tail(ops)) : Tail(ops)[i] = ops[i + 1]
      /\ Head(ops) = ops[1]
  OBVIOUS
<1> QED BY <1>1 DEF Passed

LEMMA PassedAppend ==
  ASSUME NEW ops \in Seq(Ops), NEW op \in Ops, Passed(ops), ~ExceedsWarmupCap(op)
  PROVE  Passed(Append(ops, op))
<1>1. /\ Len(Append(ops, op)) = Len(ops) + 1 /\ Len(ops) \in Nat
      /\ Append(ops, op)[Len(ops) + 1] = op
      /\ \A i \in 1..Len(ops) : Append(ops, op)[i] = ops[i]
  OBVIOUS
<1>2. IsSwap(op) => ~TooLong(op.link)
  BY DEF ExceedsWarmupCap, TooLong
<1>3. ASSUME NEW i \in 1..Len(Append(ops, op)), IsSwap(Append(ops, op)[i])
      PROVE  ~TooLong(Append(ops, op)[i].link)
  <2>1. CASE i = Len(ops) + 1
    BY <1>1, <1>2, <1>3, <2>1
  <2>2. CASE i \in 1..Len(ops)
    BY <1>1, <1>3, <2>2 DEF Passed
  <2> QED BY <1>1, <2>1, <2>2
<1> QED BY <1>3 DEF Passed

\* Requests, staged ones included, are checked before they are taken.
LEMMA RequestCap ==
  ASSUME TypeOK, CapInv, Request
  PROVE  /\ Passed(todo') /\ phase' # "write"
         /\ \A b \in DOMAIN open_batches' : Passed(open_batches'[b])
         /\ UNCHANGED <<profile_pending, step>>
<1>1. phase' # "write"
  BY RequestKeeps
<1>2. UNCHANGED <<profile_pending, step>>
  BY DEF Request, HandleUpdate, HandleStagedUpdate, HandleBatchBegin, HandleBatchCommit,
         HandleBatchAbort, Reject, Outside, sharedVars
<1>3. ASSUME NEW op \in Ops, NEW tea \in TakeEffect, HandleUpdate(op, tea)
      PROVE  /\ Passed(todo')
             /\ \A b \in DOMAIN open_batches' : Passed(open_batches'[b])
  <2>1. todo' = <<op>> /\ UNCHANGED open_batches /\ ~ExceedsWarmupCap(op)
    BY <1>3 DEF HandleUpdate, Apply
  <2>2. Passed(<<op>>)
    BY <2>1 DEF Passed, ExceedsWarmupCap, TooLong
  <2> QED BY <2>1, <2>2 DEF CapInv
<1>4. ASSUME NEW op \in Ops, NEW c \in BatchId, HandleStagedUpdate(op, c)
      PROVE  /\ Passed(todo')
             /\ \A b \in DOMAIN open_batches' : Passed(open_batches'[b])
  <2>1. /\ UNCHANGED todo /\ ~ExceedsWarmupCap(op) /\ c \in DOMAIN open_batches
        /\ open_batches' = [open_batches EXCEPT ![c] = Append(open_batches[c], op)]
    BY <1>4 DEF HandleStagedUpdate, Stage
  <2>2. Passed(Append(open_batches[c], op))
    BY <2>1, PassedAppend DEF CapInv, TypeOK
  <2>3. ASSUME NEW b \in DOMAIN open_batches'
        PROVE  Passed(open_batches'[b])
    <3>1. CASE b = c
      BY <2>1, <2>2, <3>1
    <3>2. CASE b # c
      BY <2>1, <3>2 DEF CapInv
    <3> QED BY <3>1, <3>2
  <2> QED BY <2>1, <2>3 DEF CapInv
<1>5. ASSUME NEW c \in BatchId, HandleBatchBegin(c)
      PROVE  /\ Passed(todo')
             /\ \A b \in DOMAIN open_batches' : Passed(open_batches'[b])
  <2>1. Passed(<<>>)
    BY DEF Passed
  <2> QED BY <1>5, <2>1 DEF HandleBatchBegin, CapInv
<1>6. ASSUME NEW c \in BatchId, NEW tea \in TakeEffect, HandleBatchCommit(c, tea)
      PROVE  /\ Passed(todo')
             /\ \A b \in DOMAIN open_batches' : Passed(open_batches'[b])
  BY <1>6 DEF HandleBatchCommit, Apply, CapInv
<1>7. CASE (\E c \in BatchId : HandleBatchAbort(c)) \/ Reject
  <2>1. /\ UNCHANGED todo /\ DOMAIN open_batches' \subseteq DOMAIN open_batches
        /\ \A b \in DOMAIN open_batches' : open_batches'[b] = open_batches[b]
    BY <1>7 DEF HandleBatchAbort, Without, Reject
  <2> QED BY <1>1, <1>2, <2>1 DEF CapInv
<1> QED BY <1>1, <1>2, <1>3, <1>4, <1>5, <1>6, <1>7 DEF Request

LEMMA NextCap == TypeOK /\ Busy /\ CapInv /\ [Next]_vars => CapInv'
<1> SUFFICES ASSUME TypeOK, Busy, CapInv, [Next]_vars PROVE CapInv'
  OBVIOUS
<1>1. CASE Request
  BY <1>1, RequestCap DEF CapInv
<1>2. CASE ReplyUpdate
  <2>1. Passed(<<>>)
    BY DEF Passed
  <2> QED BY <1>2, <2>1 DEF ReplyUpdate, CapInv, sharedVars
<1>3. CASE ReplyCommit
  <2>1. UNCHANGED <<todo, profile_pending, step>> /\ phase' = "recv"
    BY <1>3 DEF ReplyCommit, sharedVars
  <2>2. /\ DOMAIN open_batches' \subseteq DOMAIN open_batches
        /\ \A b \in DOMAIN open_batches' : open_batches'[b] = open_batches[b]
    BY <1>3 DEF ReplyCommit, Without
  <2> QED BY <2>1, <2>2 DEF CapInv
<1>4. CASE BeginOp
  BY <1>4 DEF BeginOp, CapInv, IsSwap, sharedVars
<1>5. CASE BumpSeqno
  <2>1. todo \in Seq(Ops) /\ todo # <<>>
    BY <1>5 DEF BumpSeqno, Busy, TypeOK
  <2>2. Passed(todo') /\ phase' # "write"
    BY <1>5, <2>1, PassedTail DEF BumpSeqno, CapInv
  <2> QED BY <1>5, <2>2 DEF BumpSeqno, CapInv, sharedVars
<1>6. CASE WritePending
  <2>1. /\ phase = "write" /\ IsSwap(Head(todo)) /\ todo \in Seq(Ops) /\ todo # <<>>
    BY <1>6 DEF WritePending, Wrote, CapInv, Busy, TypeOK
  <2>2. ~TooLong(Target)
    BY <2>1, PassedTail DEF CapInv, Target
  <2>3. /\ profile_pending' = [profile_pending EXCEPT ![Target] = TRUE]
        /\ UNCHANGED <<phase, todo, open_batches, step>> /\ writes' \subseteq writes
    BY <1>6 DEF WritePending, Wrote
  <2> QED BY <2>2, <2>3 DEF CapInv, TypeOK
<1>7. CASE (\E f \in Data : WriteData(f)) \/ WriteForce \/ WriteTakeEffect
  BY <1>7 DEF WriteData, WriteForce, WriteTakeEffect, Wrote, CapInv
<1>8. ASSUME NEW k \in Link, Serve(k)
      PROVE  CapInv'
  <2>1. UNCHANGED <<phase, todo, writes, open_batches, profile_pending>>
    BY <1>8 DEF Serve, StoreSlot, DrainSlot, LoadSeqno, CheckGate, CopyField,
                FinishSnap, Run, Serving, controlVars, sharedVars
  <2>2. \A l \in Link : step'[l] = "profile" => step[l] = "profile" \/ profile_pending[l]
    <3>1. step \in [Link -> {"idle", "load", "gate", "copy", "profile", "run"}]
      BY DEF TypeOK
    <3>2. CASE FinishSnap(k)
      BY <3>1, <3>2 DEF FinishSnap, ProfileToCopy, Goto
    <3>3. CASE ~FinishSnap(k)
      BY <1>8, <3>1, <3>3 DEF Serve, StoreSlot, DrainSlot, LoadSeqno, CheckGate,
                                  CopyField, Run, Goto
    <3> QED BY <3>2, <3>3
  <2> QED BY <2>1, <2>2 DEF CapInv
<1>9. CASE UNCHANGED vars
  BY <1>9 DEF vars, controlVars, sharedVars, CapInv
<1> QED BY <1>1, <1>2, <1>3, <1>4, <1>5, <1>6, <1>7, <1>8, <1>9, NextCases DEF Reply, Write

\* What the cap check rests on: it is enabled, every link has a full serve to
\* measure in and no serve is shorter, and the links it skips have no delay line.
CapCovers ==
  /\ WarmupCap > 0
  /\ \A l \in Link :
       /\ SlotHint[l] > 0
       /\ \A n \in ServeSizes : n >= SlotHint[l]
       /\ l \notin Leading => DelayLine[l] = 0

LEMMA RunCapped ==
  ASSUME CapCovers, TypeOK, CapInv, NEW l \in Link, NEW n \in ServeSizes, Run(l, n),
         warmup_until_slot'[l] # warmup_until_slot[l]
  PROVE  warmup_until_slot'[l] <= next_slot[l] + WarmupCap
<1>1. /\ n \in Nat \ {0} /\ SlotHint[l] \in Nat \ {0} /\ SlotHint[l] <= n
      /\ DelayLine[l] \in Nat /\ WarmupCap \in Nat /\ next_slot[l] \in Nat
  BY InputAssumption, LinkAssumption DEF CapCovers, TypeOK
<1>2. CASE warmup_until_slot'[l] = 0
  BY <1>1, <1>2
<1>3. CASE warmup_until_slot'[l] # 0
  <2>1. warmup_until_slot'[l] = OpenedWarmup(l, n)
    BY <1>3 DEF Run, TypeOK
  <2>2. /\ JustActivated(l)
        /\ warmup_until_slot'[l] = next_slot[l] + CeilDiv(DelayLine[l], n)
    BY <2>1 DEF OpenedWarmup
  <2>3. ~TooLong(l)
    BY <2>2 DEF JustActivated, CapInv
  <2>4. /\ CeilDiv(DelayLine[l], n) \in Nat /\ CeilDiv(DelayLine[l], SlotHint[l]) \in Nat
        /\ CeilDiv(DelayLine[l], n) <= CeilDiv(DelayLine[l], SlotHint[l])
    BY <1>1, CeilDivNat, CeilDivAntitone
  <2>5. CASE l \in Leading
    <3>1. CeilDiv(DelayLine[l], SlotHint[l]) <= WarmupCap
      BY <1>1, <2>3, <2>4, <2>5 DEF TooLong, CapCovers
    <3> QED BY <1>1, <2>2, <2>4, <3>1
  <2>6. CASE l \notin Leading
    <3>1. CeilDiv(DelayLine[l], n) = 0
      BY <1>1, <2>6, CeilDivSteps DEF CapCovers
    <3> QED BY <1>1, <2>2, <3>1
  <2> QED BY <2>5, <2>6
<1> QED BY <1>2, <1>3

\* A swap that passed the warmup_cap_slots check of its request opens a warm-up
\* of at most that many slots, whatever the client sends: would_exceed_warmup_cap.
THEOREM WarmupsCapped == CapCovers => (Spec => WarmupCapped)
<1> SUFFICES ASSUME CapCovers PROVE Spec => WarmupCapped
  OBVIOUS
<1> DEFINE Capped == \A l \in Link : warmup_until_slot'[l] # warmup_until_slot[l] =>
             warmup_until_slot'[l] <= next_slot[l] + WarmupCap
<1>1. ASSUME TypeOK, CapInv, [Next]_vars
      PROVE  Capped
  <2>1. CASE UNCHANGED warmupVars
    BY <2>1 DEF warmupVars
  <2>2. ASSUME NEW k \in Link, NEW n \in ServeSizes, Run(k, n)
        PROVE  Capped
    BY <1>1, <2>2, RunCapped, RunOther
  <2> QED BY <1>1, <2>1, <2>2, WarmupFrame
<1>2. Init => Busy
  BY DEF Init, Busy
<1>3. TypeOK /\ CapInv /\ [Next]_vars => [Capped]_vars
  BY <1>1
<1> HIDE DEF Capped
<1>4. Spec => [][Capped]_vars
  BY <1>2, <1>3, TypeCorrect, InitCap, NextCap, NextBusy, PTL DEF Spec
<1> QED BY <1>4 DEF WarmupCapped, Capped

=============================================================================
